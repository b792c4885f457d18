---------------------------- MODULE TablesProofs ----------------------------
(***************************************************************************)
(* Proofs about the tables that MCTables instantiates: ChannelModes, for   *)
(* any users, keys, limits and timestamps, ServerTree, for any number of   *)
(* servers and any lines of the hub, ProxyScan, for any addresses, any     *)
(* list of scans and any limit, ScheduleHeap, for any number of timers,    *)
(* ChanUserHash, for any numerics and any depth of its search, and Glines, *)
(* for any masks and durations.                                            *)
(***************************************************************************)
EXTENDS MCTables, Sequences, FiniteSetTheorems, WellFoundedInduction, TLAPS

-----------------------------------------------------------------------------
(* The modes of a channel. *)

\* A channel whose key and limit go with its modes.
Values(c) == (Modes!IsKey(c) <=> c.key # NULL) /\ (Modes!IsLimit(c) <=> c.limit # 0)
Sound == {c \in Modes!Channels : Values(c)}

ModesInv == cp = NULL \/ cp \in Sound

Occupants == UNION {[us -> SUBSET Modes!UserModes] : us \in SUBSET ChannelUsers}

-----------------------------------------------------------------------------
(* The users of a channel. *)

LEMMA OccupantsFacts ==
  ASSUME NEW users
  PROVE  users \in Occupants <=>
           /\ users = [u \in DOMAIN users |-> users[u]]
           /\ DOMAIN users \subseteq ChannelUsers
           /\ \A u \in DOMAIN users : users[u] \subseteq Modes!UserModes
  BY DEF Occupants

LEMMA StrippedOccupants ==
  ASSUME NEW users \in Occupants, NEW modes
  PROVE  Modes!Stripped(users, modes) \in Occupants
  BY OccupantsFacts DEF Modes!Stripped

LEMMA SoundFields ==
  ASSUME NEW c \in Modes!Channels
  PROVE  /\ c = [timestamp |-> c.timestamp, flags |-> c.flags, key |-> c.key, limit |-> c.limit,
                 users |-> c.users]
         /\ c.timestamp \in Nat /\ c.flags \subseteq Modes!Flags /\ c.key \in Keys \cup {NULL}
         /\ c.limit \in Limits \cup {0} /\ c.users \in Occupants
  BY DEF Modes!Channels, Occupants

LEMMA CreatedSound ==
  ASSUME Modes!ModesAssumption
  PROVE  Modes!Created \in Sound
<1>1. << >> \in Occupants
  <2>1. << >> \in [{} -> SUBSET Modes!UserModes]
    OBVIOUS
  <2> QED BY <2>1 DEF Occupants
<1> QED BY <1>1 DEF Modes!Created, Sound, Modes!Channels, Values, Modes!IsKey, Modes!IsLimit, Modes!Flags,
      Occupants, Modes!ModesAssumption

LEMMA WithUserSound ==
  ASSUME NEW c \in Sound, NEW u \in ChannelUsers, NEW modes \in SUBSET Modes!UserModes
  PROVE  Modes!WithUser(c, u, modes) \in Sound
<1> DEFINE users == IF u \in DOMAIN c.users THEN c.users
                    ELSE [x \in DOMAIN c.users \cup {u} |-> IF x = u THEN modes ELSE c.users[x]]
<1>1. c \in Modes!Channels /\ Values(c)
  BY DEF Sound
<1>2. users \in Occupants
  BY <1>1, SoundFields, OccupantsFacts
<1>3. Modes!WithUser(c, u, modes) = [c EXCEPT !.users = users]
  BY <1>1, SoundFields DEF Modes!WithUser
<1> HIDE DEF users
<1> QED BY <1>1, <1>2, <1>3 DEF Sound, Modes!Channels, Values, Modes!IsKey, Modes!IsLimit, Occupants

LEMMA ErasedSound ==
  ASSUME NEW c \in Sound, NEW ts \in Nat
  PROVE  /\ Modes!Erased(c, ts) \in Sound /\ Modes!Erased(c, ts).timestamp = ts
         /\ Modes!Erased(c, ts).users = Modes!Stripped(c.users, Modes!UserModes)
<1>1. c \in Modes!Channels
  BY DEF Sound
<1>2. Modes!Stripped(c.users, Modes!UserModes) \in Occupants
  BY <1>1, SoundFields, StrippedOccupants
<1>3. Modes!Erased(c, ts) = [c EXCEPT !.timestamp = ts, !.flags = {}, !.key = NULL, !.limit = 0,
                                !.users = Modes!Stripped(c.users, Modes!UserModes)]
  BY <1>1, SoundFields DEF Modes!Erased
<1> QED BY <1>1, <1>2, <1>3 DEF Sound, Modes!Channels, Values, Modes!IsKey, Modes!IsLimit, Modes!Flags,
      Occupants

LEMMA MergedSound ==
  ASSUME Modes!ModesAssumption, NEW c \in Sound, NEW m \in Modes!SomeModes
  PROVE  /\ Modes!MergedModes(c, m) \in Sound
         /\ Modes!MergedModes(c, m).timestamp = c.timestamp /\ Modes!MergedModes(c, m).users = c.users
<1>1. c \in Modes!Channels /\ Values(c)
  BY DEF Sound
<1>2. /\ m.flags \subseteq Modes!Flags /\ m.key \in Keys \cup {NULL} /\ m.limit \in Limits \cup {0}
      /\ "k" \in m.flags <=> m.key # NULL
      /\ "l" \in m.flags <=> m.limit # 0
  BY DEF Modes!SomeModes
<1> DEFINE flags == c.flags \cup m.flags
           limit == IF "l" \notin m.flags \/ (Modes!IsLimit(c) /\ c.limit > 0 /\ c.limit <= m.limit)
                    THEN c.limit ELSE m.limit
           key == IF "k" \notin m.flags \/ (Modes!IsKey(c) /\ c.key <= m.key) THEN c.key ELSE m.key
<1>3. Modes!MergedModes(c, m) = [c EXCEPT !.flags = flags, !.limit = limit, !.key = key]
  BY <1>1, SoundFields DEF Modes!MergedModes
<1>4. flags \subseteq Modes!Flags /\ key \in Keys \cup {NULL} /\ limit \in Limits \cup {0}
  BY <1>1, <1>2, SoundFields
<1>5. "k" \in flags <=> key # NULL
  BY <1>1, <1>2 DEF Values, Modes!IsKey
<1>6. "l" \in flags <=> limit # 0
  BY <1>1, <1>2 DEF Values, Modes!IsLimit
<1> HIDE DEF flags, limit, key
<1>7. c.timestamp \in Nat /\ c.users \in Occupants
  BY <1>1, SoundFields
<1> QED BY <1>1, <1>3, <1>4, <1>5, <1>6, <1>7 DEF Sound, Modes!Channels, Values, Modes!IsKey, Modes!IsLimit,
      Occupants

-----------------------------------------------------------------------------
(* A burst. *)

\* The channel that a burst finds, and what is left of it.
Before(old, b) == IF old = NULL THEN [Modes!Created EXCEPT !.timestamp = b.timestamp] ELSE old
Base(old, b) ==
  IF b.timestamp < Before(old, b).timestamp THEN Modes!Erased(Before(old, b), b.timestamp) ELSE Before(old, b)
Merged(old, b) ==
  IF b.timestamp > Before(old, b).timestamp THEN Base(old, b) ELSE Modes!MergedModes(Base(old, b), b.modes)
NewUsers(old, b) ==
  [u \in DOMAIN Base(old, b).users \cup DOMAIN b.users |->
     IF u \in DOMAIN Base(old, b).users THEN Base(old, b).users[u]
     ELSE IF b.timestamp > Before(old, b).timestamp THEN {} ELSE b.users[u]]

LEMMA BurstParts ==
  ASSUME NEW old, NEW b
  PROVE  Modes!Burst(old, b) = [Merged(old, b) EXCEPT !.users = NewUsers(old, b)]
  BY DEF Modes!Burst, Before, Base, Merged, NewUsers

LEMMA BeforeSound ==
  ASSUME Modes!ModesAssumption, NEW us \in SUBSET ChannelUsers, NEW b \in Modes!Bursts(us),
           NEW old \in Sound \cup {NULL}
  PROVE  Before(old, b) \in Sound
<1>1. b.timestamp \in Nat
  BY DEF Modes!Bursts, Modes!ModesAssumption
<1>2. [Modes!Created EXCEPT !.timestamp = b.timestamp] \in Sound
  BY <1>1, CreatedSound DEF Modes!Created, Sound, Modes!Channels, Values, Modes!IsKey, Modes!IsLimit
<1> QED BY <1>2 DEF Before

LEMMA MergedPartSound ==
  ASSUME Modes!ModesAssumption, NEW us \in SUBSET ChannelUsers, NEW b \in Modes!Bursts(us),
           NEW old \in Sound \cup {NULL}
  PROVE  /\ Base(old, b) \in Sound /\ Merged(old, b) \in Sound
         /\ Merged(old, b).users = Base(old, b).users
<1>1. b.timestamp \in Nat /\ b.modes \in Modes!SomeModes
  BY DEF Modes!Bursts, Modes!ModesAssumption
<1>2. Base(old, b) \in Sound
  BY <1>1, BeforeSound, ErasedSound DEF Base
<1> QED BY <1>1, <1>2, MergedSound DEF Merged

LEMMA BurstSound ==
  ASSUME Modes!ModesAssumption, NEW us \in SUBSET ChannelUsers, NEW b \in Modes!Bursts(us),
           NEW old \in Sound \cup {NULL}
  PROVE  Modes!Burst(old, b) \in Sound
<1> DEFINE base == Base(old, b)
           m == Merged(old, b)
           users == NewUsers(old, b)
<1>1. m \in Sound /\ base \in Sound
  BY MergedPartSound
<1>2. users \in Occupants
  <2>1. base.users \in Occupants
    BY <1>1, SoundFields DEF Sound
  <2>2. b.users \in [us -> SUBSET {"o"}]
    BY DEF Modes!Bursts
  <2>3. DOMAIN users \subseteq ChannelUsers
    BY <2>1, <2>2, OccupantsFacts DEF NewUsers
  <2>4. \A u \in DOMAIN users : users[u] \subseteq Modes!UserModes
    BY <2>1, <2>2, OccupantsFacts DEF NewUsers, Modes!UserModes
  <2>5. users = [u \in DOMAIN users |-> users[u]]
    BY DEF NewUsers
  <2> QED BY <2>3, <2>4, <2>5, OccupantsFacts
<1>3. Modes!Burst(old, b) = [m EXCEPT !.users = users]
  BY BurstParts
<1> HIDE DEF m, users, base
<1> QED BY <1>1, <1>2, <1>3 DEF Sound, Modes!Channels, Values, Modes!IsKey, Modes!IsLimit, Occupants

-----------------------------------------------------------------------------
(* The steps. *)

LEMMA BurstStep ==
  ASSUME Modes!ModesAssumption, ModesInv, NEW us \in SUBSET ChannelUsers, NEW b \in Modes!Bursts(us),
           Modes!handleburstmsg(b)
  PROVE  ModesInv'
BY BurstSound DEF ModesInv, Modes!handleburstmsg

LEMMA JoinStep ==
  ASSUME Modes!ModesAssumption, ModesInv, NEW u \in ChannelUsers, NEW ts \in ModeTimes \cup {0},
         NEW modes \in SUBSET Modes!UserModes, Modes!handlejoinmsg(u, ts, modes)
  PROVE  ModesInv'
<1> DEFINE c == IF Modes!Channel.timestamp = MAGIC_REMOTE_JOIN_TS /\ ts # 0
                THEN [Modes!Channel EXCEPT !.timestamp = ts] ELSE Modes!Channel
<1>1. Modes!Channel \in Sound
  BY CreatedSound DEF Modes!Channel, ModesInv
<1>2. ts \in Nat
  BY DEF Modes!ModesAssumption
<1>3. c \in Sound
  BY <1>1, <1>2 DEF Sound, Modes!Channels, Values, Modes!IsKey, Modes!IsLimit
<1>4. cp' = Modes!WithUser(c, u, modes)
  BY DEF Modes!handlejoinmsg
<1> HIDE DEF c
<1> QED BY <1>3, <1>4, WithUserSound DEF ModesInv

LEMMA LeaveStep ==
  ASSUME ModesInv, NEW u \in ChannelUsers, Modes!Leave(u)
  PROVE  ModesInv'
<1> DEFINE users == [x \in DOMAIN cp.users \ {u} |-> cp.users[x]]
<1>1. cp \in Sound /\ cp \in Modes!Channels
  BY DEF Modes!Leave, ModesInv, Sound
<1>2. users \in Occupants
  BY <1>1, SoundFields, OccupantsFacts
<1>3. cp' = NULL \/ cp' = [cp EXCEPT !.users = users]
  BY <1>1, SoundFields DEF Modes!Leave
<1> HIDE DEF users
<1> QED BY <1>1, <1>2, <1>3 DEF ModesInv, Sound, Modes!Channels, Values, Modes!IsKey, Modes!IsLimit, Occupants

\* What MODE lines may do to the flags, the key and the limit.
LEMMA ModeSimpleStep ==
  ASSUME Modes!ModesAssumption, ModesInv, NEW f \in SimpleModes, NEW dir \in BOOLEAN, Modes!ModeSimple(f, dir)
  PROVE  ModesInv'
<1> DEFINE flags == IF dir THEN (cp.flags \cup {f}) \ {x \in {"s", "p"} \ {f} : f \in {"s", "p"}}
                    ELSE cp.flags \ {f}
<1>1. cp \in Sound /\ cp \in Modes!Channels
  BY DEF Modes!ModeSimple, ModesInv, Sound
<1>2. f \notin {"k", "l"} /\ f \in Modes!Flags
  BY DEF Modes!ModesAssumption, Modes!Flags
<1>3. /\ flags \subseteq Modes!Flags
      /\ "k" \in flags <=> "k" \in cp.flags
      /\ "l" \in flags <=> "l" \in cp.flags
  BY <1>1, <1>2, SoundFields
<1>4. cp' = [cp EXCEPT !.flags = flags]
  BY <1>1, SoundFields DEF Modes!ModeSimple
<1> HIDE DEF flags
<1> QED BY <1>1, <1>3, <1>4 DEF ModesInv, Sound, Modes!Channels, Values, Modes!IsKey, Modes!IsLimit

LEMMA ModeLimitStep ==
  ASSUME ModesInv, NEW n \in Limits \cup {0}, Modes!ModeLimit(n)
  PROVE  ModesInv'
<1>1. cp \in Sound /\ cp \in Modes!Channels
  BY DEF Modes!ModeLimit, ModesInv, Sound
<1>2. cp' = [cp EXCEPT !.limit = n, !.flags = IF n # 0 THEN cp.flags \cup {"l"} ELSE cp.flags \ {"l"}]
  BY <1>1, SoundFields DEF Modes!ModeLimit
<1> QED BY <1>1, <1>2 DEF ModesInv, Sound, Modes!Channels, Values, Modes!IsKey, Modes!IsLimit, Modes!Flags

LEMMA ModeKeyStep ==
  ASSUME ModesInv, NEW k \in Keys \cup {NULL}, Modes!ModeKey(k)
  PROVE  ModesInv'
<1>1. cp \in Sound /\ cp \in Modes!Channels
  BY DEF Modes!ModeKey, ModesInv, Sound
<1>2. cp' = [cp EXCEPT !.key = k, !.flags = IF k # NULL THEN cp.flags \cup {"k"} ELSE cp.flags \ {"k"}]
  BY <1>1, SoundFields DEF Modes!ModeKey
<1> QED BY <1>1, <1>2 DEF ModesInv, Sound, Modes!Channels, Values, Modes!IsKey, Modes!IsLimit, Modes!Flags

LEMMA ModeUserStep ==
  ASSUME ModesInv, NEW u \in ChannelUsers, NEW m \in Modes!UserModes, NEW dir \in BOOLEAN, Modes!ModeUser(u,
           m, dir)
  PROVE  ModesInv'
<1> DEFINE users == [cp.users EXCEPT ![u] = IF dir THEN @ \cup {m} ELSE @ \ {m}]
<1>1. cp \in Sound /\ cp \in Modes!Channels /\ u \in DOMAIN cp.users
  BY DEF Modes!ModeUser, ModesInv, Sound
<1>2. users \in Occupants
  BY <1>1, SoundFields, OccupantsFacts
<1>3. cp' = [cp EXCEPT !.users = users]
  BY <1>1, SoundFields DEF Modes!ModeUser
<1> HIDE DEF users
<1> QED BY <1>1, <1>2, <1>3 DEF ModesInv, Sound, Modes!Channels, Values, Modes!IsKey, Modes!IsLimit, Occupants

LEMMA ClearModeStep ==
  ASSUME ModesInv, NEW ms \in SUBSET (Modes!Flags \cup Modes!UserModes), Modes!handleclearmodemsg(ms)
  PROVE  ModesInv'
<1> DEFINE users == Modes!Stripped(cp.users, ms)
           key == IF "k" \in ms THEN NULL ELSE cp.key
           limit == IF "l" \in ms THEN 0 ELSE cp.limit
<1>1. cp \in Modes!Channels /\ Values(cp)
  BY DEF Modes!handleclearmodemsg, ModesInv, Sound
<1>2. users \in Occupants
  BY <1>1, SoundFields, StrippedOccupants
<1>3. cp' = [cp EXCEPT !.flags = cp.flags \ ms, !.key = key, !.limit = limit, !.users = users]
  BY <1>1, SoundFields DEF Modes!handleclearmodemsg
<1>4. /\ cp.timestamp \in Nat /\ cp.flags \ ms \subseteq Modes!Flags
      /\ key \in Keys \cup {NULL} /\ limit \in Limits \cup {0}
      /\ "k" \in cp.flags \ ms <=> key # NULL
      /\ "l" \in cp.flags \ ms <=> limit # 0
  BY <1>1, SoundFields DEF Values, Modes!IsKey, Modes!IsLimit
<1> HIDE DEF users, key, limit
<1> QED BY <1>1, <1>2, <1>3, <1>4 DEF ModesInv, Sound, Modes!Channels, Values, Modes!IsKey, Modes!IsLimit,
      Occupants

LEMMA ReplacedSound ==
  ASSUME NEW c \in Sound, NEW ts \in Nat, NEW flags \in SUBSET Modes!Flags,
         NEW limit \in Limits \cup {0}, NEW key \in Keys \cup {NULL}
  PROVE  Modes!Replaced(c, ts, flags, limit, key) \in Sound
<1> DEFINE newkey == IF "k" \notin flags THEN NULL ELSE IF key # NULL THEN key ELSE c.key
           newlimit == IF "l" \notin flags THEN 0 ELSE IF limit # 0 THEN limit ELSE c.limit
           newflags == flags \ ({x \in {"k"} : newkey = NULL} \cup {x \in {"l"} : newlimit = 0})
           users == Modes!Stripped(c.users, Modes!UserModes)
<1>1. c \in Modes!Channels
  BY DEF Sound
<1>2. users \in Occupants
  BY <1>1, SoundFields, StrippedOccupants
<1>3. Modes!Replaced(c, ts, flags, limit, key) =
        [c EXCEPT !.timestamp = ts, !.key = newkey, !.limit = newlimit, !.flags = newflags, !.users = users]
  BY <1>1, SoundFields DEF Modes!Replaced
<1>4. /\ newflags \subseteq Modes!Flags /\ newkey \in Keys \cup {NULL} /\ newlimit \in Limits \cup {0}
      /\ "k" \in newflags <=> newkey # NULL
      /\ "l" \in newflags <=> newlimit # 0
  BY <1>1, SoundFields
<1> HIDE DEF newkey, newlimit, newflags, users
<1> QED BY <1>1, <1>2, <1>3, <1>4 DEF Sound, Modes!Channels, Values, Modes!IsKey, Modes!IsLimit, Occupants

LEMMA LocalBurstStep ==
  ASSUME Modes!ModesAssumption, ModesInv, NEW u \in ChannelUsers, NEW ts \in ModeTimes,
           NEW flags \in SUBSET Modes!Flags,
         NEW limit \in Limits \cup {0}, NEW key \in Keys \cup {NULL},
         Modes!localburstontochannel(u, ts, flags, limit, key)
  PROVE  ModesInv'
<1>1. cp \in Sound
  BY DEF Modes!localburstontochannel, ModesInv
<1>2. CASE ts > cp.timestamp
  BY <1>2, JoinStep DEF Modes!localburstontochannel
<1>3. CASE ~(ts > cp.timestamp)
  <2> DEFINE c == IF ts < cp.timestamp THEN Modes!Replaced(cp, ts, flags, limit, key) ELSE cp
  <2>1. ts \in Nat
    BY DEF Modes!ModesAssumption
  <2>2. c \in Sound
    BY <1>1, <2>1, ReplacedSound
  <2>3. cp' = Modes!WithUser(c, u, {"o"})
    BY <1>3 DEF Modes!localburstontochannel
  <2> HIDE DEF c
  <2> QED BY <2>2, <2>3, WithUserSound DEF ModesInv, Modes!UserModes
<1> QED BY <1>2, <1>3

LEMMA ModesStep ==
  ASSUME Modes!ModesAssumption, ModesInv, [Modes!Next]_Modes!vars
  PROVE  ModesInv'
<1>1. CASE \E us \in SUBSET (ChannelUsers \ DOMAIN Modes!Channel.users) : \E b \in Modes!Bursts(us) :
        Modes!handleburstmsg(b)
  BY <1>1, BurstStep
<1>2. ASSUME NEW u \in ChannelUsers, NEW ts \in ModeTimes \cup {0}, Modes!handlejoinmsg(u, ts, {})
      PROVE  ModesInv'
  BY <1>2, JoinStep
<1>3. ASSUME NEW u \in ChannelUsers, NEW ts \in ModeTimes, Modes!handlejoinmsg(u, ts, {"o"})
      PROVE  ModesInv'
  BY <1>3, JoinStep DEF Modes!UserModes
<1>4. ASSUME NEW u \in ChannelUsers, Modes!Leave(u)
      PROVE  ModesInv'
  BY <1>4, LeaveStep
<1>5. ASSUME NEW f \in SimpleModes, NEW dir \in BOOLEAN, Modes!ModeSimple(f, dir)
      PROVE  ModesInv'
  BY <1>5, ModeSimpleStep
<1>6. ASSUME NEW n \in Limits \cup {0}, Modes!ModeLimit(n)
      PROVE  ModesInv'
  BY <1>6, ModeLimitStep
<1>7. ASSUME NEW k \in Keys \cup {NULL}, Modes!ModeKey(k)
      PROVE  ModesInv'
  BY <1>7, ModeKeyStep
<1>8. ASSUME NEW u \in ChannelUsers, NEW m \in Modes!UserModes, NEW dir \in BOOLEAN, Modes!ModeUser(u, m, dir)
      PROVE  ModesInv'
  BY <1>8, ModeUserStep
<1>9. ASSUME NEW ms \in SUBSET (Modes!Flags \cup Modes!UserModes), Modes!handleclearmodemsg(ms)
      PROVE  ModesInv'
  BY <1>9, ClearModeStep
<1>10. ASSUME NEW u \in ChannelUsers, NEW ts \in ModeTimes, NEW flags \in SUBSET Modes!Flags,
              NEW n \in {m \in Limits : "l" \in flags} \cup {0},
              NEW k \in {m \in Keys : "k" \in flags} \cup {NULL},
              Modes!localburstontochannel(u, ts, flags, n, k)
       PROVE  ModesInv'
  BY <1>10, LocalBurstStep
<1>11. CASE UNCHANGED Modes!vars
  BY <1>11 DEF Modes!vars, ModesInv
<1> QED BY <1>1, <1>2, <1>3, <1>4, <1>5, <1>6, <1>7, <1>8, <1>9, <1>10, <1>11 DEF Modes!Next

LEMMA ModesAlways ==
  ASSUME Modes!ModesAssumption
  PROVE  Modes!Spec => []ModesInv
<1>1. Modes!Init => ModesInv
  BY DEF Modes!Init, ModesInv
<1>2. ModesInv /\ [Modes!Next]_Modes!vars => ModesInv'
  BY ModesStep
<1> QED BY <1>1, <1>2, PTL DEF Modes!Spec

\* handleburstmsg(), handlemodemsg(), handleclearmodemsg(), localburstontochannel(): a channel has a
\* key exactly while it is +k and a limit while it is +l, however its modes have been merged or erased.
THEOREM KeyAndLimit ==
  ASSUME Modes!ModesAssumption
  PROVE  Modes!Spec => [](Modes!ValuesExact /\ ValuesExact)
<1>1. ModesInv => Modes!ValuesExact /\ ValuesExact
  BY DEF ValuesExact, ModesInv, Sound, Values, Modes!ValuesExact
<1> QED BY <1>1, ModesAlways, PTL

-----------------------------------------------------------------------------
(* Two bursts. *)

\* What becomes of each field; of two keys or limits the first counts.
MergedKey(x, y) == IF y = NULL THEN x ELSE IF x # NULL /\ x <= y THEN x ELSE y
MergedLimit(x, y) == IF y = 0 THEN x ELSE IF x # 0 /\ x <= y THEN x ELSE y

\* r is what a burst b of the users us makes of the channel c.
Gives(c, us, b, r) ==
  /\ r.timestamp = IF b.timestamp < c.timestamp THEN b.timestamp ELSE c.timestamp
  /\ r.flags = IF b.timestamp > c.timestamp THEN c.flags
               ELSE (IF b.timestamp < c.timestamp THEN {} ELSE c.flags) \cup b.modes.flags
  /\ r.key = IF b.timestamp > c.timestamp THEN c.key
             ELSE MergedKey(IF b.timestamp < c.timestamp THEN NULL ELSE c.key, b.modes.key)
  /\ r.limit = IF b.timestamp > c.timestamp THEN c.limit
               ELSE MergedLimit(IF b.timestamp < c.timestamp THEN 0 ELSE c.limit, b.modes.limit)
  /\ DOMAIN r.users = DOMAIN c.users \cup us
  /\ \A x \in DOMAIN c.users : r.users[x] = IF b.timestamp < c.timestamp THEN {} ELSE c.users[x]
  /\ \A x \in us \ DOMAIN c.users : r.users[x] = IF b.timestamp > c.timestamp THEN {} ELSE b.users[x]

LEMMA BurstFields ==
  ASSUME Modes!ModesAssumption, NEW us \in SUBSET ChannelUsers, NEW b \in Modes!Bursts(us), NEW c \in Sound
  PROVE  Gives(c, us, b, Modes!Burst(c, b))
<1> DEFINE r == Modes!Burst(c, b)
           older == b.timestamp < c.timestamp
           younger == b.timestamp > c.timestamp
           base == Base(c, b)
           m == Merged(c, b)
<1>1. /\ c \in Modes!Channels /\ Values(c) /\ c # NULL
      /\ c.timestamp \in Nat /\ c.key \in Keys \cup {NULL} /\ c.limit \in Limits \cup {0}
      /\ c.users \in Occupants
  BY SoundFields DEF Sound, Modes!ModesAssumption
<1>2. /\ b.timestamp \in Nat /\ b.modes \in Modes!SomeModes /\ b.users \in [us -> SUBSET {"o"}]
      /\ b.modes.key \in Keys \cup {NULL} /\ b.modes.limit \in Limits \cup {0}
      /\ "k" \in b.modes.flags <=> b.modes.key # NULL
      /\ "l" \in b.modes.flags <=> b.modes.limit # 0
  BY DEF Modes!Bursts, Modes!SomeModes, Modes!ModesAssumption
<1>3. /\ base = IF older THEN Modes!Erased(c, b.timestamp) ELSE c
      /\ m = IF younger THEN base ELSE Modes!MergedModes(base, b.modes)
      /\ base \in Sound /\ base \in Modes!Channels /\ Values(base) /\ m \in Sound /\ m \in Modes!Channels
  BY <1>1, MergedPartSound DEF Base, Merged, Before, Sound
<1>4. /\ base.timestamp = IF older THEN b.timestamp ELSE c.timestamp
      /\ base.flags = IF older THEN {} ELSE c.flags
      /\ base.key = IF older THEN NULL ELSE c.key
      /\ base.limit = IF older THEN 0 ELSE c.limit
      /\ base.users = IF older THEN Modes!Stripped(c.users, Modes!UserModes) ELSE c.users
  <2>1. CASE older
    BY <1>1, <1>3, <2>1 DEF Modes!Erased, Modes!Channels
  <2>2. CASE ~older
    BY <1>3, <2>2
  <2> QED BY <2>1, <2>2
<1>5. /\ m.timestamp = base.timestamp
      /\ m.flags = IF younger THEN base.flags ELSE base.flags \cup b.modes.flags
      /\ m.key = IF younger THEN base.key ELSE MergedKey(base.key, b.modes.key)
      /\ m.limit = IF younger THEN base.limit ELSE MergedLimit(base.limit, b.modes.limit)
  <2>1. CASE younger
    BY <1>3, <2>1
  <2>2. CASE ~younger
    <3>1. base.limit \in Nat /\ b.modes.limit \in Nat
      BY <1>2, <1>3, SoundFields DEF Modes!ModesAssumption
    <3>2. m = Modes!MergedModes(base, b.modes)
      BY <1>3, <2>2
    <3>3. "k" \in base.flags <=> base.key # NULL
      BY <1>3 DEF Values, Modes!IsKey
    <3>4. "l" \in base.flags <=> base.limit # 0
      BY <1>3 DEF Values, Modes!IsLimit
    <3>5. m.timestamp = base.timestamp /\ m.flags = base.flags \cup b.modes.flags
      BY <1>3, <3>2 DEF Modes!MergedModes, Modes!Channels
    <3>6. m.key = MergedKey(base.key, b.modes.key)
      BY <1>2, <1>3, <3>2, <3>3 DEF Modes!MergedModes, MergedKey, Modes!IsKey, Modes!Channels
    <3>7. m.limit = MergedLimit(base.limit, b.modes.limit)
      <4>1. m.limit = IF "l" \notin b.modes.flags
                        \/ ("l" \in base.flags /\ base.limit > 0 /\ base.limit <= b.modes.limit)
                      THEN base.limit ELSE b.modes.limit
        BY <1>3, <3>2 DEF Modes!MergedModes, Modes!IsLimit, Modes!Channels
      <4> HIDE DEF m, base
      <4> QED BY <1>2, <3>1, <3>4, <4>1 DEF MergedLimit
    <3> QED BY <2>2, <3>5, <3>6, <3>7
  <2> QED BY <2>1, <2>2
<1>6. r = [m EXCEPT !.users = NewUsers(c, b)]
  BY BurstParts
<1>7. /\ r.timestamp = m.timestamp /\ r.flags = m.flags /\ r.key = m.key /\ r.limit = m.limit
      /\ r.users = NewUsers(c, b)
  BY <1>3, <1>6 DEF Modes!Channels
<1>8. /\ DOMAIN base.users = DOMAIN c.users
      /\ \A x \in DOMAIN c.users : base.users[x] = IF older THEN {} ELSE c.users[x]
  <2>1. CASE ~older
    BY <1>4, <2>1
  <2>2. CASE older
    <3>1. base.users = [x \in DOMAIN c.users |-> c.users[x] \ Modes!UserModes]
      BY <1>4, <2>2 DEF Modes!Stripped
    <3>2. \A x \in DOMAIN c.users : c.users[x] \ Modes!UserModes = {}
      BY <1>1, OccupantsFacts
    <3> HIDE DEF base
    <3> QED BY <2>2, <3>1, <3>2
  <2> QED BY <2>1, <2>2
<1>9. /\ DOMAIN r.users = DOMAIN c.users \cup us
      /\ \A x \in DOMAIN c.users : r.users[x] = IF older THEN {} ELSE c.users[x]
      /\ \A x \in us \ DOMAIN c.users : r.users[x] = IF younger THEN {} ELSE b.users[x]
  BY <1>1, <1>2, <1>7, <1>8 DEF NewUsers, Before
<1>10. younger => ~older
  BY <1>1, <1>2
<1> HIDE DEF r, m, base
<1>11. Gives(c, us, b, r)
  BY <1>4, <1>5, <1>7, <1>9, <1>10 DEF Gives
<1> QED BY <1>11 DEF r

\* The flags of a channel of the time t after a burst of the time x with the flags f.
FlagsAfter(t, flags, x, f) == IF x > t THEN flags ELSE (IF x < t THEN {} ELSE flags) \cup f
Oldest(t, x) == IF x < t THEN x ELSE t

LEMMA FlagsCommute ==
  ASSUME NEW t \in Nat, NEW x \in Nat, NEW y \in Nat, NEW flags, NEW f, NEW g
  PROVE  FlagsAfter(Oldest(t, x), FlagsAfter(t, flags, x, f), y, g) =
           FlagsAfter(Oldest(t, y), FlagsAfter(t, flags, y, g), x, f)
<1>1. CASE x < y
  BY <1>1 DEF FlagsAfter, Oldest
<1>2. CASE y < x
  BY <1>2 DEF FlagsAfter, Oldest
<1>3. CASE x = y
  BY <1>3 DEF FlagsAfter, Oldest
<1> QED BY <1>1, <1>2, <1>3

LEMMA KeysCommute ==
  ASSUME Modes!ModesAssumption, NEW x \in Keys \cup {NULL}, NEW y \in Keys \cup {NULL},
           NEW z \in Keys \cup {NULL}
  PROVE  /\ MergedKey(MergedKey(z, x), y) = MergedKey(MergedKey(z, y), x)
         /\ MergedKey(NULL, x) = x
         /\ MergedKey(x, y) = MergedKey(y, x)
  BY DEF MergedKey, Modes!ModesAssumption

LEMMA LimitsCommute ==
  ASSUME NEW x \in Nat, NEW y \in Nat, NEW z \in Nat
  PROVE  /\ MergedLimit(MergedLimit(z, x), y) = MergedLimit(MergedLimit(z, y), x)
         /\ MergedLimit(0, x) = x
         /\ MergedLimit(x, y) = MergedLimit(y, x)
  BY DEF MergedLimit

LEMMA SameChannel ==
  ASSUME NEW c \in Modes!Channels, NEW d \in Modes!Channels,
         c.timestamp = d.timestamp, c.flags = d.flags, c.key = d.key, c.limit = d.limit,
         DOMAIN c.users = DOMAIN d.users, \A x \in DOMAIN c.users : c.users[x] = d.users[x]
  PROVE  c = d
<1>1. c.users \in Occupants /\ d.users \in Occupants
  BY SoundFields
<1>2. c.users = d.users
  BY <1>1, OccupantsFacts
<1> QED BY <1>2, SoundFields

LEMMA TwoBursts ==
  ASSUME Modes!ModesAssumption, NEW c \in Sound, NEW u \in ChannelUsers \ DOMAIN c.users,
           NEW v \in ChannelUsers \ DOMAIN c.users,
         u # v, NEW a \in Modes!Bursts({u}), NEW b \in Modes!Bursts({v})
  PROVE  Modes!Burst(Modes!Burst(c, a), b) = Modes!Burst(Modes!Burst(c, b), a)
<1> DEFINE ca == Modes!Burst(c, a)
           cb == Modes!Burst(c, b)
           cab == Modes!Burst(ca, b)
           cba == Modes!Burst(cb, a)
<1>1. ca \in Sound /\ cb \in Sound
  BY BurstSound
<1>2. cab \in Modes!Channels /\ cba \in Modes!Channels
  BY <1>1, BurstSound DEF Sound
<1>3. /\ c.timestamp \in Nat /\ a.timestamp \in Nat /\ b.timestamp \in Nat
      /\ c.key \in Keys \cup {NULL} /\ a.modes.key \in Keys \cup {NULL} /\ b.modes.key \in Keys \cup {NULL}
      /\ c.limit \in Nat /\ a.modes.limit \in Nat /\ b.modes.limit \in Nat
  BY SoundFields DEF Sound, Modes!Bursts, Modes!SomeModes, Modes!ModesAssumption
<1>4. /\ Gives(c, {u}, a, ca) /\ Gives(ca, {v}, b, cab)
      /\ Gives(c, {v}, b, cb) /\ Gives(cb, {u}, a, cba)
  BY <1>1, BurstFields
<1> HIDE DEF ca, cb, cab, cba
<1>5. cab.timestamp = cba.timestamp
  BY <1>3, <1>4 DEF Gives
<1>6. cab.flags = cba.flags
  <2>1. /\ cab.flags = FlagsAfter(Oldest(c.timestamp, a.timestamp),
                          FlagsAfter(c.timestamp, c.flags, a.timestamp, a.modes.flags), b.timestamp,
                              b.modes.flags)
        /\ cba.flags = FlagsAfter(Oldest(c.timestamp, b.timestamp),
                          FlagsAfter(c.timestamp, c.flags, b.timestamp, b.modes.flags), a.timestamp,
                              a.modes.flags)
    BY <1>4 DEF Gives, FlagsAfter, Oldest
  <2> QED BY <1>3, <2>1, FlagsCommute
<1>7. cab.key = cba.key
  <2> DEFINE ka == a.modes.key
             kb == b.modes.key
  <2>1. /\ MergedKey(MergedKey(c.key, ka), kb) = MergedKey(MergedKey(c.key, kb), ka)
        /\ MergedKey(NULL, ka) = ka /\ MergedKey(NULL, kb) = kb
        /\ MergedKey(ka, kb) = MergedKey(kb, ka)
    BY <1>3, KeysCommute
  <2> QED BY <1>3, <1>4, <2>1 DEF Gives
<1>8. cab.limit = cba.limit
  <2> DEFINE la == a.modes.limit
             lb == b.modes.limit
  <2>1. /\ MergedLimit(MergedLimit(c.limit, la), lb) = MergedLimit(MergedLimit(c.limit, lb), la)
        /\ MergedLimit(0, la) = la /\ MergedLimit(0, lb) = lb
        /\ MergedLimit(la, lb) = MergedLimit(lb, la)
    BY <1>3, LimitsCommute
  <2> QED BY <1>3, <1>4, <2>1 DEF Gives
<1>9. DOMAIN cab.users = DOMAIN c.users \cup {u, v} /\ DOMAIN cba.users = DOMAIN c.users \cup {u, v}
  BY <1>4 DEF Gives
<1>10. \A x \in DOMAIN c.users : cab.users[x] = cba.users[x]
  BY <1>3, <1>4 DEF Gives
<1>11. cab.users[u] = cba.users[u]
  BY <1>3, <1>4 DEF Gives
<1>12. cab.users[v] = cba.users[v]
  BY <1>3, <1>4 DEF Gives
<1>13. cab = cba
  BY <1>2, <1>5, <1>6, <1>7, <1>8, <1>9, <1>10, <1>11, <1>12, SameChannel
<1> QED BY <1>13 DEF ca, cb, cab, cba

\* handleburstmsg(): whichever channels we know of, with whatever modes, two servers' bursts may come in
\* either order: the timestamp, the flags, the key, the limit and everybody's modes come out the same.
THEOREM OrderOfBursts ==
  ASSUME Modes!ModesAssumption
  PROVE  Modes!Spec => [](Modes!BurstsCommute /\ BurstsCommute)
<1>1. ModesInv => Modes!BurstsCommute /\ BurstsCommute
  BY TwoBursts DEF BurstsCommute, ModesInv, Modes!BurstsCommute
<1> QED BY <1>1, ModesAlways, PTL

-----------------------------------------------------------------------------
(* The server list. *)

\* What the hub's network looks like to somebody who has read some of its lines.
View == [net : [Tree!Others -> TreeServers \cup {Tree!NoServer}],
         bursting : SUBSET Tree!Others,
         behind : [Tree!Others -> Tree!Others \cup {Tree!NoServer}]]
KnownIn(v) == {s \in Tree!Others : v.net[s] # Tree!NoServer}

\* A server, burst or not, joins; a server with all behind it is lost.
Joined(v, s, p, linking, w) ==
  /\ IF p = mynumeric THEN linking /\ KnownIn(v) = {} ELSE p \in KnownIn(v)
  /\ linking \/ p \in v.bursting \/ v.behind[p] \in v.bursting
  /\ w = [net |-> [v.net EXCEPT ![s] = p],
          bursting |-> IF linking THEN v.bursting \cup {s} ELSE v.bursting,
          behind |-> [v.behind EXCEPT ![s] = IF linking THEN Tree!NoServer
                                             ELSE IF p \in v.bursting THEN p ELSE v.behind[p]]]
Lost(v, s, w) ==
  /\ s \in KnownIn(v) /\ v.net[s] # mynumeric
  /\ \E gone \in SUBSET KnownIn(v) :
       /\ s \in gone
       /\ \A u \in KnownIn(v) : v.net[u] \in gone => u \in gone
       /\ \A u \in gone : u = s \/ v.net[u] \in gone
       /\ w = [net |-> [t \in Tree!Others |-> IF t \in gone THEN Tree!NoServer ELSE v.net[t]],
               bursting |-> v.bursting \ gone,
               behind |-> [t \in Tree!Others |-> IF t \in gone THEN Tree!NoServer ELSE v.behind[t]]]

\* What a line changes. A server may be announced to somebody who knows it.
Changes(v, l, w) ==
  \/ l.cmd = "SERVER" /\ l.s \in KnownIn(v) /\ w = v
  \/ l.cmd = "SERVER" /\ l.s \notin KnownIn(v) /\ Joined(v, l.s, l.parent, l.linking, w)
  \/ l.cmd = "EB" /\ l.s \in v.bursting /\ w = [net |-> v.net, bursting |-> v.bursting \ {l.s},
      behind |-> v.behind]
  \/ l.cmd = "SQ" /\ Lost(v, l.s, w)

\* No server is above itself: among any servers, one has its parent elsewhere.
Founded(known, parent) ==
  \A S \in SUBSET known : S # {} => \E s \in S : parent[s] \notin S

\* A tree that hangs on us by one hub. Who waits for a burst is below the server that bursts, or
\* below one that waits for the same.
ViewOK(v) ==
  /\ v \in View
  /\ v.bursting \subseteq KnownIn(v)
  /\ \A s \in KnownIn(v) : v.net[s] = mynumeric \/ v.net[s] \in KnownIn(v)
  /\ \A s, t \in KnownIn(v) : v.net[s] = mynumeric /\ v.net[t] = mynumeric => s = t
  /\ Founded(KnownIn(v), v.net)
  /\ \A s \in v.bursting : v.behind[s] = Tree!NoServer
  /\ \A s \in KnownIn(v) : v.behind[s] # Tree!NoServer =>
       \/ v.behind[s] = v.net[s]
       \/ v.net[s] \in KnownIn(v) /\ v.behind[v.net[s]] = v.behind[s]

\* What the list says of a server when it is up to date.
Waits(v, s) == v.behind[s] \in v.bursting
LinkState(v, s) == IF s \in v.bursting THEN "LINKING" ELSE IF Waits(v, s) THEN "PLINKING" ELSE "LINKED"
Entry(v, s) ==
  IF s \in KnownIn(v) THEN [linkstate |-> LinkState(v, s), parent |-> v.net[s]] ELSE Tree!Invalid

Exact(v) == \A s \in Tree!Others : serverlist[s] = Entry(v, s)

\* The calls lead down the tree, and no server is on the stack twice.
Path(S) ==
  /\ stack # <<>>
  /\ \A i \in 1 .. Len(stack) : stack[i] \in S
  /\ \A i \in 2 .. Len(stack) : serverlist[stack[i]].parent = stack[i - 1]
  /\ \A i, j \in 1 .. Len(stack) : stack[i] = stack[j] => i = j

\* completelink(): the servers that are to be completed still.
Late(v) == {s \in Tree!Others : serverlist[s] # Entry(v, s)}
Completing(v) ==
  /\ Path(Late(v))
  /\ Late(v) \subseteq KnownIn(v)
  /\ stack[1] \notin v.bursting /\ v.behind[stack[1]] = Tree!NoServer
  /\ serverlist[stack[1]] = [linkstate |-> "LINKING", parent |-> v.net[stack[1]]]
  /\ \A s \in Late(v) \ {stack[1]} :
       /\ serverlist[s] = [linkstate |-> "PLINKING", parent |-> v.net[s]]
       /\ v.behind[s] = stack[1]
       /\ v.net[s] \in Late(v)

\* deleteserver(): the servers that are to be deleted still.
Doomed(v) == (Tree!Listed \ {mynumeric}) \ KnownIn(v)
Parents == [s \in TreeServers |-> serverlist[s].parent]
Deleting(v) ==
  /\ Path(Doomed(v))
  /\ \A s \in Tree!Others \ Doomed(v) : serverlist[s] = Entry(v, s)
  /\ \A s \in Doomed(v) \ {stack[1]} : serverlist[s].parent \in Doomed(v)
  /\ serverlist[stack[1]].parent \in Tree!Listed \ Doomed(v)
  /\ Founded(Doomed(v), Parents)
  /\ \A s \in Doomed(v) : serverlist[s].linkstate = "SQUIT" => s = Tree!Top /\ Tree!Children(s) = {}

\* The list against what was known after the line that was handled last.
Matches(v) ==
  /\ serverlist[mynumeric] = [linkstate |-> "LINKED", parent |-> Tree!NoServer]
  /\ myhub # Tree!NoServer => myhub \in Tree!Listed
  /\ \A s \in Tree!Listed \ {mynumeric} : serverlist[s].parent = mynumeric <=> s = myhub
  /\ \/ op = "none" /\ stack = <<>> /\ Exact(v)
     \/ op = "complete" /\ Completing(v)
     \/ op = "squit" /\ Deleting(v) /\ stack[1] # myhub
     \/ op = "disconnect" /\ Deleting(v) /\ stack[1] = myhub /\ KnownIn(v) = {}
          /\ wire = <<>> /\ Tree!Known = {}

\* What the hub knew when it sent the lines that are on their way: views[i] after the i-th.
Now == [net |-> hubview, bursting |-> bursting, behind |-> behind]
Replay(views) ==
  /\ views[Len(wire)] = Now
  /\ \A i \in 1 .. Len(wire) : Changes(views[i - 1], wire[i], views[i])
  /\ ViewOK(views[0])

Typed ==
  /\ serverlist \in [TreeServers -> [linkstate : Tree!States, parent : TreeServers \cup {Tree!NoServer}]]
  /\ myhub \in Tree!Others \cup {Tree!NoServer}
  /\ stack \in Seq(Tree!Others)
  /\ Now \in View
  /\ bursting \subseteq Tree!Known
  /\ wire \in Seq(Tree!Line)

ServersInv == Typed /\ \E views : Replay(views) /\ Matches(views[0])

-----------------------------------------------------------------------------
(* Trees. *)

LEMMA ArrayFacts ==
  ASSUME Tree!TreeAssumption
  PROVE  /\ mynumeric \in TreeServers /\ 0 \in TreeServers /\ TreeServers \subseteq Nat
         /\ Tree!NoServer \notin TreeServers /\ Tree!Others \subseteq TreeServers \ {mynumeric}
         /\ IsFiniteSet(TreeServers)
<1>1. PICK n \in TreeServers : TreeServers = 0 .. n
  BY DEF Tree!TreeAssumption
<1>2. n \in Nat
  BY <1>1
<1>3. IsFiniteSet(0 .. n)
  BY <1>2, FS_Interval
<1> QED BY <1>1, <1>2, <1>3 DEF Tree!TreeAssumption, Tree!NoServer, Tree!Others

\* The parent is above a server, with all that is above it, and nothing else is.
LEMMA AboveIs ==
  ASSUME Tree!TreeAssumption,
         NEW tree \in [Tree!Others -> TreeServers \cup {Tree!NoServer}],
         NEW s \in Tree!Others, tree[s] # Tree!NoServer
  PROVE  /\ tree[s] \in Tree!Above(tree, s)
         /\ tree[s] \in Tree!Others => Tree!Above(tree, s) = {tree[s]} \cup Tree!Above(tree, tree[s])
         /\ tree[s] = mynumeric => Tree!Above(tree, s) = {mynumeric}
<1> DEFINE Closed(u, S) ==
             ({tree[u]} \cup {tree[t] : t \in S \cap Tree!Others}) \ {Tree!NoServer} \subseteq S
<1>1. \A u : Tree!Above(tree, u) = {t \in TreeServers : \A S \in SUBSET TreeServers : Closed(u, S) => t \in S}
  BY DEF Tree!Above
<1>2. tree[s] \in TreeServers
  OBVIOUS
<1>3. \A S \in SUBSET TreeServers : Closed(s, S) => tree[s] \in S
  OBVIOUS
<1>4. ASSUME tree[s] \in Tree!Others
      PROVE  Tree!Above(tree, s) = {tree[s]} \cup Tree!Above(tree, tree[s])
  <2>1. \A S \in SUBSET TreeServers : Closed(s, S) => Closed(tree[s], S)
    BY <1>4, <1>3
  <2>2. ASSUME NEW S \in SUBSET TreeServers, Closed(tree[s], S)
        PROVE  Closed(s, S \cup {tree[s]})
    BY <1>4, <2>2
  <2> HIDE DEF Closed
  <2>3. Tree!Above(tree, tree[s]) \subseteq Tree!Above(tree, s)
    BY <1>1, <2>1
  <2>4. ASSUME NEW t \in Tree!Above(tree, s), t # tree[s] PROVE t \in Tree!Above(tree, tree[s])
    <3>1. SUFFICES ASSUME NEW S \in SUBSET TreeServers, Closed(tree[s], S) PROVE t \in S
      BY <1>1, <2>4
    <3>2. Closed(s, S \cup {tree[s]}) /\ S \cup {tree[s]} \in SUBSET TreeServers
      BY <1>2, <2>2, <3>1
    <3> QED BY <1>1, <2>4, <3>2
  <2>5. tree[s] \in Tree!Above(tree, s)
    BY <1>1, <1>2, <1>3
  <2> QED BY <2>3, <2>4, <2>5
<1>5. ASSUME tree[s] = mynumeric PROVE Tree!Above(tree, s) = {mynumeric}
  <2>1. Closed(s, {mynumeric}) /\ {mynumeric} \in SUBSET TreeServers
    BY <1>2, <1>5 DEF Tree!Others
  <2> HIDE DEF Closed
  <2> QED BY <1>1, <1>2, <1>3, <1>5, <2>1
<1> HIDE DEF Closed
<1> QED BY <1>1, <1>2, <1>3, <1>4, <1>5

\* What is above somebody above a server is above the server.
LEMMA AboveAbove ==
  ASSUME Tree!TreeAssumption,
         NEW tree \in [Tree!Others -> TreeServers \cup {Tree!NoServer}],
         NEW s, NEW t \in Tree!Above(tree, s) \cap Tree!Others
  PROVE  Tree!Above(tree, t) \subseteq Tree!Above(tree, s)
<1> DEFINE Closed(u, S) ==
             ({tree[u]} \cup {tree[x] : x \in S \cap Tree!Others}) \ {Tree!NoServer} \subseteq S
<1>1. \A u : Tree!Above(tree, u) = {x \in TreeServers : \A S \in SUBSET TreeServers : Closed(u, S) => x \in S}
  BY DEF Tree!Above
<1>2. ASSUME NEW S \in SUBSET TreeServers, Closed(s, S) PROVE Closed(t, S)
  <2>1. t \in S
    BY <1>1, <1>2
  <2> QED BY <1>2, <2>1
<1> HIDE DEF Closed
<1> QED BY <1>1, <1>2

\* Nobody is above himself where everything hangs on one hub.
LEMMA HubFounds ==
  ASSUME Tree!TreeAssumption,
         NEW tree \in [Tree!Others -> TreeServers \cup {Tree!NoServer}],
         NEW hub \in Tree!Others, Tree!Tree(tree, hub)
  PROVE  Founded({s \in Tree!Others : tree[s] # Tree!NoServer}, tree)
<1> SUFFICES ASSUME NEW S \in SUBSET {s \in Tree!Others : tree[s] # Tree!NoServer},
                    S # {}, \A s \in S : tree[s] \in S
             PROVE  FALSE
  BY DEF Founded
<1>1. PICK s \in S : TRUE
  OBVIOUS
<1>2. hub \notin S
  BY DEF Tree!Tree, Tree!Others
<1>3. s \in Tree!Others /\ s # hub /\ hub \in Tree!Above(tree, s)
  BY <1>1, <1>2 DEF Tree!Tree
<1>4. S \in SUBSET TreeServers /\ ({tree[s]} \cup {tree[u] :
        u \in S \cap Tree!Others}) \ {Tree!NoServer} \subseteq S
  BY <1>1 DEF Tree!Others
<1> QED BY <1>2, <1>3, <1>4 DEF Tree!Above

\* A split takes whole branches, and no more than the branches of the server.
LEMMA SplitTakes ==
  ASSUME Tree!TreeAssumption, Typed, NEW s \in Tree!Known, hubview[s] # mynumeric,
         NEW gone, gone = {t \in Tree!Known : t = s \/ s \in Tree!Above(hubview, t)}
  PROVE  /\ gone \in SUBSET Tree!Known /\ s \in gone
         /\ \A u \in Tree!Known : hubview[u] \in gone => u \in gone
         /\ \A u \in gone : u = s \/ hubview[u] \in gone
<1>1. hubview \in [Tree!Others -> TreeServers \cup {Tree!NoServer}]
  BY DEF Typed, View, Now
<1>2. \A u \in Tree!Known : u \in Tree!Others /\ hubview[u] # Tree!NoServer
  BY DEF Tree!Known
<1>3. ASSUME NEW u \in Tree!Known, hubview[u] \in gone PROVE u \in gone
  <2>1. hubview[u] \in Tree!Others
    BY <1>2, <1>3
  <2> QED BY <1>1, <1>2, <1>3, <2>1, AboveIs
<1>4. ASSUME NEW u \in gone, u # s PROVE hubview[u] \in gone
  <2>1. s \in Tree!Above(hubview, u) /\ u \in Tree!Known /\ s # mynumeric
    BY <1>2, <1>4 DEF Tree!Others
  <2>2. hubview[u] \in Tree!Others
    BY <1>1, <1>2, <2>1, AboveIs DEF Tree!Others
  <2>3. hubview[u] = s \/ s \in Tree!Above(hubview, hubview[u])
    BY <1>1, <1>2, <2>1, <2>2, AboveIs
  <2>4. hubview[u] \in Tree!Known
    <3>1. CASE hubview[u] # s /\ hubview[hubview[u]] = Tree!NoServer
      <4>1. {} \in SUBSET TreeServers
            /\ ({hubview[hubview[u]]} \cup {hubview[x] :
                  x \in {} \cap Tree!Others}) \ {Tree!NoServer} \subseteq {}
        BY <3>1
      <4> QED BY <2>3, <3>1, <4>1 DEF Tree!Above
    <3> QED BY <2>2, <3>1 DEF Tree!Known
  <2> QED BY <2>3, <2>4
<1> QED BY <1>3, <1>4

-----------------------------------------------------------------------------
(* Views. *)

LEMMA LineFacts ==
  ASSUME NEW l \in Tree!Line
  PROVE  /\ l.s \in Tree!Others
         /\ l.cmd = "SERVER" => l.parent \in TreeServers /\ l.linking \in BOOLEAN
  BY DEF Tree!Line

\* A burst that somebody waits for is that of a server that is there.
LEMMA BehindKnown ==
  ASSUME Tree!TreeAssumption, NEW v, ViewOK(v), NEW s \in KnownIn(v), v.behind[s] # Tree!NoServer
  PROVE  v.behind[s] \in KnownIn(v)
<1> DEFINE b == v.behind[s]
           S == {t \in KnownIn(v) : v.behind[t] = b}
<1>1. S \in SUBSET KnownIn(v) /\ s \in S
  OBVIOUS
<1>2. PICK t \in S : v.net[t] \notin S
  <2>1. Founded(KnownIn(v), v.net)
    BY DEF ViewOK
  <2> HIDE DEF S
  <2> QED BY <1>1, <2>1 DEF Founded
<1>3. t \in KnownIn(v) /\ v.behind[t] = b
  BY <1>2
<1>4. v.net[t] = b
  <2>1. \/ v.behind[t] = v.net[t]
        \/ v.net[t] \in KnownIn(v) /\ v.behind[v.net[t]] = v.behind[t]
    BY <1>3 DEF ViewOK
  <2> QED BY <1>2, <1>3, <2>1
<1>5. b \in Tree!Others /\ (v.net[t] = mynumeric \/ v.net[t] \in KnownIn(v))
  BY <1>3 DEF ViewOK, View, KnownIn
<1> QED BY <1>4, <1>5 DEF Tree!Others

\* What is new when a server has been announced.
Grown(v, l, w) ==
  /\ KnownIn(w) = KnownIn(v) \cup {l.s}
  /\ \A t \in KnownIn(v) : w.net[t] = v.net[t] /\ w.behind[t] = v.behind[t] /\ v.behind[t] # l.s
  /\ w.net[l.s] = l.parent /\ l.s # l.parent
  /\ w.bursting = IF l.linking THEN v.bursting \cup {l.s} ELSE v.bursting
  /\ w.behind[l.s] = IF l.linking THEN Tree!NoServer
                     ELSE IF l.parent \in v.bursting THEN l.parent ELSE v.behind[l.parent]

LEMMA JoinKeeps ==
  ASSUME Tree!TreeAssumption, NEW v, NEW w, ViewOK(v), NEW l \in Tree!Line, l.cmd = "SERVER",
         l.s \notin KnownIn(v), Joined(v, l.s, l.parent, l.linking, w)
  PROVE  ViewOK(w) /\ Grown(v, l, w)
<1>0. PICK s \in Tree!Others, p \in TreeServers :
        s = l.s /\ p = l.parent /\ s \notin KnownIn(v) /\ Joined(v, s, p, l.linking, w)
  BY LineFacts
<1>1. /\ v \in View /\ v.net \in [Tree!Others -> TreeServers \cup {Tree!NoServer}]
      /\ v.behind \in [Tree!Others -> Tree!Others \cup {Tree!NoServer}]
      /\ v.bursting \subseteq KnownIn(v) /\ KnownIn(v) \subseteq Tree!Others
  BY DEF ViewOK, View, KnownIn
<1>2. s # p /\ p # Tree!NoServer /\ mynumeric \notin Tree!Others /\ s # mynumeric
  BY <1>0, ArrayFacts DEF Joined, Tree!Others
<1>3. /\ w.net = [v.net EXCEPT ![s] = p]
      /\ w.bursting = IF l.linking THEN v.bursting \cup {s} ELSE v.bursting
      /\ w.behind = [v.behind EXCEPT ![s] = IF l.linking THEN Tree!NoServer
                                             ELSE IF p \in v.bursting THEN p ELSE v.behind[p]]
      /\ w = [net |-> w.net, bursting |-> w.bursting, behind |-> w.behind]
  BY <1>0 DEF Joined
<1>4. /\ \A t \in KnownIn(v) : w.net[t] = v.net[t] /\ w.behind[t] = v.behind[t]
      /\ w.net[s] = p /\ KnownIn(w) = KnownIn(v) \cup {s}
      /\ w.behind[s] = IF l.linking THEN Tree!NoServer ELSE IF p \in v.bursting THEN p ELSE v.behind[p]
  BY <1>0, <1>1, <1>2, <1>3 DEF KnownIn
<1>5. \A t \in KnownIn(v) : v.behind[t] # s
  BY <1>0, <1>1, <1>2, BehindKnown, ArrayFacts
<1>6. w \in View
  <2>1. w.net \in [Tree!Others -> TreeServers \cup {Tree!NoServer}]
    BY <1>1, <1>3
  <2>2. w.bursting \in SUBSET Tree!Others
    BY <1>1, <1>3
  <2>3. ~l.linking => p \in Tree!Others
    BY <1>0, <1>1 DEF Joined
  <2>4. w.behind \in [Tree!Others -> Tree!Others \cup {Tree!NoServer}]
    BY <1>1, <1>3, <2>3
  <2> QED BY <1>3, <2>1, <2>2, <2>4 DEF View
<1>7. p = mynumeric \/ p \in KnownIn(v)
  BY <1>0 DEF Joined
<1>8. \A t \in KnownIn(w) : w.net[t] = mynumeric \/ w.net[t] \in KnownIn(w)
  BY <1>4, <1>7 DEF ViewOK
<1>9. \A t, u \in KnownIn(w) : w.net[t] = mynumeric /\ w.net[u] = mynumeric => t = u
  <2>1. CASE p = mynumeric
    <3>1. KnownIn(v) = {}
      BY <1>0, <2>1 DEF Joined
    <3> QED BY <1>4, <3>1
  <2>2. CASE p # mynumeric
    BY <1>4, <2>2 DEF ViewOK
  <2> QED BY <2>1, <2>2
<1>10. Founded(KnownIn(w), w.net)
  <2>1. \A t \in KnownIn(v) : v.net[t] # s
    BY <1>0, <1>2 DEF ViewOK
  <2>2. Founded(KnownIn(v), v.net)
    BY DEF ViewOK
  <2> SUFFICES ASSUME NEW S \in SUBSET (KnownIn(v) \cup {s}), S # {} PROVE \E t \in S : w.net[t] \notin S
    BY <1>4 DEF Founded
  <2>3. CASE S = {s}
    BY <1>2, <1>4, <2>3
  <2>4. CASE S # {s}
    <3>1. PICK t \in S \ {s} : v.net[t] \notin S \ {s}
      <4>1. S \ {s} \in SUBSET KnownIn(v) /\ S \ {s} # {}
        BY <2>4
      <4> QED BY <2>2, <4>1 DEF Founded
    <3>2. t \in KnownIn(v)
      BY <3>1
    <3> QED BY <1>4, <2>1, <3>1, <3>2
  <2> QED BY <2>3, <2>4
<1>11. \A t \in w.bursting : t \in KnownIn(w) /\ w.behind[t] = Tree!NoServer
  <2>1. \A t \in v.bursting : v.behind[t] = Tree!NoServer
    BY DEF ViewOK
  <2> QED BY <1>1, <1>3, <1>4, <2>1
<1>12. ASSUME NEW t \in KnownIn(w), w.behind[t] # Tree!NoServer
       PROVE  \/ w.behind[t] = w.net[t]
              \/ w.net[t] \in KnownIn(w) /\ w.behind[w.net[t]] = w.behind[t]
  <2>1. CASE t = s
    BY <1>4, <1>0, <1>7, <1>12, <2>1 DEF Joined
  <2>2. CASE t # s
    <3>1. t \in KnownIn(v) /\ w.behind[t] = v.behind[t] /\ w.net[t] = v.net[t]
      BY <1>4, <2>2
    <3>2. v.behind[t] = v.net[t] \/ (v.net[t] \in KnownIn(v) /\ v.behind[v.net[t]] = v.behind[t])
      <4>1. \A u \in KnownIn(v) : v.behind[u] # Tree!NoServer =>
              v.behind[u] = v.net[u] \/ (v.net[u] \in KnownIn(v) /\ v.behind[v.net[u]] = v.behind[u])
        BY DEF ViewOK
      <4> QED BY <1>12, <3>1, <4>1
    <3> QED BY <1>4, <3>1, <3>2
  <2> QED BY <2>1, <2>2
<1>13. ViewOK(w)
  BY <1>6, <1>8, <1>9, <1>10, <1>11, <1>12 DEF ViewOK
<1> QED BY <1>0, <1>2, <1>3, <1>4, <1>5, <1>13 DEF Grown

LEMMA EndOfBurstKeeps ==
  ASSUME NEW v, NEW w, ViewOK(v), NEW s \in v.bursting,
         w = [net |-> v.net, bursting |-> v.bursting \ {s}, behind |-> v.behind]
  PROVE  /\ ViewOK(w) /\ KnownIn(w) = KnownIn(v)
         /\ w.net = v.net /\ w.bursting = v.bursting \ {s} /\ w.behind = v.behind
<1>1. w.net = v.net /\ w.bursting = v.bursting \ {s} /\ w.behind = v.behind
  OBVIOUS
<1>2. KnownIn(w) = KnownIn(v)
  BY <1>1 DEF KnownIn
<1>3. w \in View
  BY DEF ViewOK, View
<1> QED BY <1>1, <1>2, <1>3 DEF ViewOK

\* What is left when servers have been lost.
Shrunk(v, gone, w) ==
  /\ KnownIn(w) = KnownIn(v) \ gone
  /\ w.bursting = v.bursting \ gone
  /\ \A t \in KnownIn(w) : w.net[t] = v.net[t] /\ w.behind[t] = v.behind[t] /\ w.behind[t] \notin gone

LEMMA LossKeeps ==
  ASSUME Tree!TreeAssumption, NEW v, NEW w, ViewOK(v), NEW s \in KnownIn(v), v.net[s] # mynumeric,
         NEW gone \in SUBSET KnownIn(v), s \in gone,
         \A u \in KnownIn(v) : v.net[u] \in gone => u \in gone,
         \A u \in gone : u = s \/ v.net[u] \in gone,
         w = [net |-> [t \in Tree!Others |-> IF t \in gone THEN Tree!NoServer ELSE v.net[t]],
              bursting |-> v.bursting \ gone,
              behind |-> [t \in Tree!Others |-> IF t \in gone THEN Tree!NoServer ELSE v.behind[t]]]
  PROVE  ViewOK(w) /\ Shrunk(v, gone, w)
<1>1. /\ v.net \in [Tree!Others -> TreeServers \cup {Tree!NoServer}]
      /\ v.behind \in [Tree!Others -> Tree!Others \cup {Tree!NoServer}]
      /\ v.bursting \subseteq KnownIn(v) /\ KnownIn(v) \subseteq Tree!Others
  BY DEF ViewOK, View, KnownIn
<1>2. w \in View /\ w.bursting = v.bursting \ gone
  BY <1>1 DEF View
<1>3. /\ KnownIn(w) = KnownIn(v) \ gone
      /\ \A t \in KnownIn(w) : w.net[t] = v.net[t] /\ w.behind[t] = v.behind[t]
  <2>1. \A t \in Tree!Others : w.net[t] = (IF t \in gone THEN Tree!NoServer ELSE v.net[t])
    OBVIOUS
  <2>2. \A t \in Tree!Others : w.behind[t] = (IF t \in gone THEN Tree!NoServer ELSE v.behind[t])
    OBVIOUS
  <2> QED BY <2>1, <2>2 DEF KnownIn
<1>4. \A t \in KnownIn(w) : w.net[t] = mynumeric \/ w.net[t] \in KnownIn(w)
  BY <1>3 DEF ViewOK
<1>5. Founded(KnownIn(w), w.net)
  <2>1. Founded(KnownIn(v), v.net)
    BY DEF ViewOK
  <2> QED BY <1>3, <2>1 DEF Founded
<1>6. ASSUME NEW t \in KnownIn(w), w.behind[t] # Tree!NoServer
      PROVE  \/ w.behind[t] = w.net[t]
             \/ w.net[t] \in KnownIn(w) /\ w.behind[w.net[t]] = w.behind[t]
  <2>1. \/ v.behind[t] = v.net[t]
        \/ v.net[t] \in KnownIn(v) /\ v.behind[v.net[t]] = v.behind[t]
    BY <1>3, <1>6 DEF ViewOK
  <2> QED BY <1>3, <2>1
<1>7. \A t \in w.bursting : t \in KnownIn(w) /\ w.behind[t] = Tree!NoServer
  BY <1>1, <1>2, <1>3 DEF ViewOK
<1>8. \A t, u \in KnownIn(w) : w.net[t] = mynumeric /\ w.net[u] = mynumeric => t = u
  <2>1. \A t, u \in KnownIn(v) : v.net[t] = mynumeric /\ v.net[u] = mynumeric => t = u
    BY DEF ViewOK
  <2> QED BY <1>3, <2>1
<1>9. ViewOK(w)
  BY <1>2, <1>4, <1>5, <1>6, <1>7, <1>8 DEF ViewOK
<1>10. \A t \in KnownIn(w) : w.behind[t] \notin gone
  <2>1. ASSUME NEW t \in KnownIn(w), w.behind[t] \in gone PROVE FALSE
    <3>1. w.behind[t] # Tree!NoServer
      BY <1>1, <2>1, ArrayFacts
    <3> QED BY <1>3, <1>9, <2>1, <3>1, BehindKnown
  <2> QED BY <2>1
<1> QED BY <1>2, <1>3, <1>9, <1>10 DEF Shrunk

-----------------------------------------------------------------------------
(* Lines. *)

LEMMA ChangesKeep ==
  ASSUME Tree!TreeAssumption, NEW v, NEW w, ViewOK(v), NEW l \in Tree!Line, Changes(v, l, w)
  PROVE  ViewOK(w)
<1>1. CASE l.cmd = "SERVER" /\ l.s \in KnownIn(v) /\ w = v
  BY <1>1
<1>2. CASE l.cmd = "SERVER" /\ l.s \notin KnownIn(v) /\ Joined(v, l.s, l.parent, l.linking, w)
  BY <1>2, JoinKeeps
<1>3. CASE l.cmd = "EB" /\ l.s \in v.bursting
           /\ w = [net |-> v.net, bursting |-> v.bursting \ {l.s}, behind |-> v.behind]
  BY <1>3, EndOfBurstKeeps
<1>4. CASE l.cmd = "SQ" /\ Lost(v, l.s, w)
  <2>1. PICK gone \in SUBSET KnownIn(v) :
          /\ l.s \in gone
          /\ \A u \in KnownIn(v) : v.net[u] \in gone => u \in gone
          /\ \A u \in gone : u = l.s \/ v.net[u] \in gone
          /\ w = [net |-> [t \in Tree!Others |-> IF t \in gone THEN Tree!NoServer ELSE v.net[t]],
                  bursting |-> v.bursting \ gone,
                  behind |-> [t \in Tree!Others |-> IF t \in gone THEN Tree!NoServer ELSE v.behind[t]]]
    BY <1>4 DEF Lost
  <2>2. l.s \in KnownIn(v) /\ v.net[l.s] # mynumeric
    BY <1>4 DEF Lost
  <2> QED BY <2>1, <2>2, LossKeeps
<1> QED BY <1>1, <1>2, <1>3, <1>4 DEF Changes

\* A line more: the views get longer.
LEMMA LineSent ==
  ASSUME Typed, NEW views, Replay(views), NEW l \in Tree!Line, wire' = Append(wire, l), NEW w,
         w = Now', Changes(Now, l, w)
  PROVE  \E next : Replay(next)' /\ next[0] = views[0]
<1>0. PICK n \in Nat : n = Len(wire)
  BY DEF Typed
<1>1. wire \in Seq(Tree!Line) /\ n = Len(wire)
  BY <1>0 DEF Typed
<1>. PICK next : next = [i \in 0 .. n + 1 |-> IF i <= n THEN views[i] ELSE w]
  OBVIOUS
<1>2. Len(wire') = n + 1 /\ wire'[n + 1] = l /\ \A i \in 1 .. n : wire'[i] = wire[i]
  BY <1>1
<1>3. views[n] = Now /\ (\A i \in 1 .. n : Changes(views[i - 1], wire[i], views[i])) /\ ViewOK(views[0])
  BY <1>1 DEF Replay
<1>4. next[n + 1] = w /\ \A i \in 0 .. n : next[i] = views[i]
  OBVIOUS
<1>5. ASSUME NEW i \in 1 .. n + 1 PROVE Changes(next[i - 1], wire'[i], next[i])
  <2>1. CASE i = n + 1
    BY <1>1, <1>2, <1>3, <1>4, <2>1
  <2>2. CASE i # n + 1
    <3>1. i \in 1 .. n /\ i \in 0 .. n /\ i - 1 \in 0 .. n
      BY <1>1, <2>2
    <3> QED BY <1>2, <1>3, <1>4, <3>1
  <2> QED BY <2>1, <2>2
<1>6. next[0] = views[0]
  BY <1>1, <1>4
<1>7. Replay(next)'
  BY <1>2, <1>3, <1>4, <1>5, <1>6 DEF Replay
<1> QED BY <1>6, <1>7

\* A line less: the views get shorter.
LEMMA LineTaken ==
  ASSUME Tree!TreeAssumption, Typed, NEW views, Replay(views), wire # <<>>, wire' = Tail(wire),
         UNCHANGED <<hubview, bursting, behind>>
  PROVE  /\ Head(wire) \in Tree!Line /\ wire' \in Seq(Tree!Line)
         /\ \E next : Replay(next)' /\ Changes(views[0], Head(wire), next[0]) /\ ViewOK(next[0])
<1>0. PICK n \in Nat : n = Len(wire)
  BY DEF Typed
<1>1. wire \in Seq(Tree!Line) /\ n = Len(wire) /\ n > 0
  BY <1>0 DEF Typed
<1>. PICK next : next = [i \in 0 .. n - 1 |-> views[i + 1]]
  OBVIOUS
<1>2. /\ Head(wire) \in Tree!Line /\ wire' \in Seq(Tree!Line) /\ Head(wire) = wire[1]
      /\ Len(wire') = n - 1 /\ \A i \in 1 .. n - 1 : wire'[i] = wire[i + 1]
  BY <1>1
<1>3. views[n] = Now /\ (\A i \in 1 .. n : Changes(views[i - 1], wire[i], views[i])) /\ ViewOK(views[0])
  BY <1>1 DEF Replay
<1>4. \A i \in 0 .. n - 1 : next[i] = views[i + 1]
  OBVIOUS
<1>5. next[n - 1] = Now'
  <2>1. n - 1 \in 0 .. n - 1 /\ n - 1 + 1 = n
    BY <1>1
  <2> QED BY <1>3, <1>4, <2>1 DEF Now
<1>6. ASSUME NEW i \in 1 .. n - 1 PROVE Changes(next[i - 1], wire'[i], next[i])
  <2>1. i \in 0 .. n - 1 /\ i - 1 \in 0 .. n - 1 /\ i + 1 \in 1 .. n /\ i - 1 + 1 = i /\ i + 1 - 1 = i
    BY <1>1
  <2> QED BY <1>2, <1>3, <1>4, <2>1
<1>7. Changes(views[0], Head(wire), next[0]) /\ ViewOK(next[0])
  <2>1. 0 \in 0 .. n - 1 /\ 1 \in 1 .. n /\ 0 + 1 = 1 /\ 1 - 1 = 0
    BY <1>1
  <2>2. Changes(views[0], Head(wire), next[0])
    BY <1>2, <1>3, <1>4, <2>1
  <2> QED BY <1>2, <1>3, <2>2, ChangesKeep
<1>8. Replay(next)'
  BY <1>2, <1>5, <1>6, <1>7 DEF Replay
<1> QED BY <1>2, <1>7, <1>8

-----------------------------------------------------------------------------
(* The network. *)

LEMMA NowFacts ==
  ASSUME Typed
  PROVE  /\ KnownIn(Now) = Tree!Known
         /\ Now.net = hubview /\ Now.bursting = bursting /\ Now.behind = behind
         /\ hubview \in [Tree!Others -> TreeServers \cup {Tree!NoServer}]
         /\ bursting \in SUBSET Tree!Others /\ bursting \subseteq Tree!Known
         /\ behind \in [Tree!Others -> Tree!Others \cup {Tree!NoServer}]
  BY DEF Typed, Now, View, KnownIn, Tree!Known

\* The list and the handlers do not see what is on its way.
LEMMA MatchesAhead ==
  ASSUME NEW v, Matches(v), op # "disconnect" \/ UNCHANGED <<wire, hubview>>, UNCHANGED Tree!ours
  PROVE  Matches(v)'
<1>1. UNCHANGED <<serverlist, myhub, stack, op>>
  BY DEF Tree!ours
<1>2. Tree!Listed' = Tree!Listed /\ Tree!Top' = Tree!Top /\ \A s : Tree!Children(s)' = Tree!Children(s)
  BY <1>1 DEF Tree!Listed, Tree!Top, Tree!Children
<1>3. Exact(v)' <=> Exact(v)
  BY <1>1 DEF Exact
<1>4. Late(v)' = Late(v) /\ Doomed(v)' = Doomed(v) /\ Parents' = Parents
  BY <1>1, <1>2 DEF Late, Doomed, Parents
<1>5. \A S : Path(S)' <=> Path(S)
  BY <1>1 DEF Path
<1>6. Completing(v)' <=> Completing(v)
  BY <1>1, <1>4, <1>5 DEF Completing
<1>7. Deleting(v)' <=> Deleting(v)
  BY <1>1, <1>2, <1>4, <1>5 DEF Deleting
<1>8. op = "disconnect" => UNCHANGED wire /\ Tree!Known' = Tree!Known
  BY DEF Tree!Known
<1> QED BY <1>1, <1>2, <1>3, <1>6, <1>7, <1>8 DEF Matches

LEMMA LineSentInv ==
  ASSUME ServersInv, Tree!Happens, UNCHANGED Tree!ours, NEW l \in Tree!Line, wire' = Append(wire, l),
         Now' \in View, bursting' \subseteq Tree!Known', Changes(Now, l, Now')
  PROVE  ServersInv'
<1>1. PICK views : Replay(views) /\ Matches(views[0])
  BY DEF ServersInv
<1>2. Typed
  BY DEF ServersInv
<1>3. PICK w : w = Now'
  OBVIOUS
<1>4. Changes(Now, l, w)
  BY <1>3
<1>5. PICK next : Replay(next)' /\ next[0] = views[0]
  BY <1>1, <1>2, <1>3, <1>4, LineSent
<1>6. op # "disconnect"
  BY <1>1 DEF Matches, Tree!Happens
<1>7. Matches(views[0])'
  BY <1>1, <1>6, MatchesAhead
<1>8. wire' \in Seq(Tree!Line)
  BY <1>2 DEF Typed
<1>9. Typed'
  BY <1>2, <1>8 DEF Typed, Tree!ours
<1> QED BY <1>5, <1>7, <1>9 DEF ServersInv

LEMMA NetJoinInv ==
  ASSUME Tree!TreeAssumption, ServersInv, NEW s \in Tree!Others, NEW p \in Tree!Others,
         NEW linking \in BOOLEAN, Tree!NetJoin(s, p, linking)
  PROVE  ServersInv'
<1>1. Typed
  BY DEF ServersInv
<1> USE NowFacts, <1>1
<1>2. /\ s \notin Tree!Known /\ p \in Tree!Known /\ p # mynumeric
      /\ hubview' = [hubview EXCEPT ![s] = p]
      /\ bursting' = IF linking THEN bursting \cup {s} ELSE bursting
      /\ linking \/ p \in bursting \/ behind[p] \in bursting
      /\ behind' = [behind EXCEPT ![s] = IF linking THEN Tree!NoServer
                                         ELSE IF p \in bursting THEN p ELSE behind[p]]
      /\ wire' = Append(wire, Tree!Announce(hubview', bursting', s))
  BY DEF Tree!NetJoin, Tree!Others
<1>3. linking <=> s \in bursting'
  BY <1>2
<1>4. PICK l : l = [cmd |-> "SERVER", s |-> s, parent |-> p, linking |-> linking]
  OBVIOUS
<1>5. l \in Tree!Line /\ wire' = Append(wire, l)
  <2>1. Tree!Announce(hubview', bursting', s) = l
    BY <1>2, <1>3, <1>4 DEF Tree!Announce
  <2> QED BY <1>2, <1>4, <2>1 DEF Tree!Line, Tree!Others
<1>6. Now' \in View /\ bursting' \subseteq Tree!Known'
  <2>1. hubview' \in [Tree!Others -> TreeServers \cup {Tree!NoServer}]
    BY <1>2 DEF Tree!Others
  <2>2. bursting' \in SUBSET Tree!Others
    BY <1>2
  <2>3. behind' \in [Tree!Others -> Tree!Others \cup {Tree!NoServer}]
    BY <1>2
  <2>4. Tree!Known' = Tree!Known \cup {s}
    BY <1>2, ArrayFacts DEF Tree!Known
  <2> QED BY <1>2, <2>1, <2>2, <2>3, <2>4 DEF Now, View
<1>7. Changes(Now, l, Now')
  <2>1. Joined(Now, s, p, linking, Now')
    BY <1>2 DEF Joined, Now
  <2>2. l.cmd = "SERVER" /\ l.s = s /\ l.parent = p /\ l.linking = linking
    BY <1>4
  <2> QED BY <1>2, <2>1, <2>2 DEF Changes
<1>8. Tree!Happens /\ UNCHANGED Tree!ours
  BY DEF Tree!NetJoin
<1> QED BY <1>5, <1>6, <1>7, <1>8, LineSentInv

LEMMA NetEndOfBurstInv ==
  ASSUME ServersInv, NEW s \in Tree!Others, Tree!NetEndOfBurst(s)
  PROVE  ServersInv'
<1>1. Typed
  BY DEF ServersInv
<1> USE NowFacts, <1>1
<1>2. PICK l : l = [cmd |-> "EB", s |-> s]
  OBVIOUS
<1>3. /\ s \in bursting /\ bursting' = bursting \ {s} /\ UNCHANGED <<hubview, behind>>
      /\ wire' = Append(wire, l) /\ Tree!Happens /\ UNCHANGED Tree!ours
  BY <1>2 DEF Tree!NetEndOfBurst
<1>4. l \in Tree!Line /\ l.cmd = "EB" /\ l.s = s
  BY <1>2 DEF Tree!Line
<1>5. Now' \in View /\ bursting' \subseteq Tree!Known'
  BY <1>3 DEF Now, View, Tree!Known
<1>6. Changes(Now, l, Now')
  <2>1. Now' = [net |-> hubview, bursting |-> bursting \ {s}, behind |-> behind]
    BY <1>3 DEF Now
  <2> QED BY <1>3, <1>4, <2>1 DEF Changes
<1> QED BY <1>3, <1>4, <1>5, <1>6, LineSentInv

LEMMA NetSplitInv ==
  ASSUME Tree!TreeAssumption, ServersInv, NEW s \in Tree!Others, Tree!NetSplit(s)
  PROVE  ServersInv'
<1>1. Typed
  BY DEF ServersInv
<1>2. PICK gone : gone = {t \in Tree!Known : t = s \/ s \in Tree!Above(hubview, t)}
  OBVIOUS
<1>3. PICK l : l = [cmd |-> "SQ", s |-> s]
  OBVIOUS
<1>4. /\ s \in Tree!Known /\ hubview[s] # mynumeric
      /\ hubview' = [t \in Tree!Others |-> IF t \in gone THEN Tree!NoServer ELSE hubview[t]]
      /\ bursting' = bursting \ gone
      /\ behind' = [t \in Tree!Others |-> IF t \in gone THEN Tree!NoServer ELSE behind[t]]
      /\ wire' = Append(wire, l) /\ Tree!Happens /\ UNCHANGED Tree!ours
  BY <1>2, <1>3 DEF Tree!NetSplit
<1>5. l \in Tree!Line /\ l.cmd = "SQ" /\ l.s = s
  BY <1>3 DEF Tree!Line
<1>6. Now' \in View /\ bursting' \subseteq Tree!Known'
  <2>1. hubview' \in [Tree!Others -> TreeServers \cup {Tree!NoServer}]
    BY <1>1, <1>4, NowFacts
  <2>2. bursting' \in SUBSET Tree!Others
    BY <1>1, <1>4, NowFacts
  <2>3. behind' \in [Tree!Others -> Tree!Others \cup {Tree!NoServer}]
    BY <1>1, <1>4, NowFacts
  <2>4. Tree!Known' = Tree!Known \ gone
    BY <1>4 DEF Tree!Known
  <2>5. bursting' \subseteq Tree!Known \ gone
    BY <1>1, <1>4, NowFacts
  <2> QED BY <2>1, <2>2, <2>3, <2>4, <2>5 DEF Now, View
<1>7. Changes(Now, l, Now')
  <2>1. /\ gone \in SUBSET Tree!Known /\ s \in gone
        /\ \A u \in Tree!Known : hubview[u] \in gone => u \in gone
        /\ \A u \in gone : u = s \/ hubview[u] \in gone
    BY <1>1, <1>2, <1>4, SplitTakes
  <2>2. Now' = [net |-> [t \in Tree!Others |-> IF t \in gone THEN Tree!NoServer ELSE hubview[t]],
                bursting |-> bursting \ gone,
                behind |-> [t \in Tree!Others |-> IF t \in gone THEN Tree!NoServer ELSE behind[t]]]
    BY <1>4 DEF Now
  <2>3. Lost(Now, s, Now')
    BY <1>1, <1>4, <2>1, <2>2, NowFacts DEF Lost
  <2> QED BY <1>5, <2>3 DEF Changes
<1> QED BY <1>4, <1>5, <1>6, <1>7, LineSentInv

\* Above a server of the hub's tree is its parent, which is of the tree as well.
LEMMA ParentInTree ==
  ASSUME Tree!TreeAssumption,
         NEW tree \in [Tree!Others -> TreeServers \cup {Tree!NoServer}],
         NEW hub \in Tree!Others, Tree!Tree(tree, hub),
         NEW s \in Tree!Others, tree[s] # Tree!NoServer, s # hub
  PROVE  /\ tree[s] \in Tree!Others /\ tree[tree[s]] # Tree!NoServer
         /\ tree[s] \in Tree!Above(tree, s)
         /\ Tree!Above(tree, s) = {tree[s]} \cup Tree!Above(tree, tree[s])
<1>1. tree[s] # mynumeric /\ hub \in Tree!Above(tree, s) /\ tree[hub] = mynumeric
  BY DEF Tree!Tree
<1>2. tree[s] \in Tree!Others
  BY <1>1 DEF Tree!Others
<1>3. tree[s] \in Tree!Above(tree, s) /\ Tree!Above(tree, s) = {tree[s]} \cup Tree!Above(tree, tree[s])
  BY <1>2, AboveIs
<1>4. ASSUME tree[tree[s]] = Tree!NoServer PROVE FALSE
  <2>1. hub \in Tree!Above(tree, tree[s])
    BY <1>1, <1>3, <1>4, ArrayFacts
  <2>2. {} \in SUBSET TreeServers
        /\ ({tree[tree[s]]} \cup {tree[x] : x \in {} \cap Tree!Others}) \ {Tree!NoServer} \subseteq {}
    BY <1>4
  <2> QED BY <2>1, <2>2 DEF Tree!Above
<1> QED BY <1>2, <1>3, <1>4

\* The burst that a server was announced in is its parent's, or the parent is the one that bursts.
LEMMA BurstOfIs ==
  ASSUME Tree!TreeAssumption,
         NEW tree \in [Tree!Others -> TreeServers \cup {Tree!NoServer}],
         NEW hub \in Tree!Others, Tree!Tree(tree, hub), NEW b \in SUBSET Tree!Others,
         NEW s \in Tree!Others, tree[s] # Tree!NoServer, s # hub
  PROVE  Tree!BurstOf(tree, b, s) = IF tree[s] \in b THEN tree[s] ELSE Tree!BurstOf(tree, b, tree[s])
<1>1. /\ tree[s] \in Tree!Others /\ tree[s] \in Tree!Above(tree, s)
      /\ Tree!Above(tree, s) = {tree[s]} \cup Tree!Above(tree, tree[s])
  BY ParentInTree
<1>2. CASE tree[s] \notin b
  <2>1. Tree!Above(tree, s) \cap b = Tree!Above(tree, tree[s]) \cap b
    BY <1>1, <1>2
  <2> DEFINE First(S) == IF S = {} THEN Tree!NoServer
                         ELSE CHOOSE t \in S : \A u \in S : u = t \/ u \in Tree!Above(tree, t)
  <2>2. \A x : Tree!BurstOf(tree, b, x) = First(Tree!Above(tree, x) \cap b)
    BY DEF Tree!BurstOf
  <2> HIDE DEF First
  <2> QED BY <1>2, <2>1, <2>2
<1>3. CASE tree[s] \in b
  <2> DEFINE above == Tree!Above(tree, s) \cap b
  <2>1. tree[s] \in above /\ \A u \in above : u = tree[s] \/ u \in Tree!Above(tree, tree[s])
    BY <1>1, <1>3
  <2>2. ASSUME NEW t \in above, \A u \in above : u = t \/ u \in Tree!Above(tree, t), t # tree[s]
        PROVE  FALSE
    <3>1. t \in Tree!Above(tree, tree[s]) \cap Tree!Others /\ tree[s] \in Tree!Above(tree, t)
      BY <1>1, <2>1, <2>2
    <3>2. tree[s] \in Tree!Above(tree, tree[s])
      BY <3>1, AboveAbove
    <3> QED BY <1>1, <3>2 DEF Tree!Tree
  <2>3. Tree!BurstOf(tree, b, s) = CHOOSE t \in above : \A u \in above : u = t \/ u \in Tree!Above(tree, t)
    BY <2>1 DEF Tree!BurstOf
  <2> HIDE DEF above
  <2>4. (CHOOSE t \in above : \A u \in above : u = t \/ u \in Tree!Above(tree, t)) = tree[s]
    BY <2>1, <2>2
  <2> QED BY <1>3, <2>3, <2>4
<1> QED BY <1>2, <1>3

LEMMA BurstOfIsAbove ==
  ASSUME Tree!TreeAssumption,
         NEW tree \in [Tree!Others -> TreeServers \cup {Tree!NoServer}],
         NEW hub \in Tree!Others, Tree!Tree(tree, hub), NEW b \in SUBSET Tree!Others, hub \in b,
         NEW s \in Tree!Others, tree[s] # Tree!NoServer, s \notin b
  PROVE  Tree!BurstOf(tree, b, s) \in b \cap Tree!Above(tree, s)
<1> DEFINE K == {t \in Tree!Others : tree[t] # Tree!NoServer}
           Bad == {t \in K \ b : Tree!BurstOf(tree, b, t) \notin b \cap Tree!Above(tree, t)}
<1>1. Founded(K, tree)
  BY HubFounds
<1>2. Bad \in SUBSET K
  OBVIOUS
<1>3. ASSUME NEW t \in Bad, tree[t] \notin Bad PROVE FALSE
  <2>1. t \in Tree!Others /\ tree[t] # Tree!NoServer /\ t # hub /\ t \notin b
    BY <1>3
  <2>2. /\ tree[t] \in Tree!Others /\ tree[tree[t]] # Tree!NoServer /\ tree[t] \in Tree!Above(tree, t)
        /\ Tree!Above(tree, t) = {tree[t]} \cup Tree!Above(tree, tree[t])
    BY <2>1, ParentInTree
  <2>3. Tree!BurstOf(tree, b, t) = IF tree[t] \in b THEN tree[t] ELSE Tree!BurstOf(tree, b, tree[t])
    BY <2>1, BurstOfIs
  <2>4. Tree!BurstOf(tree, b, t) \notin b \cap Tree!Above(tree, t)
    BY <1>3
  <2>5. tree[t] \notin b => Tree!BurstOf(tree, b, tree[t]) \in b \cap Tree!Above(tree, tree[t])
    BY <1>3, <2>2
  <2> QED BY <2>2, <2>3, <2>4, <2>5
<1> HIDE DEF Bad
<1>4. Bad = {}
  BY <1>1, <1>2, <1>3 DEF Founded
<1> QED BY <1>4 DEF Bad

\* With no hub in the list there is nothing in it.
LEMMA NoHubNobody ==
  ASSUME Tree!TreeAssumption, NEW v, ViewOK(v), \A s \in KnownIn(v) : v.net[s] # mynumeric
  PROVE  KnownIn(v) = {}
BY DEF ViewOK, Founded

\* What somebody knows who has read the lines about the servers of F.
Part(tree, b, beh, F) ==
  [net |-> [s \in Tree!Others |-> IF s \in F THEN tree[s] ELSE Tree!NoServer],
   bursting |-> b \cap F,
   behind |-> [s \in Tree!Others |-> IF s \in F THEN beh[s] ELSE Tree!NoServer]]

LEMMA PartFacts ==
  ASSUME NEW tree, NEW b, NEW beh, NEW F \in SUBSET Tree!Others, \A s \in F : tree[s] # Tree!NoServer
  PROVE  /\ KnownIn(Part(tree, b, beh, F)) = F
         /\ Part(tree, b, beh, F).bursting = b \cap F
         /\ \A s \in F : Part(tree, b, beh, F).behind[s] = beh[s]
<1>1. /\ Part(tree, b, beh, F).net = [s \in Tree!Others |-> IF s \in F THEN tree[s] ELSE Tree!NoServer]
      /\ Part(tree, b, beh, F).bursting = b \cap F
      /\ Part(tree, b, beh, F).behind = [s \in Tree!Others |-> IF s \in F THEN beh[s] ELSE Tree!NoServer]
  BY DEF Part
<1> QED BY <1>1 DEF KnownIn

\* One server more, whose parent has been announced.
LEMMA PartGrows ==
  ASSUME NEW tree, NEW b, NEW beh, NEW F \in SUBSET Tree!Others, \A s \in F : tree[s] # Tree!NoServer,
         NEW s \in Tree!Others, s \notin F,
         IF tree[s] = mynumeric THEN s \in b /\ F = {} ELSE tree[s] \in F,
         s \in b \/ tree[s] \in b \/ beh[tree[s]] \in b \cap F,
         beh[s] = IF s \in b THEN Tree!NoServer ELSE IF tree[s] \in b THEN tree[s] ELSE beh[tree[s]]
  PROVE  Joined(Part(tree, b, beh, F), s, tree[s], s \in b, Part(tree, b, beh, F \cup {s}))
<1> DEFINE v == Part(tree, b, beh, F)
           w == Part(tree, b, beh, F \cup {s})
<1>1. /\ v.net = [t \in Tree!Others |-> IF t \in F THEN tree[t] ELSE Tree!NoServer]
      /\ v.bursting = b \cap F
      /\ v.behind = [t \in Tree!Others |-> IF t \in F THEN beh[t] ELSE Tree!NoServer]
  BY DEF Part
<1>2. w = [net |-> [t \in Tree!Others |-> IF t \in F \cup {s} THEN tree[t] ELSE Tree!NoServer],
           bursting |-> b \cap (F \cup {s}),
           behind |-> [t \in Tree!Others |-> IF t \in F \cup {s} THEN beh[t] ELSE Tree!NoServer]]
  BY DEF Part
<1>3. KnownIn(v) = F
  BY PartFacts
<1> HIDE DEF v, w
<1>4. s \in b \/ tree[s] \in F
  OBVIOUS
<1>5. [v.net EXCEPT ![s] = tree[s]] = [t \in Tree!Others |-> IF t \in F \cup {s} THEN tree[t]
        ELSE Tree!NoServer]
  BY <1>1
<1>6. (IF s \in b THEN v.bursting \cup {s} ELSE v.bursting) = b \cap (F \cup {s})
  BY <1>1
<1>7. [v.behind EXCEPT ![s] = IF s \in b THEN Tree!NoServer
                              ELSE IF tree[s] \in v.bursting THEN tree[s] ELSE v.behind[tree[s]]]
      = [t \in Tree!Others |-> IF t \in F \cup {s} THEN beh[t] ELSE Tree!NoServer]
  <2>1. ~(s \in b) => (tree[s] \in v.bursting <=> tree[s] \in b) /\ v.behind[tree[s]] = beh[tree[s]]
    BY <1>1, <1>4
  <2>2. (IF s \in b THEN Tree!NoServer ELSE IF tree[s] \in v.bursting THEN tree[s] ELSE v.behind[tree[s]])
        = beh[s]
    BY <2>1
  <2> QED BY <1>1, <2>2
<1>8. IF tree[s] = mynumeric THEN s \in b /\ KnownIn(v) = {} ELSE tree[s] \in KnownIn(v)
  BY <1>3
<1>9. s \in b \/ tree[s] \in v.bursting \/ v.behind[tree[s]] \in v.bursting
  BY <1>1, <1>4
<1>10. Joined(v, s, tree[s], s \in b, w)
  BY <1>2, <1>5, <1>6, <1>7, <1>8, <1>9 DEF Joined
<1> QED BY <1>10 DEF v, w

\* While there is no link there is nobody in the list.
LEMMA Unlinked ==
  ASSUME Tree!TreeAssumption, Typed, NEW v, ViewOK(v), Matches(v), op = "none", myhub = Tree!NoServer
  PROVE  KnownIn(v) = {} /\ \A s \in Tree!Others : serverlist[s] = Tree!Invalid
<1>1. Exact(v) /\ \A s \in Tree!Listed \ {mynumeric} : serverlist[s].parent = mynumeric <=> s = myhub
  BY DEF Matches
<1>2. ASSUME NEW s \in KnownIn(v), v.net[s] = mynumeric PROVE FALSE
  <2>1. s \in Tree!Others /\ serverlist[s] = [linkstate |-> LinkState(v, s), parent |-> v.net[s]]
    BY <1>1 DEF Exact, Entry, KnownIn
  <2>2. serverlist[s].linkstate # "INVALID" /\ serverlist[s].parent = mynumeric
    BY <1>2, <2>1 DEF LinkState
  <2>3. s \in Tree!Listed \ {mynumeric} /\ s # Tree!NoServer
    BY <2>1, <2>2, ArrayFacts DEF Tree!Listed, Tree!Others
  <2> QED BY <1>1, <2>2, <2>3
<1>3. KnownIn(v) = {}
  BY <1>2, NoHubNobody
<1> QED BY <1>1, <1>3 DEF Exact, Entry

LEMMA LinkUpInv ==
  ASSUME Tree!TreeAssumption, ServersInv, NEW hub \in Tree!Others, Tree!LinkUp(hub)
  PROVE  ServersInv'
<1>1. Typed /\ op = "none" /\ myhub = Tree!NoServer /\ wire = <<>> /\ UNCHANGED Tree!ours
  BY DEF ServersInv, Tree!LinkUp, Tree!Linked
<1>2. PICK views : Replay(views) /\ Matches(views[0])
  BY DEF ServersInv
<1>3. ViewOK(views[0])
  BY <1>2 DEF Replay
<1>4. \A s \in Tree!Others : serverlist[s] = Tree!Invalid
  BY <1>1, <1>2, <1>3, Unlinked
<1>5. PICK tree \in [Tree!Others -> TreeServers \cup {Tree!NoServer}], b \in SUBSET Tree!Others :
        LET S == {s \in Tree!Others : tree[s] # Tree!NoServer} IN
          /\ Tree!Tree(tree, hub)
          /\ hub \in b /\ b \subseteq S
          /\ hubview' = tree /\ bursting' = b \ {hub}
          /\ behind' = [s \in Tree!Others |-> IF s \in S \ b THEN Tree!BurstOf(tree, b, s) ELSE Tree!NoServer]
          /\ \E order \in [1 .. Tree!Cardinality(S) -> S] :
               /\ \A s \in S : \E i \in DOMAIN order : order[i] = s
               /\ \A i, j \in DOMAIN order : order[j] \in Tree!Above(tree, order[i]) => j < i
               /\ wire' = [i \in DOMAIN order |-> Tree!Announce(tree, b, order[i])]
                          \o <<[cmd |-> "EB", s |-> hub]>>
  BY DEF Tree!LinkUp
<1>6. PICK S \in SUBSET Tree!Others : S = {s \in Tree!Others : tree[s] # Tree!NoServer}
  OBVIOUS
<1>7. PICK n \in Nat : n = Tree!Cardinality(S)
  <2>1. IsFiniteSet(S)
    BY <1>6, ArrayFacts, FS_Subset
  <2>2. Cardinality(S) \in Nat
    BY <2>1, FS_CardinalityType
  <2> QED BY <2>2 DEF Cardinality, Tree!Cardinality
<1>8. PICK beh : beh = [s \in Tree!Others |-> IF s \in S \ b THEN Tree!BurstOf(tree, b, s) ELSE Tree!NoServer]
  OBVIOUS
<1>9. /\ Tree!Tree(tree, hub) /\ hub \in b /\ b \subseteq S
      /\ hubview' = tree /\ bursting' = b \ {hub} /\ behind' = beh
  BY <1>5, <1>6, <1>8
<1>10. PICK order \in [1 .. n -> S] :
         /\ \A s \in S : \E i \in 1 .. n : order[i] = s
         /\ \A i, j \in 1 .. n : order[j] \in Tree!Above(tree, order[i]) => j < i
         /\ wire' = [i \in 1 .. n |-> Tree!Announce(tree, b, order[i])] \o <<[cmd |-> "EB", s |-> hub]>>
  BY <1>5, <1>6, <1>7
<1>11. PICK first : first = [i \in 0 .. n |-> {order[j] : j \in 1 .. i}]
  OBVIOUS
<1>12. /\ \A i \in 0 .. n : first[i] \in SUBSET S /\ \A s : s \in first[i] <=> \E j \in 1 .. i : order[j] = s
       /\ \A i \in 1 .. n : first[i] = first[i - 1] \cup {order[i]}
       /\ first[0] = {} /\ first[n] = S
  <2>1. \A i \in 0 .. n : first[i] \in SUBSET S /\ \A s : s \in first[i] <=> \E j \in 1 .. i : order[j] = s
    BY <1>11
  <2>2. ASSUME NEW i \in 1 .. n PROVE first[i] = first[i - 1] \cup {order[i]}
    <3>1. i \in 0 .. n /\ i - 1 \in 0 .. n /\ \A j : j \in 1 .. i <=> (j \in 1 .. i - 1 \/ j = i)
      OBVIOUS
    <3> QED BY <2>1, <3>1
  <2>3. first[0] = {} /\ first[n] = S
    <3>1. 0 \in 0 .. n /\ n \in 0 .. n /\ \A j : j \notin 1 .. 0
      OBVIOUS
    <3>2. first[n] \in SUBSET S /\ \A s : s \in first[n] <=> \E j \in 1 .. n : order[j] = s
      BY <2>1, <3>1
    <3>3. \A s : s \notin first[0]
      BY <2>1, <3>1
    <3> QED BY <1>10, <3>2, <3>3
  <2> QED BY <2>1, <2>2, <2>3
<1>13. PICK next : next = [i \in 0 .. n + 1 |-> IF i <= n THEN Part(tree, b, beh, first[i]) ELSE Now']
  OBVIOUS
<1>14. \A i \in 0 .. n : next[i] = Part(tree, b, beh, first[i])
  BY <1>13
<1>15. PICK eb : eb = [cmd |-> "EB", s |-> hub]
  OBVIOUS
<1>16. /\ Len(wire') = n + 1 /\ wire'[n + 1] = eb /\ wire' \in Seq(Tree!Line)
       /\ \A i \in 1 .. n : wire'[i] = Tree!Announce(tree, b, order[i])
  <2>1. PICK ls : ls = [i \in 1 .. n |-> Tree!Announce(tree, b, order[i])]
    OBVIOUS
  <2>2. ASSUME NEW i \in 1 .. n PROVE Tree!Announce(tree, b, order[i]) \in Tree!Line
    <3>1. order[i] \in Tree!Others /\ tree[order[i]] \in TreeServers /\ (order[i] \in b) \in BOOLEAN
      BY <1>6, <1>10
    <3> QED BY <3>1 DEF Tree!Announce, Tree!Line
  <2>3. ls \in Seq(Tree!Line) /\ Len(ls) = n /\ eb \in Tree!Line
    BY <1>15, <2>1, <2>2 DEF Tree!Line
  <2>4. wire' = ls \o <<eb>>
    BY <1>10, <1>15, <2>1
  <2> QED BY <2>1, <2>3, <2>4
<1>17. ASSUME NEW s \in S, s # hub
       PROVE  /\ tree[s] \in S /\ tree[s] # mynumeric /\ tree[s] \in Tree!Above(tree, s)
              /\ Tree!Above(tree, s) = {tree[s]} \cup Tree!Above(tree, tree[s])
              /\ hub \in Tree!Above(tree, s)
              /\ s \notin b =>
                   /\ Tree!BurstOf(tree, b, s) = IF tree[s] \in b THEN tree[s] ELSE Tree!BurstOf(tree, b,
                       tree[s])
                   /\ Tree!BurstOf(tree, b, s) \in b \cap Tree!Above(tree, s)
  BY <1>6, <1>9, <1>17, ParentInTree, BurstOfIs, BurstOfIsAbove DEF Tree!Tree
<1>18. ASSUME NEW i \in 1 .. n PROVE Changes(next[i - 1], wire'[i], next[i])
  <2>1. PICK s \in S, F \in SUBSET S : s = order[i] /\ F = first[i - 1]
    BY <1>10, <1>12
  <2>2. /\ next[i - 1] = Part(tree, b, beh, F) /\ next[i] = Part(tree, b, beh, F \cup {s})
        /\ wire'[i] = Tree!Announce(tree, b, s)
    <3>1. i \in 0 .. n /\ i - 1 \in 0 .. n
      OBVIOUS
    <3>2. next[i - 1] = Part(tree, b, beh, first[i - 1]) /\ next[i] = Part(tree, b, beh, first[i])
      BY <1>14, <3>1
    <3>3. first[i] = F \cup {s}
      BY <1>12, <2>1
    <3> QED BY <1>16, <2>1, <3>2, <3>3
  <2>3. KnownIn(Part(tree, b, beh, F)) = F
    BY <1>6, PartFacts
  <2>4. /\ wire'[i].cmd = "SERVER" /\ wire'[i].s = s /\ wire'[i].parent = tree[s]
        /\ wire'[i].linking = (s \in b)
    BY <2>2 DEF Tree!Announce
  <2>5. CASE s \in F
    <3>1. F \cup {s} = F
      BY <2>5
    <3> QED BY <2>2, <2>3, <2>4, <2>5, <3>1 DEF Changes
  <2>6. CASE s \notin F
    <3>1. \A t \in S : t \in Tree!Above(tree, s) => t \in F
      <4>1. SUFFICES ASSUME NEW t \in S, t \in Tree!Above(tree, s) PROVE t \in F
        OBVIOUS
      <4>2. PICK j \in 1 .. n : order[j] = t
        BY <1>10
      <4>3. j < i
        BY <1>10, <2>1, <4>1, <4>2
      <4> QED BY <1>12, <2>1, <4>2, <4>3
    <3>2. IF tree[s] = mynumeric THEN s \in b /\ F = {} ELSE tree[s] \in F
      <4>1. CASE s = hub
        <5>1. ASSUME NEW t \in F PROVE FALSE
          <6>1. PICK j \in 1 .. i - 1 : order[j] = t
            <7>1. i - 1 \in 0 .. n /\ t \in first[i - 1]
              BY <2>1
            <7> QED BY <1>12, <7>1
          <6>2. t # hub /\ hub \in Tree!Above(tree, t)
            BY <1>17, <2>6, <4>1
          <6>3. i < j
            <7>1. j \in 1 .. n /\ order[i] \in Tree!Above(tree, order[j])
              BY <2>1, <4>1, <6>1, <6>2
            <7> QED BY <1>10, <7>1
          <6> QED BY <6>3
        <5> QED BY <1>9, <4>1, <5>1 DEF Tree!Tree
      <4>2. CASE s # hub
        BY <1>17, <3>1, <4>2
      <4> QED BY <4>1, <4>2
    <3>3. ASSUME s \notin b
          PROVE  /\ tree[s] \in b \/ beh[tree[s]] \in b \cap F
                 /\ beh[s] = IF tree[s] \in b THEN tree[s] ELSE beh[tree[s]]
      <4>1. s # hub /\ s \in Tree!Others
        BY <1>9, <3>3
      <4>2. beh[s] = Tree!BurstOf(tree, b, s)
        BY <1>8, <3>3, <4>1
      <4>3. CASE tree[s] \in b
        BY <1>17, <3>3, <4>1, <4>2, <4>3
      <4>4. CASE tree[s] \notin b
        <5>1. tree[s] \in S /\ tree[s] \in Tree!Others
          BY <1>17, <4>1
        <5>2. beh[tree[s]] = Tree!BurstOf(tree, b, tree[s])
          BY <1>8, <4>4, <5>1
        <5>3. Tree!BurstOf(tree, b, s) = Tree!BurstOf(tree, b, tree[s])
              /\ Tree!BurstOf(tree, b, s) \in b \cap Tree!Above(tree, s)
          BY <1>17, <3>3, <4>1, <4>4
        <5> QED BY <1>9, <3>1, <4>2, <4>4, <5>2, <5>3
      <4> QED BY <4>3, <4>4
    <3>4. beh[s] = IF s \in b THEN Tree!NoServer ELSE IF tree[s] \in b THEN tree[s] ELSE beh[tree[s]]
      BY <1>8, <3>3
    <3>5. Joined(Part(tree, b, beh, F), s, tree[s], s \in b, Part(tree, b, beh, F \cup {s}))
      <4>1. s \in Tree!Others /\ F \in SUBSET Tree!Others /\ \A t \in F : tree[t] # Tree!NoServer
        BY <1>6
      <4>2. s \in b \/ tree[s] \in b \/ beh[tree[s]] \in b \cap F
        BY <3>3
      <4> QED BY <2>6, <3>2, <3>4, <4>1, <4>2, PartGrows
    <3> QED BY <2>2, <2>3, <2>4, <2>6, <3>5 DEF Changes
  <2> QED BY <2>5, <2>6
<1>19. next[n + 1] = [net |-> tree, bursting |-> b \ {hub}, behind |-> beh] /\ next[n + 1] = Now'
  BY <1>9, <1>13 DEF Now
<1>20. Changes(next[n], wire'[n + 1], next[n + 1])
  <2>1. /\ next[n].net = [s \in Tree!Others |-> IF s \in S THEN tree[s] ELSE Tree!NoServer]
        /\ next[n].bursting = b \cap S
        /\ next[n].behind = [s \in Tree!Others |-> IF s \in S THEN beh[s] ELSE Tree!NoServer]
    <3>1. n \in 0 .. n /\ first[n] = S
      BY <1>12
    <3>2. next[n] = Part(tree, b, beh, S)
      BY <1>14, <3>1
    <3> QED BY <3>2 DEF Part
  <2>2. next[n].net = tree
    BY <1>6, <2>1
  <2>3. next[n].behind = beh
    BY <1>8, <2>1
  <2>4. next[n].bursting = b
    BY <1>9, <2>1
  <2>5. eb.cmd = "EB" /\ eb.s = hub
    BY <1>15
  <2> QED BY <1>9, <1>16, <1>19, <2>2, <2>3, <2>4, <2>5 DEF Changes
<1>21. /\ next[0].net = [s \in Tree!Others |-> Tree!NoServer] /\ next[0].bursting = {}
       /\ next[0].behind = [s \in Tree!Others |-> Tree!NoServer]
       /\ next[0] = [net |-> next[0].net, bursting |-> {}, behind |-> next[0].behind]
  <2>1. 0 \in 0 .. n /\ first[0] = {}
    BY <1>12
  <2>2. next[0] = Part(tree, b, beh, {})
    BY <1>14, <2>1
  <2> QED BY <2>2 DEF Part
<1>22. ViewOK(next[0]) /\ KnownIn(next[0]) = {}
  <2>1. KnownIn(next[0]) = {} /\ next[0] \in View
    BY <1>21 DEF KnownIn, View
  <2> QED BY <1>21, <2>1 DEF ViewOK, Founded
<1>23. Replay(next)'
  <2>1. ASSUME NEW i \in 1 .. n + 1 PROVE Changes(next[i - 1], wire'[i], next[i])
    <3>1. CASE i = n + 1
      BY <1>20, <3>1
    <3>2. CASE i # n + 1
      BY <1>18, <3>2
    <3> QED BY <3>1, <3>2
  <2> QED BY <1>16, <1>19, <1>22, <2>1 DEF Replay
<1>24. Matches(next[0])'
  <2>1. Matches(next[0])
    <3>1. Exact(next[0])
      BY <1>4, <1>22 DEF Exact, Entry
    <3> QED BY <1>1, <1>2, <3>1 DEF Matches
  <2> QED BY <1>1, <2>1, MatchesAhead
<1>25. Typed'
  <2>1. Now' \in View /\ bursting' \subseteq Tree!Known'
    <3>1. beh \in [Tree!Others -> Tree!Others \cup {Tree!NoServer}]
      BY <1>8, <1>6, <1>9, BurstOfIsAbove
    <3>2. Tree!Known' = S
      BY <1>6, <1>9 DEF Tree!Known
    <3> QED BY <1>9, <3>1, <3>2 DEF Now, View
  <2> QED BY <1>1, <1>16, <2>1 DEF Typed, Tree!ours
<1> QED BY <1>23, <1>24, <1>25 DEF ServersInv

-----------------------------------------------------------------------------
(* The list. *)

LEMMA EntryFacts ==
  ASSUME NEW v, NEW s \in Tree!Others
  PROVE  /\ s \in KnownIn(v) => /\ Entry(v, s) = [linkstate |-> LinkState(v, s), parent |-> v.net[s]]
                                /\ Entry(v, s).linkstate = LinkState(v, s) /\ Entry(v, s).parent = v.net[s]
         /\ s \notin KnownIn(v) => Entry(v, s) = Tree!Invalid /\ Entry(v, s).linkstate = "INVALID"
         /\ LinkState(v, s) \in {"LINKING", "PLINKING", "LINKED"}
  BY DEF Entry, LinkState, Tree!Invalid

\* Up to date, the list has the servers that are known.
LEMMA ListedIsKnown ==
  ASSUME Tree!TreeAssumption, NEW v, Exact(v), serverlist[mynumeric].linkstate = "LINKED"
  PROVE  Tree!Listed = KnownIn(v) \cup {mynumeric}
<1>1. ASSUME NEW s \in Tree!Others PROVE s \in Tree!Listed <=> s \in KnownIn(v)
  <2>1. serverlist[s] = Entry(v, s) /\ s \in TreeServers
    BY ArrayFacts DEF Exact
  <2> QED BY <2>1, EntryFacts DEF Tree!Listed
<1> QED BY <1>1, ArrayFacts DEF Tree!Listed, Tree!Others, KnownIn

LEMMA handleservermsgList ==
  ASSUME Tree!TreeAssumption, Typed, NEW v, NEW w, ViewOK(v), Matches(v),
         Tree!handleservermsg, Head(wire) \in Tree!Line, Changes(v, Head(wire), w)
  PROVE  Matches(w)'
<1>1. PICK l \in Tree!Line : l = Head(wire)
  OBVIOUS
<1>2. PICK s \in Tree!Others : s = l.s
  BY <1>1, LineFacts
<1>3. /\ op = "none" /\ l.cmd = "SERVER" /\ UNCHANGED <<stack, op>>
      /\ IF s \in Tree!Listed THEN UNCHANGED <<serverlist, myhub>>
         ELSE /\ serverlist' = [serverlist EXCEPT ![s] =
                   [linkstate |-> IF l.linking THEN "LINKING" ELSE "PLINKING", parent |-> l.parent]]
              /\ myhub' = IF l.parent = mynumeric THEN s ELSE myhub
  BY <1>1, <1>2 DEF Tree!handleservermsg, Tree!Receive
<1>4. /\ stack = <<>> /\ Exact(v)
      /\ serverlist[mynumeric] = [linkstate |-> "LINKED", parent |-> Tree!NoServer]
      /\ myhub # Tree!NoServer => myhub \in Tree!Listed
      /\ \A t \in Tree!Listed \ {mynumeric} : serverlist[t].parent = mynumeric <=> t = myhub
  BY <1>3 DEF Matches
<1>5. Tree!Listed = KnownIn(v) \cup {mynumeric}
  BY <1>4, ListedIsKnown
<1>6. s # mynumeric /\ s \in TreeServers /\ s # Tree!NoServer /\ mynumeric \in TreeServers
  BY ArrayFacts DEF Tree!Others
<1>7. serverlist \in [TreeServers -> [linkstate : Tree!States, parent : TreeServers \cup {Tree!NoServer}]]
  BY DEF Typed
<1>8. CASE s \in KnownIn(v)
  <2>1. w = v /\ UNCHANGED <<serverlist, myhub, stack, op>>
    BY <1>1, <1>2, <1>3, <1>5, <1>8 DEF Changes
  <2> QED BY <1>3, <2>1, MatchesAhead DEF Tree!ours
<1>9. CASE s \notin KnownIn(v)
  <2>1. PICK p \in TreeServers : p = l.parent
    BY <1>3, LineFacts
  <2>2. l.linking \in BOOLEAN /\ Joined(v, s, p, l.linking, w)
    BY <1>1, <1>2, <1>3, <1>9, <2>1, LineFacts DEF Changes
  <2>3. /\ KnownIn(w) = KnownIn(v) \cup {s}
        /\ \A t \in KnownIn(v) : w.net[t] = v.net[t] /\ w.behind[t] = v.behind[t] /\ v.behind[t] # s
        /\ w.net[s] = p /\ s # p
        /\ w.bursting = IF l.linking THEN v.bursting \cup {s} ELSE v.bursting
        /\ w.behind[s] = IF l.linking THEN Tree!NoServer ELSE IF p \in v.bursting THEN p ELSE v.behind[p]
    <3>1. l.s \notin KnownIn(v) /\ Joined(v, l.s, l.parent, l.linking, w)
      BY <1>2, <1>9, <2>1, <2>2
    <3>2. Grown(v, l, w)
      BY <1>1, <1>3, <3>1, JoinKeeps
    <3> QED BY <1>2, <2>1, <3>2 DEF Grown
  <2>4. /\ serverlist' = [serverlist EXCEPT ![s] =
             [linkstate |-> IF l.linking THEN "LINKING" ELSE "PLINKING", parent |-> p]]
        /\ myhub' = IF p = mynumeric THEN s ELSE myhub
    BY <1>3, <1>5, <1>6, <1>9, <2>1
  <2>5. /\ serverlist'[s] = [linkstate |-> IF l.linking THEN "LINKING" ELSE "PLINKING", parent |-> p]
        /\ \A t \in TreeServers \ {s} : serverlist'[t] = serverlist[t]
    BY <1>6, <1>7, <2>4
  <2>6. v.bursting \subseteq KnownIn(v)
    BY DEF ViewOK
  <2>7. ASSUME NEW t \in Tree!Others PROVE serverlist'[t] = Entry(w, t)
    <3>1. CASE t = s
      <4>1. LinkState(w, s) = IF l.linking THEN "LINKING" ELSE "PLINKING"
        <5>1. l.linking \/ p \in v.bursting \/ v.behind[p] \in v.bursting
          BY <2>2 DEF Joined
        <5> QED BY <1>9, <2>3, <2>6, <5>1 DEF LinkState, Waits
      <4> QED BY <2>3, <2>5, <3>1, <4>1 DEF Entry
    <3>2. CASE t # s
      <4>1. serverlist'[t] = Entry(v, t)
        BY <1>4, <2>5, <3>2, ArrayFacts DEF Exact
      <4>2. CASE t \notin KnownIn(v)
        BY <2>3, <3>2, <4>1, <4>2 DEF Entry
      <4>3. CASE t \in KnownIn(v)
        <5>1. LinkState(w, t) = LinkState(v, t)
          BY <2>3, <3>2, <4>3 DEF LinkState, Waits
        <5> QED BY <2>3, <4>1, <4>3, <5>1 DEF Entry
      <4> QED BY <4>2, <4>3
    <3> QED BY <3>1, <3>2
  <2>8. Tree!Listed' = Tree!Listed \cup {s} /\ serverlist'[s].parent = p
    BY <1>6, <2>5 DEF Tree!Listed
  <2>9. myhub' # Tree!NoServer => myhub' \in Tree!Listed'
    BY <1>4, <2>4, <2>8
  <2>10. ASSUME NEW t \in Tree!Listed' \ {mynumeric} PROVE serverlist'[t].parent = mynumeric <=> t = myhub'
    <3>1. CASE p = mynumeric
      <4>1. KnownIn(v) = {}
        BY <2>2, <3>1 DEF Joined
      <4> QED BY <1>5, <2>4, <2>8, <3>1, <4>1
    <3>2. CASE p # mynumeric
      <4>1. s # myhub
        BY <1>4, <1>5, <1>6, <1>9
      <4>2. t # s => t \in Tree!Listed /\ serverlist'[t].parent = serverlist[t].parent
        BY <2>5, <2>8 DEF Tree!Listed
      <4> QED BY <1>4, <2>4, <2>8, <3>2, <4>1, <4>2
    <3> QED BY <3>1, <3>2
  <2>11. serverlist'[mynumeric] = serverlist[mynumeric]
    BY <1>6, <2>5
  <2> QED BY <1>3, <1>4, <2>7, <2>9, <2>10, <2>11 DEF Matches, Exact
<1> QED BY <1>8, <1>9

LEMMA handleeobmsgList ==
  ASSUME Tree!TreeAssumption, Typed, NEW v, NEW w, ViewOK(v), Matches(v),
         Tree!handleeobmsg, Head(wire) \in Tree!Line, Changes(v, Head(wire), w)
  PROVE  Matches(w)'
<1>1. PICK s \in Tree!Others : s = Head(wire).s
  BY LineFacts
<1>2. op = "none" /\ Head(wire).cmd = "EB" /\ UNCHANGED <<serverlist, myhub>>
  BY DEF Tree!handleeobmsg, Tree!Receive
<1>3. /\ Exact(v)
      /\ serverlist[mynumeric] = [linkstate |-> "LINKED", parent |-> Tree!NoServer]
      /\ myhub # Tree!NoServer => myhub \in Tree!Listed
      /\ \A t \in Tree!Listed \ {mynumeric} : serverlist[t].parent = mynumeric <=> t = myhub
  BY <1>2 DEF Matches
<1>4. Tree!Listed = KnownIn(v) \cup {mynumeric}
  BY <1>3, ListedIsKnown
<1>5. s \in v.bursting /\ w = [net |-> v.net, bursting |-> v.bursting \ {s}, behind |-> v.behind]
  BY <1>1, <1>2 DEF Changes
<1>6. /\ s \in KnownIn(v) /\ KnownIn(w) = KnownIn(v)
      /\ w.net = v.net /\ w.bursting = v.bursting \ {s} /\ w.behind = v.behind
  BY <1>5, EndOfBurstKeeps DEF ViewOK
<1>7. stack' = <<s>> /\ op' = "complete"
  BY <1>1, <1>4, <1>6 DEF Tree!handleeobmsg
<1>8. /\ \A t \in v.bursting : v.behind[t] = Tree!NoServer
      /\ \A t \in KnownIn(v) : v.behind[t] # Tree!NoServer =>
           \/ v.behind[t] = v.net[t]
           \/ v.net[t] \in KnownIn(v) /\ v.behind[v.net[t]] = v.behind[t]
      /\ v.bursting \subseteq KnownIn(v) /\ Tree!NoServer \notin Tree!Others
  BY ArrayFacts DEF ViewOK
<1>9. ASSUME NEW t \in Tree!Others
      PROVE  /\ serverlist'[t] = Entry(v, t)
             /\ serverlist'[t] # Entry(w, t) <=> t = s \/ (t \in KnownIn(v) /\ v.behind[t] = s)
             /\ t = s => Entry(v, t).linkstate = "LINKING"
             /\ t # s /\ t \in KnownIn(v) /\ v.behind[t] = s => Entry(v, t).linkstate = "PLINKING"
  <2>1. serverlist'[t] = Entry(v, t)
    BY <1>2, <1>3 DEF Exact
  <2>2. CASE t \notin KnownIn(v)
    BY <1>6, <2>1, <2>2, EntryFacts
  <2>3. CASE t \in KnownIn(v)
    <3>1. /\ Entry(v, t) = [linkstate |-> LinkState(v, t), parent |-> v.net[t]]
          /\ Entry(w, t) = [linkstate |-> LinkState(w, t), parent |-> v.net[t]]
          /\ Entry(v, t).linkstate = LinkState(v, t) /\ Entry(w, t).linkstate = LinkState(w, t)
      BY <1>6, <2>3, EntryFacts
    <3>2. CASE t = s
      <4>1. LinkState(v, t) = "LINKING" /\ LinkState(w, t) # "LINKING"
        BY <1>5, <1>6, <3>2 DEF LinkState, Waits
      <4> QED BY <2>1, <3>1, <3>2, <4>1
    <3>3. CASE t # s
      <4>1. t \in w.bursting <=> t \in v.bursting
        BY <1>6, <3>3
      <4>2. t \in v.bursting => v.behind[t] # s
        BY <1>5, <1>8
      <4>3. Waits(v, t) <=> (Waits(w, t) \/ v.behind[t] = s)
        BY <1>5, <1>6 DEF Waits
      <4>4. v.behind[t] = s => ~Waits(w, t)
        BY <1>6 DEF Waits
      <4>5. LinkState(v, t) # LinkState(w, t) <=> v.behind[t] = s
        BY <4>1, <4>2, <4>3, <4>4 DEF LinkState
      <4>6. v.behind[t] = s => LinkState(v, t) = "PLINKING"
        BY <4>1, <4>2, <4>3, <4>4 DEF LinkState
      <4> QED BY <2>1, <2>3, <3>1, <3>3, <4>5, <4>6
    <3> QED BY <3>2, <3>3
  <2> QED BY <2>2, <2>3
<1>10. PICK late : late = Late(w)'
  OBVIOUS
<1>11. \A t : t \in late <=> (t = s \/ (t \in KnownIn(v) /\ v.behind[t] = s))
  BY <1>6, <1>9, <1>10 DEF Late, KnownIn
<1>12. ASSUME NEW t \in late \ {s}
       PROVE  /\ serverlist'[t] = [linkstate |-> "PLINKING", parent |-> w.net[t]]
              /\ w.behind[t] = s /\ w.net[t] \in late
  <2>1. t \in KnownIn(v) /\ v.behind[t] = s /\ t # s /\ t \in Tree!Others
    BY <1>11 DEF KnownIn
  <2>2. serverlist'[t] = [linkstate |-> "PLINKING", parent |-> w.net[t]]
    BY <1>6, <1>9, <2>1, EntryFacts
  <2>3. w.net[t] \in late
    BY <1>6, <1>8, <1>11, <2>1
  <2> QED BY <1>6, <2>1, <2>2, <2>3
<1>13. Completing(w)'
  <2>1. stack'[1] = s /\ Len(stack') = 1 /\ stack' # <<>>
    BY <1>7
  <2>2. \A i \in 1 .. Len(stack') : i = 1
    BY <2>1
  <2>3. Path(late)'
    BY <1>11, <2>1, <2>2 DEF Path
  <2>4. serverlist'[s] = [linkstate |-> "LINKING", parent |-> w.net[s]]
    BY <1>6, <1>9, EntryFacts
  <2>5. late \subseteq KnownIn(w)
    BY <1>6, <1>11
  <2>6. s \notin w.bursting /\ w.behind[s] = Tree!NoServer
    BY <1>5, <1>6, <1>8
  <2>7. Path(Late(w))'
    BY <1>10, <2>3 DEF Path
  <2> QED BY <1>10, <1>12, <2>1, <2>4, <2>5, <2>6, <2>7 DEF Completing
<1>14. Tree!Listed' = Tree!Listed
  BY <1>2 DEF Tree!Listed
<1> QED BY <1>2, <1>3, <1>7, <1>13, <1>14 DEF Matches

\* A call more, of a server below that is not on the stack.
LEMMA PathPush ==
  ASSUME Typed, NEW S, Path(S), NEW c \in S \cap Tree!Others, serverlist[c].parent = Tree!Top, c # stack[1],
         UNCHANGED serverlist, stack' = Append(stack, c)
  PROVE  Path(S)' /\ stack'[1] = stack[1]
<1>1. PICK n \in Nat : n = Len(stack) /\ n >= 1
  BY DEF Typed, Path
<1>2. /\ \A i \in 1 .. n : stack[i] \in S
      /\ \A i \in 2 .. n : serverlist[stack[i]].parent = stack[i - 1]
      /\ \A i, j \in 1 .. n : stack[i] = stack[j] => i = j
  BY <1>1 DEF Path
<1>3. /\ Len(stack') = n + 1 /\ stack'[n + 1] = c /\ \A i \in 1 .. n : stack'[i] = stack[i]
      /\ stack' # <<>> /\ stack'[1] = stack[1]
  BY <1>1 DEF Typed
<1>4. \A i \in 1 .. n : stack[i] # c
  <2>1. SUFFICES ASSUME NEW i \in 1 .. n, stack[i] = c PROVE FALSE
    OBVIOUS
  <2>2. i # 1
    BY <2>1
  <2>3. stack[i - 1] = stack[n] /\ i - 1 \in 1 .. n
    BY <1>1, <1>2, <2>1, <2>2 DEF Tree!Top
  <2> QED BY <1>1, <1>2, <2>1, <2>3
<1>5. \A i \in 1 .. n + 1 : stack'[i] \in S
  BY <1>2, <1>3
<1>6. ASSUME NEW i \in 2 .. n + 1 PROVE serverlist'[stack'[i]].parent = stack'[i - 1]
  BY <1>1, <1>2, <1>3 DEF Tree!Top
<1>7. \A i, j \in 1 .. n + 1 : stack'[i] = stack'[j] => i = j
  BY <1>1, <1>2, <1>3, <1>4
<1> QED BY <1>3, <1>5, <1>6, <1>7 DEF Path

\* The entries of S stay as they are.
Kept(S) == \A s \in S : serverlist'[s] = serverlist[s]

\* A call less.
LEMMA PathPop ==
  ASSUME Typed, NEW S, Path(S), Len(stack) # 1, stack' = Tree!Pop,
         NEW t, t = Tree!Top, Kept(S \ {t})
  PROVE  /\ Path(S \ {t})' /\ stack'[1] = stack[1] /\ stack' # <<>> /\ t # stack[1]
         /\ stack' \in Seq(Tree!Others) /\ Tree!Top' = serverlist[t].parent
<1>0. PICK n \in Nat : n = Len(stack) /\ n >= 1
  BY DEF Typed, Path
<1>1. n \in Nat /\ n = Len(stack) /\ n > 1
  BY <1>0
<1>2. /\ \A i \in 1 .. n : stack[i] \in S
      /\ \A i \in 2 .. n : serverlist[stack[i]].parent = stack[i - 1]
      /\ \A i, j \in 1 .. n : stack[i] = stack[j] => i = j
  BY <1>1 DEF Path
<1>3. /\ Len(stack') = n - 1 /\ (\A i \in 1 .. n - 1 : stack'[i] = stack[i])
      /\ stack' \in Seq(Tree!Others)
  BY <1>1 DEF Typed, Tree!Pop
<1>4. t = stack[n]
  BY <1>1 DEF Tree!Top
<1>5. \A i \in 1 .. n - 1 : stack'[i] \in S \ {t}
  BY <1>1, <1>2, <1>3, <1>4
<1>6. ASSUME NEW i \in 2 .. n - 1 PROVE serverlist'[stack'[i]].parent = stack'[i - 1]
  <2>1. stack'[i] \in S \ {t} /\ stack'[i] = stack[i] /\ stack'[i - 1] = stack[i - 1] /\ i \in 2 .. n
    BY <1>1, <1>3, <1>5
  <2> QED BY <1>2, <1>4, <2>1 DEF Kept
<1>7. \A i, j \in 1 .. n - 1 : stack'[i] = stack'[j] => i = j
  BY <1>1, <1>2, <1>3
<1>8. stack' # <<>> /\ stack'[1] = stack[1] /\ t # stack[1]
  BY <1>1, <1>2, <1>3, <1>4
<1>9. Path(S \ {t})'
  BY <1>3, <1>5, <1>6, <1>7, <1>8 DEF Path
<1>10. Tree!Top' = serverlist[t].parent
  BY <1>1, <1>2, <1>3, <1>4 DEF Tree!Top
<1> QED BY <1>3, <1>4, <1>8, <1>9, <1>10

LEMMA TopIn ==
  ASSUME Typed, NEW S, Path(S)
  PROVE  /\ Tree!Top \in S /\ Tree!Top \in Tree!Others /\ stack[1] \in S /\ stack[1] \in Tree!Others
         /\ Len(stack) = 1 => Tree!Top = stack[1]
         /\ Tree!Pop = <<>> <=> Len(stack) = 1
<1>1. PICK n \in Nat : n = Len(stack) /\ n >= 1
  BY DEF Typed, Path
<1>2. n \in 1 .. n /\ 1 \in 1 .. n
  BY <1>1
<1>3. stack[1] \in S /\ stack[n] \in S /\ stack[1] \in Tree!Others /\ stack[n] \in Tree!Others
  BY <1>1, <1>2 DEF Path, Typed
<1>4. Len(Tree!Pop) = n - 1 /\ Tree!Pop \in Seq(Tree!Others)
  BY <1>1 DEF Tree!Pop, Typed
<1> QED BY <1>1, <1>3, <1>4 DEF Tree!Top

LEMMA completelink_downList ==
  ASSUME Tree!TreeAssumption, Typed, NEW v, ViewOK(v), Matches(v), Tree!completelink_down
  PROVE  Matches(v)' /\ stack' \in Seq(Tree!Others)
<1>1. /\ op = "complete" /\ Completing(v)
      /\ serverlist[mynumeric] = [linkstate |-> "LINKED", parent |-> Tree!NoServer]
  BY DEF Matches, Tree!completelink_down
<1>2. PICK late : late = Late(v)
  OBVIOUS
<1>3. /\ Path(late) /\ late \subseteq KnownIn(v)
      /\ stack[1] \notin v.bursting /\ v.behind[stack[1]] = Tree!NoServer
      /\ serverlist[stack[1]] = [linkstate |-> "LINKING", parent |-> v.net[stack[1]]]
      /\ \A s \in late \ {stack[1]} :
           /\ serverlist[s] = [linkstate |-> "PLINKING", parent |-> v.net[s]]
           /\ v.behind[s] = stack[1]
           /\ v.net[s] \in late
  BY <1>1, <1>2 DEF Completing
<1>4. Tree!Top \in late /\ Tree!Top \in Tree!Others /\ stack[1] \in Tree!Others
  BY <1>3, TopIn
<1>5. PICK c \in TreeServers : /\ serverlist[c].parent = Tree!Top /\ serverlist[c].linkstate = "PLINKING"
                               /\ stack' = Append(stack, c)
  BY DEF Tree!completelink_down, Tree!Waiting
<1>6. UNCHANGED <<serverlist, myhub, op>>
  BY DEF Tree!completelink_down
<1>7. c \in Tree!Others /\ c # stack[1]
  BY <1>1, <1>3, <1>5 DEF Tree!Others
<1>8. c \in late
  <2>1. SUFFICES ASSUME serverlist[c] = Entry(v, c) PROVE FALSE
    BY <1>2, <1>7 DEF Late
  <2>2. c \in KnownIn(v) /\ LinkState(v, c) = "PLINKING" /\ v.net[c] = Tree!Top
    BY <1>5, <1>7, <2>1, EntryFacts
  <2>3. v.behind[c] \in v.bursting /\ v.behind[c] # Tree!NoServer
    <3>1. v.bursting \subseteq Tree!Others
      BY DEF ViewOK, KnownIn
    <3> QED BY <2>2, <3>1, ArrayFacts DEF LinkState, Waits
  <2>4. v.behind[c] = Tree!Top \/ v.behind[Tree!Top] = v.behind[c]
    BY <2>2, <2>3 DEF ViewOK
  <2>5. CASE Tree!Top = stack[1]
    BY <1>3, <2>3, <2>4, <2>5
  <2>6. CASE Tree!Top # stack[1]
    <3>1. v.behind[Tree!Top] = stack[1] /\ stack[1] # Tree!NoServer
      BY <1>3, <1>4, <2>6, ArrayFacts
    <3>2. Tree!Top \notin v.bursting
      BY <3>1 DEF ViewOK
    <3> QED BY <1>3, <2>3, <2>4, <3>1, <3>2
  <2> QED BY <2>5, <2>6
<1>9. Path(late)' /\ stack'[1] = stack[1]
  BY <1>3, <1>5, <1>6, <1>7, <1>8, PathPush
<1>10. late = Late(v)'
  BY <1>2, <1>6 DEF Late
<1>11. Completing(v)'
  <2>1. Path(Late(v))'
    BY <1>9, <1>10 DEF Path
  <2> QED BY <1>3, <1>6, <1>9, <1>10, <2>1 DEF Completing
<1>12. Tree!Listed' = Tree!Listed
  BY <1>6 DEF Tree!Listed
<1>13. stack' \in Seq(Tree!Others)
  BY <1>5, <1>7 DEF Typed
<1> QED BY <1>1, <1>6, <1>11, <1>12, <1>13 DEF Matches

LEMMA completelinkList ==
  ASSUME Tree!TreeAssumption, Typed, NEW v, ViewOK(v), Matches(v), Tree!completelink
  PROVE  Matches(v)' /\ stack' \in Seq(Tree!Others)
<1>1. /\ op = "complete" /\ Completing(v)
      /\ serverlist[mynumeric] = [linkstate |-> "LINKED", parent |-> Tree!NoServer]
      /\ myhub # Tree!NoServer => myhub \in Tree!Listed
      /\ \A t \in Tree!Listed \ {mynumeric} : serverlist[t].parent = mynumeric <=> t = myhub
  BY DEF Matches, Tree!completelink
<1>2. PICK late : late = Late(v)
  OBVIOUS
<1>3. /\ Path(late) /\ late \subseteq KnownIn(v) /\ late \subseteq Tree!Others
      /\ stack[1] \notin v.bursting /\ v.behind[stack[1]] = Tree!NoServer
      /\ serverlist[stack[1]] = [linkstate |-> "LINKING", parent |-> v.net[stack[1]]]
      /\ \A s \in late \ {stack[1]} :
           /\ serverlist[s] = [linkstate |-> "PLINKING", parent |-> v.net[s]]
           /\ v.behind[s] = stack[1]
           /\ v.net[s] \in late
  BY <1>1, <1>2 DEF Completing, Late
<1>4. PICK t \in late : t = Tree!Top
  BY <1>3, TopIn
<1>5. /\ t \in Tree!Others /\ t \in KnownIn(v) /\ t \in TreeServers /\ t # mynumeric
           /\ mynumeric \in TreeServers
      /\ serverlist[t].linkstate # "INVALID" /\ serverlist[t].parent = v.net[t]
  <2>1. serverlist[t] \in {[linkstate |-> "LINKING", parent |-> v.net[t]], [linkstate |-> "PLINKING",
        parent |-> v.net[t]]}
    BY <1>3, <1>4
  <2>2. serverlist[t].linkstate # "INVALID" /\ serverlist[t].parent = v.net[t]
    BY <2>1
  <2> QED BY <1>3, <1>4, <2>2, ArrayFacts
<1>6. /\ serverlist' = [serverlist EXCEPT ![t].linkstate = "LINKED"] /\ UNCHANGED myhub
      /\ stack' = Tree!Pop /\ op' = IF Tree!Pop = <<>> THEN "none" ELSE op
      /\ \A c \in TreeServers : ~(serverlist[c].parent = t /\ serverlist[c].linkstate = "PLINKING")
  BY <1>4 DEF Tree!completelink, Tree!Waiting
<1>7. serverlist \in [TreeServers -> [linkstate : Tree!States, parent : TreeServers \cup {Tree!NoServer}]]
  BY DEF Typed
<1>8. /\ serverlist'[t] = [linkstate |-> "LINKED", parent |-> v.net[t]]
      /\ \A s \in TreeServers \ {t} : serverlist'[s] = serverlist[s]
  BY <1>5, <1>6, <1>7
<1>9. Entry(v, t) = [linkstate |-> "LINKED", parent |-> v.net[t]]
  <2>1. LinkState(v, t) = "LINKED"
    <3>1. t # stack[1] => v.behind[t] = stack[1] /\ stack[1] # Tree!NoServer
      BY <1>3, ArrayFacts, TopIn
    <3>2. t \notin v.bursting
      BY <1>3, <3>1 DEF ViewOK
    <3>3. v.bursting \subseteq Tree!Others
      BY DEF ViewOK, KnownIn
    <3> QED BY <1>3, <3>1, <3>2, <3>3, ArrayFacts DEF LinkState, Waits
  <2> QED BY <1>5, <2>1 DEF Entry
<1>10. Late(v)' = late \ {t}
  BY <1>2, <1>8, <1>9, ArrayFacts DEF Late
<1>11. ASSUME NEW s \in late \ {stack[1]} PROVE v.net[s] # t
  <2>1. serverlist[s] = [linkstate |-> "PLINKING", parent |-> v.net[s]] /\ s \in late /\ s \in TreeServers
    BY <1>3, <1>11, ArrayFacts
  <2>2. serverlist[s].linkstate = "PLINKING" /\ serverlist[s].parent = v.net[s]
    BY <2>1
  <2> QED BY <1>6, <2>1, <2>2
<1>12. Tree!Listed' = Tree!Listed
  BY <1>5, <1>8 DEF Tree!Listed
<1>13. \A s \in Tree!Listed : serverlist'[s].parent = serverlist[s].parent
  BY <1>5, <1>8 DEF Tree!Listed
<1>14. CASE Len(stack) = 1
  <2>1. Tree!Pop = <<>> /\ t = stack[1]
    BY <1>3, <1>4, <1>14, TopIn
  <2>2. late \ {t} \in SUBSET KnownIn(v) /\ \A s \in late \ {t} : v.net[s] \in late \ {t}
    BY <1>3, <1>11, <2>1
  <2>3. late \ {t} = {}
    BY <2>2 DEF ViewOK, Founded
  <2>4. Exact(v)'
    BY <1>10, <2>3 DEF Late, Exact
  <2> QED BY <1>1, <1>5, <1>6, <1>8, <1>12, <1>13, <2>1, <2>4 DEF Matches
<1>15. CASE Len(stack) # 1
  <2>1. Kept(late \ {t})
    BY <1>3, <1>8, ArrayFacts DEF Kept
  <2>2. /\ Path(late \ {t})' /\ stack'[1] = stack[1] /\ stack' # <<>> /\ t # stack[1]
        /\ stack' \in Seq(Tree!Others)
    BY <1>3, <1>4, <1>6, <1>15, <2>1, PathPop
  <2>3. stack[1] \in late
    BY <1>3, TopIn
  <2>4. Path(Late(v))'
    BY <1>10, <2>2 DEF Path
  <2>5. Completing(v)'
    BY <1>3, <1>10, <1>11, <2>1, <2>2, <2>3, <2>4 DEF Completing, Kept
  <2>6. op' = "complete"
    BY <1>1, <1>6, <2>2
  <2> QED BY <1>1, <1>5, <1>6, <1>8, <1>12, <1>13, <2>2, <2>5, <2>6 DEF Matches
<1> QED BY <1>14, <1>15

\* deleteserver() for a server starts: what the network has lost is to be deleted.
LEMMA DeletingStarts ==
  ASSUME Tree!TreeAssumption, Typed, NEW v, ViewOK(v), Matches(v), op = "none", NEW w,
           KnownIn(w) \subseteq KnownIn(v),
         \A t \in KnownIn(w) : Entry(w, t) = Entry(v, t),
         NEW s \in KnownIn(v) \ KnownIn(w),
         v.net[s] = mynumeric \/ v.net[s] \in KnownIn(w),
         \A t \in KnownIn(v) \ KnownIn(w) : t = s \/ v.net[t] \in KnownIn(v) \ KnownIn(w),
         stack' = <<s>>, UNCHANGED serverlist
  PROVE  Deleting(w)'
<1>1. PICK gone : gone = KnownIn(v) \ KnownIn(w)
  OBVIOUS
<1>2. /\ Exact(v) /\ serverlist[mynumeric] = [linkstate |-> "LINKED", parent |-> Tree!NoServer]
      /\ gone \subseteq Tree!Others /\ s \in gone
  BY <1>1 DEF Matches, KnownIn
<1>3. Tree!Listed = KnownIn(v) \cup {mynumeric}
  BY <1>2, ListedIsKnown
<1>4. Tree!Listed' = Tree!Listed
  BY DEF Tree!Listed
<1>5. mynumeric \notin KnownIn(v)
  BY DEF KnownIn, Tree!Others
<1>6. Doomed(w)' = gone
  BY <1>1, <1>3, <1>4, <1>5 DEF Doomed
<1>7. ASSUME NEW t \in KnownIn(v)
      PROVE  /\ serverlist'[t] = Entry(v, t) /\ serverlist'[t].parent = v.net[t]
             /\ serverlist'[t].linkstate # "SQUIT" /\ t \in TreeServers
  <2>1. t \in Tree!Others /\ serverlist[t] = Entry(v, t)
    BY <1>2, <1>7 DEF Exact, KnownIn
  <2> QED BY <1>7, <2>1, EntryFacts, ArrayFacts
<1>8. Path(gone)'
  <2>1. stack'[1] = s /\ Len(stack') = 1 /\ stack' # <<>>
    OBVIOUS
  <2>2. \A i \in 1 .. Len(stack') : i = 1
    BY <2>1
  <2> QED BY <1>2, <2>1, <2>2 DEF Path
<1>9. Founded(gone, Parents)'
  <2>1. Founded(KnownIn(v), v.net)
    BY DEF ViewOK
  <2>2. \A t \in gone : Parents'[t] = v.net[t]
    BY <1>1, <1>7 DEF Parents
  <2>3. SUFFICES ASSUME NEW S \in SUBSET gone, S # {} PROVE \E t \in S : Parents'[t] \notin S
    BY DEF Founded
  <2>4. PICK t \in S : v.net[t] \notin S
    BY <1>1, <2>1, <2>3 DEF Founded
  <2> QED BY <2>2, <2>3, <2>4
<1>10. ASSUME NEW t \in Tree!Others \ gone PROVE serverlist'[t] = Entry(w, t)
  <2>1. serverlist'[t] = Entry(v, t)
    BY <1>2 DEF Exact
  <2>2. t \in KnownIn(w) \/ (t \notin KnownIn(v) /\ t \notin KnownIn(w))
    BY <1>1, <1>10
  <2> QED BY <2>1, <2>2 DEF Entry
<1>11. \A t \in gone \ {s} : serverlist'[t].parent \in gone
  BY <1>1, <1>7
<1>12. serverlist'[s].parent \in Tree!Listed' \ gone
  BY <1>1, <1>3, <1>4, <1>5, <1>7
<1>13. \A t \in gone : serverlist'[t].linkstate # "SQUIT"
  BY <1>1, <1>7
<1>14. stack'[1] = s
  OBVIOUS
<1>15. Path(Doomed(w))' /\ Founded(Doomed(w), Parents)'
  BY <1>6, <1>8, <1>9 DEF Path, Founded
<1> QED BY <1>6, <1>10, <1>11, <1>12, <1>13, <1>14, <1>15 DEF Deleting

LEMMA handlesquitmsgList ==
  ASSUME Tree!TreeAssumption, Typed, NEW v, NEW w, ViewOK(v), Matches(v),
         Tree!handlesquitmsg, Head(wire) \in Tree!Line, Changes(v, Head(wire), w)
  PROVE  Matches(w)' /\ stack' \in Seq(Tree!Others)
<1>1. PICK s \in Tree!Others : s = Head(wire).s
  BY LineFacts
<1>2. op = "none" /\ Head(wire).cmd = "SQ" /\ UNCHANGED <<serverlist, myhub>>
  BY DEF Tree!handlesquitmsg, Tree!Receive
<1>3. /\ Exact(v)
      /\ serverlist[mynumeric] = [linkstate |-> "LINKED", parent |-> Tree!NoServer]
      /\ myhub # Tree!NoServer => myhub \in Tree!Listed
      /\ \A t \in Tree!Listed \ {mynumeric} : serverlist[t].parent = mynumeric <=> t = myhub
  BY <1>2 DEF Matches
<1>4. Tree!Listed = KnownIn(v) \cup {mynumeric}
  BY <1>3, ListedIsKnown
<1>5. Lost(v, s, w)
  BY <1>1, <1>2 DEF Changes
<1>6. s \in KnownIn(v) /\ v.net[s] # mynumeric
  BY <1>5 DEF Lost
<1>7. PICK gone \in SUBSET KnownIn(v) :
        /\ s \in gone
        /\ \A u \in KnownIn(v) : v.net[u] \in gone => u \in gone
        /\ \A u \in gone : u = s \/ v.net[u] \in gone
        /\ w = [net |-> [t \in Tree!Others |-> IF t \in gone THEN Tree!NoServer ELSE v.net[t]],
                bursting |-> v.bursting \ gone,
                behind |-> [t \in Tree!Others |-> IF t \in gone THEN Tree!NoServer ELSE v.behind[t]]]
  BY <1>5 DEF Lost
<1>8. /\ KnownIn(w) = KnownIn(v) \ gone
      /\ w.bursting = v.bursting \ gone
      /\ \A t \in KnownIn(w) : w.net[t] = v.net[t] /\ w.behind[t] = v.behind[t] /\ w.behind[t] \notin gone
  <2>1. Shrunk(v, gone, w)
    BY <1>6, <1>7, LossKeeps
  <2> QED BY <2>1 DEF Shrunk
<1>9. ASSUME NEW t \in KnownIn(w) PROVE Entry(w, t) = Entry(v, t)
  <2>1. t \in KnownIn(v) /\ t \notin gone
    BY <1>8
  <2>2. LinkState(w, t) = LinkState(v, t)
    BY <1>8, <2>1 DEF LinkState, Waits
  <2> QED BY <1>8, <2>1, <2>2 DEF Entry
<1>10. v.net[s] \in KnownIn(w)
  <2>1. v.net[s] \in KnownIn(v)
    BY <1>6 DEF ViewOK
  <2>2. SUFFICES ASSUME v.net[s] \in gone PROVE FALSE
    BY <1>8, <2>1
  <2>3. gone # {} /\ \A u \in gone : v.net[u] \in gone
    BY <1>7, <2>2
  <2> QED BY <2>3 DEF ViewOK, Founded
<1>11. stack' = <<s>> /\ op' = "squit"
  <2>1. Tree!findserver(s) = s
    <3>1. {t \in Tree!Listed : t = s \/ <<t, s>> \in {}} = {s}
      BY <1>4, <1>6
    <3>2. s \in Nat
      BY ArrayFacts
    <3>3. \A t \in {s} : (\A u \in {s} : t <= u) => t = s
      OBVIOUS
    <3>4. \A u \in {s} : s <= u
      BY <3>2
    <3> QED BY <3>1, <3>3, <3>4 DEF Tree!findserver
  <2>2. s # Tree!NoServer
    BY ArrayFacts
  <2> QED BY <1>1, <2>1, <2>2 DEF Tree!handlesquitmsg
<1>12. KnownIn(v) \ KnownIn(w) = gone
  BY <1>8
<1>13. Deleting(w)'
  <2>1. KnownIn(w) \subseteq KnownIn(v) /\ s \in KnownIn(v) \ KnownIn(w)
    BY <1>7, <1>8
  <2>2. \A t \in KnownIn(v) \ KnownIn(w) : t = s \/ v.net[t] \in KnownIn(v) \ KnownIn(w)
    BY <1>7, <1>12
  <2> QED BY <1>2, <1>9, <1>10, <1>11, <2>1, <2>2, DeletingStarts
<1>14. s # myhub
  <2>1. serverlist[s].parent = v.net[s] /\ s \in Tree!Listed \ {mynumeric}
    <3>1. serverlist[s] = Entry(v, s)
      BY <1>3 DEF Exact
    <3> QED BY <1>4, <1>6, <3>1, EntryFacts, ArrayFacts
  <2> QED BY <1>3, <1>6, <2>1
<1>15. Tree!Listed' = Tree!Listed /\ stack'[1] = s /\ stack' \in Seq(Tree!Others)
  BY <1>2, <1>11 DEF Tree!Listed
<1> QED BY <1>2, <1>3, <1>11, <1>13, <1>14, <1>15 DEF Matches

\* Nothing known, nothing on its way.
LEMMA handledisconnectInv ==
  ASSUME Tree!TreeAssumption, ServersInv, Tree!handledisconnect
  PROVE  ServersInv'
<1>1. Typed
  BY DEF ServersInv
<1>2. PICK views : Replay(views) /\ Matches(views[0])
  BY DEF ServersInv
<1>3. PICK v : v = views[0] /\ ViewOK(v) /\ Matches(v)
  BY <1>2 DEF Replay
<1>4. /\ op = "none" /\ wire' = <<>> /\ UNCHANGED <<serverlist, myhub>>
      /\ IF myhub # Tree!NoServer THEN stack' = <<myhub>> /\ op' = "disconnect" ELSE UNCHANGED <<stack, op>>
      /\ hubview' = [s \in Tree!Others |-> Tree!NoServer] /\ bursting' = {}
      /\ behind' = [s \in Tree!Others |-> Tree!NoServer]
  BY DEF Tree!handledisconnect, Tree!NetForgotten
<1>5. /\ Exact(v) /\ stack = <<>>
      /\ serverlist[mynumeric] = [linkstate |-> "LINKED", parent |-> Tree!NoServer]
      /\ myhub # Tree!NoServer => myhub \in Tree!Listed
      /\ \A t \in Tree!Listed \ {mynumeric} : serverlist[t].parent = mynumeric <=> t = myhub
  BY <1>3, <1>4 DEF Matches
<1>6. Tree!Listed = KnownIn(v) \cup {mynumeric}
  BY <1>5, ListedIsKnown
<1>7. Tree!Listed' = Tree!Listed /\ Tree!Known' = {}
  BY <1>4 DEF Tree!Listed, Tree!Known
<1>8. PICK w : w = Now'
  OBVIOUS
<1>9. /\ w.net = [s \in Tree!Others |-> Tree!NoServer] /\ w.bursting = {}
      /\ w = [net |-> w.net, bursting |-> w.bursting, behind |-> w.behind]
      /\ w.behind = [s \in Tree!Others |-> Tree!NoServer]
  BY <1>4, <1>8 DEF Now
<1>10. KnownIn(w) = {} /\ w \in View
  BY <1>9 DEF KnownIn, View
<1>11. ViewOK(w)
  BY <1>9, <1>10 DEF ViewOK, Founded
<1>12. PICK next : next = [i \in {0} |-> w]
  OBVIOUS
<1>13. Replay(next)' /\ next[0] = w
  <2>1. Len(wire') = 0 /\ next[0] = w
    BY <1>4, <1>12
  <2> QED BY <1>8, <1>11, <2>1 DEF Replay
<1>14. ASSUME myhub = Tree!NoServer PROVE Matches(w)' /\ stack' \in Seq(Tree!Others)
  <2>1. KnownIn(v) = {} /\ \A s \in Tree!Others : serverlist[s] = Tree!Invalid
    BY <1>1, <1>3, <1>4, <1>14, Unlinked
  <2>2. \A s \in Tree!Others : serverlist'[s] = Entry(w, s)
    BY <1>4, <1>10, <2>1 DEF Entry
  <2>3. Exact(w)'
    BY <2>2 DEF Exact
  <2>4. Matches(w)' /\ stack' \in Seq(Tree!Others)
    BY <1>4, <1>5, <1>7, <1>14, <2>3 DEF Matches
  <2> QED BY <2>4
<1>15. ASSUME myhub # Tree!NoServer PROVE Matches(w)' /\ stack' \in Seq(Tree!Others)
  <2>1. PICK h \in Tree!Others : h = myhub /\ h \in KnownIn(v)
    BY <1>1, <1>5, <1>6, <1>15 DEF Typed, Tree!Others
  <2>2. stack' = <<h>> /\ op' = "disconnect" /\ stack'[1] = h
    BY <1>4, <1>15, <2>1
  <2>3. ASSUME NEW t \in KnownIn(v) PROVE serverlist[t].parent = v.net[t] /\ t \in Tree!Listed \ {mynumeric}
    <3>1. t \in Tree!Others /\ serverlist[t] = Entry(v, t)
      BY <1>5, <2>3 DEF Exact, KnownIn
    <3> QED BY <1>6, <2>3, <3>1, EntryFacts, ArrayFacts
  <2>4. v.net[h] = mynumeric
    BY <1>5, <2>1, <2>3
  <2>5. \A t \in KnownIn(v) \ KnownIn(w) : t = h \/ v.net[t] \in KnownIn(v) \ KnownIn(w)
    <3>1. /\ \A t \in KnownIn(v) : v.net[t] = mynumeric \/ v.net[t] \in KnownIn(v)
          /\ \A t, u \in KnownIn(v) : v.net[t] = mynumeric /\ v.net[u] = mynumeric => t = u
      BY <1>3 DEF ViewOK
    <3> QED BY <1>10, <2>1, <2>4, <3>1
  <2>6. \A t \in KnownIn(w) : Entry(w, t) = Entry(v, t)
    BY <1>10
  <2>7. Deleting(w)'
    <3>1. KnownIn(w) \subseteq KnownIn(v) /\ h \in KnownIn(v) \ KnownIn(w)
      BY <1>10, <2>1
    <3> QED BY <1>1, <1>3, <1>4, <2>2, <2>4, <2>5, <2>6, <3>1, DeletingStarts
  <2>8. Matches(w)' /\ stack' \in Seq(Tree!Others)
    BY <1>4, <1>5, <1>7, <1>10, <2>1, <2>2, <2>7 DEF Matches
  <2> QED BY <2>8
<1>16. Matches(next[0])' /\ stack' \in Seq(Tree!Others)
  BY <1>13, <1>14, <1>15
<1>17. Now' \in View /\ bursting' \subseteq Tree!Known' /\ wire' \in Seq(Tree!Line)
  BY <1>4, <1>8, <1>10
<1>18. Typed'
  BY <1>1, <1>4, <1>16, <1>17 DEF Typed
<1> QED BY <1>13, <1>16, <1>18 DEF ServersInv

LEMMA deleteserver_downList ==
  ASSUME Tree!TreeAssumption, Typed, NEW v, ViewOK(v), Matches(v), Tree!deleteserver_down
  PROVE  Matches(v)' /\ stack' \in Seq(Tree!Others)
<1>1. /\ op \in {"squit", "disconnect"} /\ Deleting(v)
      /\ serverlist[mynumeric] = [linkstate |-> "LINKED", parent |-> Tree!NoServer]
  BY DEF Matches, Tree!deleteserver_down
<1>2. PICK gone : gone = Doomed(v)
  OBVIOUS
<1>3. /\ Path(gone) /\ gone \cap KnownIn(v) = {} /\ gone \subseteq Tree!Others
      /\ \A s \in Tree!Others \ gone : serverlist[s] = Entry(v, s)
      /\ serverlist[stack[1]].parent \notin gone
      /\ \A s \in gone : serverlist[s].linkstate = "SQUIT" => s = Tree!Top /\ Tree!Children(s) = {}
  BY <1>1, <1>2 DEF Deleting, Doomed, Tree!Listed, Tree!Others
<1>4. PICK t \in gone : t = Tree!Top
  BY <1>3, TopIn
<1>5. PICK c \in Tree!Listed : serverlist[c].parent = t /\ stack' = Append(stack, c)
  BY <1>4 DEF Tree!deleteserver_down, Tree!Children
<1>6. UNCHANGED <<serverlist, myhub, op, wire, hubview>>
  BY DEF Tree!deleteserver_down, Tree!network
<1>7. c \in Tree!Others /\ c # stack[1]
  <2>1. c # mynumeric
    BY <1>1, <1>3, <1>4, <1>5, ArrayFacts
  <2> QED BY <1>3, <1>4, <1>5, <2>1 DEF Tree!Listed, Tree!Others
<1>8. c \in gone
  <2>1. SUFFICES ASSUME c \in KnownIn(v) PROVE FALSE
    BY <1>2, <1>5, <1>7 DEF Doomed, Tree!Others
  <2>2. v.net[c] = t
    BY <1>3, <1>5, <1>7, <2>1, EntryFacts
  <2>3. t \in KnownIn(v) \/ t = mynumeric
    BY <2>1, <2>2 DEF ViewOK
  <2> QED BY <1>3, <1>4, <2>3 DEF Tree!Others
<1>9. Path(gone)' /\ stack'[1] = stack[1]
  BY <1>3, <1>4, <1>5, <1>6, <1>7, <1>8, PathPush
<1>10. Tree!Listed' = Tree!Listed /\ gone = Doomed(v)' /\ Tree!Known' = Tree!Known /\ Parents' = Parents
  BY <1>2, <1>6 DEF Doomed, Tree!Listed, Tree!Known, Parents
<1>11. \A s \in gone : serverlist[s].linkstate # "SQUIT"
  <2>1. c \in Tree!Children(t)
    BY <1>5 DEF Tree!Children
  <2> QED BY <1>3, <1>4, <2>1
<1>12. Deleting(v)'
  <2>1. Path(Doomed(v))'
    BY <1>9, <1>10 DEF Path
  <2>2. Founded(Doomed(v), Parents)'
    BY <1>1, <1>2, <1>10 DEF Deleting, Founded
  <2>3. /\ \A s \in gone \ {stack[1]} : serverlist[s].parent \in gone
        /\ serverlist[stack[1]].parent \in Tree!Listed \ gone
    BY <1>1, <1>2 DEF Deleting
  <2> QED BY <1>3, <1>6, <1>9, <1>10, <1>11, <2>1, <2>2, <2>3 DEF Deleting
<1>13. stack' \in Seq(Tree!Others)
  BY <1>5, <1>7 DEF Typed
<1> QED BY <1>1, <1>6, <1>9, <1>10, <1>12, <1>13 DEF Matches

LEMMA deleteserverList ==
  ASSUME Tree!TreeAssumption, Typed, NEW v, ViewOK(v), Matches(v), Tree!deleteserver
  PROVE  Matches(v)' /\ stack' \in Seq(Tree!Others)
<1>1. /\ op \in {"squit", "disconnect"} /\ Deleting(v)
      /\ serverlist[mynumeric] = [linkstate |-> "LINKED", parent |-> Tree!NoServer]
      /\ myhub # Tree!NoServer => myhub \in Tree!Listed
      /\ \A s \in Tree!Listed \ {mynumeric} : serverlist[s].parent = mynumeric <=> s = myhub
      /\ IF op = "squit" THEN stack[1] # myhub
         ELSE stack[1] = myhub /\ KnownIn(v) = {} /\ wire = <<>> /\ Tree!Known = {}
  BY DEF Matches, Tree!deleteserver
<1>2. PICK gone : gone = Doomed(v)
  OBVIOUS
<1>3. /\ Path(gone) /\ gone \cap KnownIn(v) = {} /\ gone \subseteq Tree!Others /\ gone \subseteq Tree!Listed
      /\ \A s \in Tree!Others \ gone : serverlist[s] = Entry(v, s)
      /\ serverlist[stack[1]].parent \in Tree!Listed \ gone
      /\ \A s \in gone \ {stack[1]} : serverlist[s].parent \in gone
      /\ Founded(gone, Parents)
      /\ \A s \in gone : serverlist[s].linkstate = "SQUIT" => s = Tree!Top /\ Tree!Children(s) = {}
  BY <1>1, <1>2 DEF Deleting, Doomed, Tree!Listed, Tree!Others
<1>4. PICK t \in gone : t = Tree!Top
  BY <1>3, TopIn
<1>5. /\ t \in Tree!Others /\ t \in TreeServers /\ t # mynumeric /\ mynumeric \in TreeServers
           /\ t \in Tree!Listed
  BY <1>3, <1>4, ArrayFacts
<1>6. /\ UNCHANGED <<wire, hubview>>
      /\ \A c \in Tree!Listed : serverlist[c].parent # t
      /\ IF serverlist[t].linkstate # "SQUIT"
         THEN serverlist' = [serverlist EXCEPT ![t].linkstate = "SQUIT"] /\ UNCHANGED <<stack, op, myhub>>
         ELSE /\ serverlist' = [serverlist EXCEPT ![t] = Tree!Invalid]
              /\ stack' = Tree!Pop
              /\ op' = IF Tree!Pop = <<>> THEN "none" ELSE op
              /\ myhub' = IF op = "disconnect" /\ Tree!Pop = <<>> THEN Tree!NoServer ELSE myhub
  BY <1>4 DEF Tree!deleteserver, Tree!network, Tree!Children
<1>7. serverlist \in [TreeServers -> [linkstate : Tree!States, parent : TreeServers \cup {Tree!NoServer}]]
  BY DEF Typed
<1>8. /\ \A s \in TreeServers \ {t} : serverlist'[s] = serverlist[s]
      /\ \A s \in Tree!Others \ gone : serverlist'[s] = Entry(v, s)
      /\ serverlist'[mynumeric] = serverlist[mynumeric]
  <2>1. \A s \in TreeServers \ {t} : serverlist'[s] = serverlist[s]
    BY <1>5, <1>6, <1>7
  <2>2. Tree!Others \ gone \subseteq TreeServers \ {t}
    BY <1>4, ArrayFacts
  <2> QED BY <1>3, <1>5, <2>1, <2>2
<1>9. Tree!Known' = Tree!Known /\ wire' = wire
  BY <1>6 DEF Tree!Known
<1>10. CASE serverlist[t].linkstate # "SQUIT"
  <2>1. UNCHANGED <<stack, op, myhub>> /\ serverlist' = [serverlist EXCEPT ![t].linkstate = "SQUIT"]
    BY <1>6, <1>10
  <2>2. serverlist'[t].parent = serverlist[t].parent /\ serverlist'[t].linkstate = "SQUIT"
    BY <1>5, <1>7, <2>1
  <2>3. Tree!Listed' = Tree!Listed
    BY <1>5, <1>8, <2>2 DEF Tree!Listed
  <2>4. \A s \in TreeServers : serverlist'[s].parent = serverlist[s].parent
    BY <1>8, <2>2
  <2>5. gone = Doomed(v)'
    BY <1>2, <2>3 DEF Doomed
  <2>6. Parents' = Parents
    BY <2>4 DEF Parents
  <2>7. Path(Doomed(v))'
    <3>1. gone \subseteq TreeServers
      BY <1>3, ArrayFacts
    <3>2. Path(gone)'
      BY <1>3, <2>1, <2>4, <3>1 DEF Path
    <3> QED BY <2>5, <3>2 DEF Path
  <2>8. Founded(Doomed(v), Parents)'
    BY <1>3, <2>5, <2>6 DEF Founded
  <2>9. \A s \in gone \ {stack'[1]} : serverlist'[s].parent \in gone
    BY <1>3, <2>1, <2>4, ArrayFacts
  <2>10. serverlist'[stack'[1]].parent \in Tree!Listed' \ gone
    BY <1>3, <2>1, <2>3, <2>4, ArrayFacts, TopIn
  <2>11. Tree!Top' = t
    BY <1>4, <2>1 DEF Tree!Top
  <2>12. Tree!Children(t)' = {}
    <3>1. \A c \in Tree!Listed' : serverlist'[c].parent # t
      BY <1>6, <2>3, <2>4 DEF Tree!Listed
    <3> QED BY <3>1 DEF Tree!Children
  <2>13. \A s \in gone : serverlist'[s].linkstate = "SQUIT" => s = t
    BY <1>3, <1>4, <1>8, ArrayFacts
  <2>14. Deleting(v)'
    BY <1>8, <2>5, <2>7, <2>8, <2>9, <2>10, <2>11, <2>12, <2>13 DEF Deleting
  <2>15. myhub' # Tree!NoServer => myhub' \in Tree!Listed'
    BY <1>1, <2>1, <2>3
  <2>16. \A s \in Tree!Listed' \ {mynumeric} : serverlist'[s].parent = mynumeric <=> s = myhub'
    BY <1>1, <2>1, <2>3, <2>4 DEF Tree!Listed
  <2>17. stack' \in Seq(Tree!Others)
    BY <2>1 DEF Typed
  <2> QED BY <1>1, <1>8, <1>9, <2>1, <2>14, <2>15, <2>16, <2>17 DEF Matches
<1>11. CASE serverlist[t].linkstate = "SQUIT"
  <2>1. /\ serverlist' = [serverlist EXCEPT ![t] = Tree!Invalid]
        /\ stack' = Tree!Pop
        /\ op' = IF Tree!Pop = <<>> THEN "none" ELSE op
        /\ myhub' = IF op = "disconnect" /\ Tree!Pop = <<>> THEN Tree!NoServer ELSE myhub
    BY <1>6, <1>11
  <2>2. serverlist'[t] = Tree!Invalid /\ serverlist'[t].linkstate = "INVALID"
    BY <1>5, <1>7, <2>1 DEF Tree!Invalid
  <2>3. Tree!Listed' = Tree!Listed \ {t}
    BY <1>5, <1>8, <2>2 DEF Tree!Listed
  <2>4. Doomed(v)' = gone \ {t}
    BY <1>2, <2>3 DEF Doomed
  <2>5. \A s \in gone \ {t} : serverlist'[s] = serverlist[s] /\ serverlist[s].linkstate # "SQUIT"
          /\ serverlist[s].parent # t
    BY <1>3, <1>4, <1>6, <1>8, ArrayFacts
  <2>6. \A s \in Tree!Listed' : serverlist'[s] = serverlist[s]
    BY <1>8, <2>3 DEF Tree!Listed
  <2>7. CASE Len(stack) = 1
    <3>1. Tree!Pop = <<>> /\ t = stack[1] /\ op' = "none" /\ stack' = <<>>
      BY <1>3, <1>4, <2>1, <2>7, TopIn
    <3>2. gone \ {t} = {}
      <4>1. \A s \in gone \ {t} : Parents[s] \in gone \ {t}
        BY <1>3, <2>5, <3>1, ArrayFacts DEF Parents
      <4>2. gone \ {t} \in SUBSET gone
        OBVIOUS
      <4> QED BY <1>3, <4>1, <4>2 DEF Founded
    <3>3. Exact(v)'
      <4>1. gone = {t} /\ t \notin KnownIn(v)
        BY <1>3, <1>4, <3>2
      <4>2. serverlist'[t] = Entry(v, t)
        BY <2>2, <4>1 DEF Entry
      <4> QED BY <1>8, <4>1, <4>2 DEF Exact
    <3>4. myhub' # Tree!NoServer => myhub' \in Tree!Listed'
      BY <1>1, <2>1, <2>3, <3>1
    <3>5. \A s \in Tree!Listed' \ {mynumeric} : serverlist'[s].parent = mynumeric <=> s = myhub'
      BY <1>1, <2>1, <2>3, <2>6, <3>1, ArrayFacts DEF Tree!Listed
    <3>6. stack' \in Seq(Tree!Others)
      BY <3>1
    <3> QED BY <1>1, <1>8, <3>1, <3>3, <3>4, <3>5, <3>6 DEF Matches
  <2>8. CASE Len(stack) # 1
    <3>1. Kept(gone \ {t})
      BY <2>5 DEF Kept
    <3>2. /\ Path(gone \ {t})' /\ stack'[1] = stack[1] /\ stack' # <<>> /\ t # stack[1]
          /\ stack' \in Seq(Tree!Others)
      BY <1>3, <1>4, <2>1, <2>8, <3>1, PathPop
    <3>3. op' = op /\ myhub' = myhub
      BY <2>1, <3>2
    <3>4. stack[1] \in gone \ {t}
      BY <1>3, <3>2, TopIn
    <3>5. Path(Doomed(v))'
      BY <2>4, <3>2 DEF Path
    <3>6. Founded(Doomed(v), Parents)'
      <4>1. \A s \in gone \ {t} : Parents'[s] = Parents[s]
        BY <1>3, <2>5, ArrayFacts DEF Parents
      <4> QED BY <1>3, <2>4, <4>1 DEF Founded
    <3>7. \A s \in gone \ {t, stack'[1]} : serverlist'[s].parent \in gone \ {t}
      BY <1>3, <2>5, <3>2
    <3>8. serverlist'[stack'[1]].parent \in Tree!Listed' \ (gone \ {t})
      BY <1>3, <1>4, <2>3, <2>5, <3>2, <3>4
    <3>13. \A s \in Tree!Others \ (gone \ {t}) : serverlist'[s] = Entry(v, s)
      <4>1. t \notin KnownIn(v)
        BY <1>3, <1>4
      <4>2. serverlist'[t] = Entry(v, t)
        BY <2>2, <4>1 DEF Entry
      <4> QED BY <1>8, <4>2
    <3>9. Deleting(v)'
      BY <3>13, <2>4, <2>5, <3>2, <3>5, <3>6, <3>7, <3>8 DEF Deleting
    <3>10. myhub # t
      <4>1. serverlist[t].parent # mynumeric
        <5>1. serverlist[t].parent \in gone /\ mynumeric \notin gone
          BY <1>3, <1>4, <3>2 DEF Tree!Others
        <5> QED BY <5>1
      <4> QED BY <1>1, <1>5, <4>1
    <3>11. myhub' # Tree!NoServer => myhub' \in Tree!Listed'
      BY <1>1, <2>3, <3>3, <3>10
    <3>12. \A s \in Tree!Listed' \ {mynumeric} : serverlist'[s].parent = mynumeric <=> s = myhub'
      BY <1>1, <2>3, <2>6, <3>3
    <3> QED BY <1>1, <1>8, <1>9, <3>2, <3>3, <3>9, <3>11, <3>12 DEF Matches
  <2> QED BY <2>7, <2>8
<1> QED BY <1>10, <1>11

-----------------------------------------------------------------------------
(* The invariant. *)

\* A handler that has taken a line and left the list as the line has it.
LEMMA LineTakenInv ==
  ASSUME Tree!TreeAssumption, ServersInv, wire # <<>>, wire' = Tail(wire), UNCHANGED <<hubview, bursting,
           behind>>,
         serverlist' \in [TreeServers -> [linkstate : Tree!States, parent :
               TreeServers \cup {Tree!NoServer}]],
         myhub' \in Tree!Others \cup {Tree!NoServer}, stack' \in Seq(Tree!Others),
         \A v, w : ViewOK(v) /\ Matches(v) /\ Changes(v, Head(wire), w) => Matches(w)'
  PROVE  ServersInv'
<1>1. Typed
  BY DEF ServersInv
<1>2. PICK views : Replay(views) /\ Matches(views[0])
  BY DEF ServersInv
<1>3. PICK v : v = views[0] /\ ViewOK(v) /\ Matches(v)
  BY <1>2 DEF Replay
<1>4. wire' \in Seq(Tree!Line)
  BY <1>1, <1>2, LineTaken
<1>5. PICK next : Replay(next)' /\ Changes(views[0], Head(wire), next[0])
  BY <1>1, <1>2, LineTaken
<1>6. PICK w : w = next[0]
  OBVIOUS
<1>7. Matches(w)'
  BY <1>3, <1>5, <1>6
<1>8. Matches(next[0])'
  BY <1>6, <1>7
<1>9. Typed'
  BY <1>1, <1>4 DEF Typed, Now, Tree!Known
<1> QED BY <1>5, <1>8, <1>9 DEF ServersInv

\* A step of the recursion: the network is as it was.
LEMMA CallInv ==
  ASSUME ServersInv, UNCHANGED Tree!network,
         serverlist' \in [TreeServers -> [linkstate : Tree!States, parent :
               TreeServers \cup {Tree!NoServer}]],
         myhub' \in Tree!Others \cup {Tree!NoServer},
         \A v : ViewOK(v) /\ Matches(v) => Matches(v)' /\ stack' \in Seq(Tree!Others)
  PROVE  ServersInv'
<1>1. Typed /\ UNCHANGED <<hubview, bursting, behind, wire>>
  BY DEF ServersInv, Tree!network
<1>2. PICK views : Replay(views) /\ Matches(views[0])
  BY DEF ServersInv
<1>3. PICK v : v = views[0] /\ ViewOK(v) /\ Matches(v)
  BY <1>2 DEF Replay
<1>4. Matches(v)' /\ stack' \in Seq(Tree!Others)
  BY <1>3
<1>5. Replay(views)'
  BY <1>1, <1>2 DEF Replay, Now
<1>6. Matches(views[0])'
  BY <1>3, <1>4
<1>7. Typed'
  BY <1>1, <1>4 DEF Typed, Now, Tree!Known
<1> QED BY <1>5, <1>6, <1>7 DEF ServersInv

LEMMA handleservermsgInv ==
  ASSUME Tree!TreeAssumption, ServersInv, Tree!handleservermsg
  PROVE  ServersInv'
<1>1. /\ Typed /\ wire # <<>> /\ wire' = Tail(wire) /\ UNCHANGED <<stack, hubview, bursting, behind>>
      /\ Head(wire).cmd = "SERVER"
  BY DEF ServersInv, Tree!handleservermsg, Tree!Receive
<1>2. Head(wire) \in Tree!Line
  BY <1>1 DEF Typed
<1>3. PICK s \in Tree!Others, p \in TreeServers, linking \in BOOLEAN :
        s = Head(wire).s /\ p = Head(wire).parent /\ linking = Head(wire).linking
  BY <1>1, <1>2, LineFacts
<1>4. /\ serverlist' \in [TreeServers -> [linkstate : Tree!States, parent : TreeServers \cup {Tree!NoServer}]]
      /\ myhub' \in Tree!Others \cup {Tree!NoServer}
  <2>1. IF s \in Tree!Listed THEN UNCHANGED <<serverlist, myhub>>
        ELSE /\ serverlist' = [serverlist EXCEPT ![s] =
                  [linkstate |-> IF linking THEN "LINKING" ELSE "PLINKING", parent |-> p]]
             /\ myhub' = IF p = mynumeric THEN s ELSE myhub
    BY <1>3 DEF Tree!handleservermsg
  <2> QED BY <1>1, <1>3, <2>1 DEF Typed, Tree!States
<1>5. \A v, w : ViewOK(v) /\ Matches(v) /\ Changes(v, Head(wire), w) => Matches(w)'
  BY <1>1, <1>2, handleservermsgList
<1>6. stack' \in Seq(Tree!Others)
  BY <1>1 DEF Typed
<1> QED BY <1>1, <1>4, <1>5, <1>6, LineTakenInv

LEMMA handleeobmsgInv ==
  ASSUME Tree!TreeAssumption, ServersInv, Tree!handleeobmsg
  PROVE  ServersInv'
<1>1. /\ Typed /\ wire # <<>> /\ wire' = Tail(wire) /\ UNCHANGED <<serverlist, myhub, hubview, bursting,
         behind>>
  BY DEF ServersInv, Tree!handleeobmsg, Tree!Receive
<1>2. Head(wire) \in Tree!Line
  BY <1>1 DEF Typed
<1>3. PICK s \in Tree!Others : s = Head(wire).s
  BY <1>2, LineFacts
<1>4. stack' \in Seq(Tree!Others)
  <2>1. stack' = <<s>> \/ stack' = stack
    BY <1>3 DEF Tree!handleeobmsg
  <2>2. <<s>> \in Seq(Tree!Others) /\ stack \in Seq(Tree!Others)
    BY <1>1 DEF Typed
  <2> QED BY <2>1, <2>2
<1>5. \A v, w : ViewOK(v) /\ Matches(v) /\ Changes(v, Head(wire), w) => Matches(w)'
  BY <1>1, <1>2, handleeobmsgList
<1>6. /\ serverlist' \in [TreeServers -> [linkstate : Tree!States, parent : TreeServers \cup {Tree!NoServer}]]
      /\ myhub' \in Tree!Others \cup {Tree!NoServer}
  BY <1>1 DEF Typed
<1> QED BY <1>1, <1>4, <1>5, <1>6, LineTakenInv

LEMMA handlesquitmsgInv ==
  ASSUME Tree!TreeAssumption, ServersInv, Tree!handlesquitmsg
  PROVE  ServersInv'
<1>1. /\ Typed /\ wire # <<>> /\ wire' = Tail(wire) /\ UNCHANGED <<serverlist, myhub, hubview, bursting,
         behind>>
  BY DEF ServersInv, Tree!handlesquitmsg, Tree!Receive
<1>2. Head(wire) \in Tree!Line
  BY <1>1 DEF Typed
<1>3. \A v, w : ViewOK(v) /\ Matches(v) /\ Changes(v, Head(wire), w) => Matches(w)'
        /\ stack' \in Seq(Tree!Others)
  BY <1>1, <1>2, handlesquitmsgList
<1>4. stack' \in Seq(Tree!Others)
  <2>1. PICK views : Replay(views) /\ Matches(views[0])
    BY DEF ServersInv
  <2>2. ViewOK(views[0])
    BY <2>1 DEF Replay
  <2>3. PICK next : Changes(views[0], Head(wire), next[0])
    BY <1>1, <2>1, LineTaken
  <2> QED BY <1>3, <2>1, <2>2, <2>3
<1>5. /\ serverlist' \in [TreeServers -> [linkstate : Tree!States, parent : TreeServers \cup {Tree!NoServer}]]
      /\ myhub' \in Tree!Others \cup {Tree!NoServer}
  BY <1>1 DEF Typed
<1>6. \A v, w : ViewOK(v) /\ Matches(v) /\ Changes(v, Head(wire), w) => Matches(w)'
  BY <1>3
<1> QED BY <1>1, <1>4, <1>5, <1>6, LineTakenInv

LEMMA completelink_downInv ==
  ASSUME Tree!TreeAssumption, ServersInv, Tree!completelink_down
  PROVE  ServersInv'
<1>1. Typed /\ UNCHANGED Tree!network /\ UNCHANGED <<serverlist, myhub>>
  BY DEF ServersInv, Tree!completelink_down, Tree!network
<1>2. \A v : ViewOK(v) /\ Matches(v) => Matches(v)' /\ stack' \in Seq(Tree!Others)
  BY <1>1, completelink_downList
<1>3. /\ serverlist' \in [TreeServers -> [linkstate : Tree!States, parent : TreeServers \cup {Tree!NoServer}]]
      /\ myhub' \in Tree!Others \cup {Tree!NoServer}
  BY <1>1 DEF Typed
<1> QED BY <1>1, <1>2, <1>3, CallInv

LEMMA completelinkInv ==
  ASSUME Tree!TreeAssumption, ServersInv, Tree!completelink
  PROVE  ServersInv'
<1>1. Typed /\ UNCHANGED Tree!network /\ UNCHANGED myhub
  BY DEF ServersInv, Tree!completelink, Tree!network
<1>2. \A v : ViewOK(v) /\ Matches(v) => Matches(v)' /\ stack' \in Seq(Tree!Others)
  BY <1>1, completelinkList
<1>3. /\ serverlist' \in [TreeServers -> [linkstate : Tree!States, parent : TreeServers \cup {Tree!NoServer}]]
      /\ myhub' \in Tree!Others \cup {Tree!NoServer}
  <2>1. PICK t : t = Tree!Top
    OBVIOUS
  <2>2. serverlist' = [serverlist EXCEPT ![t].linkstate = "LINKED"]
    BY <2>1 DEF Tree!completelink
  <2> QED BY <1>1, <2>2 DEF Typed, Tree!States
<1> QED BY <1>1, <1>2, <1>3, CallInv

LEMMA deleteserver_downInv ==
  ASSUME Tree!TreeAssumption, ServersInv, Tree!deleteserver_down
  PROVE  ServersInv'
<1>1. Typed /\ UNCHANGED Tree!network /\ UNCHANGED <<serverlist, myhub>>
  BY DEF ServersInv, Tree!deleteserver_down, Tree!network
<1>2. \A v : ViewOK(v) /\ Matches(v) => Matches(v)' /\ stack' \in Seq(Tree!Others)
  BY <1>1, deleteserver_downList
<1>3. /\ serverlist' \in [TreeServers -> [linkstate : Tree!States, parent : TreeServers \cup {Tree!NoServer}]]
      /\ myhub' \in Tree!Others \cup {Tree!NoServer}
  BY <1>1 DEF Typed
<1> QED BY <1>1, <1>2, <1>3, CallInv

LEMMA deleteserverInv ==
  ASSUME Tree!TreeAssumption, ServersInv, Tree!deleteserver
  PROVE  ServersInv'
<1>1. Typed /\ UNCHANGED Tree!network
  BY DEF ServersInv, Tree!deleteserver, Tree!network
<1>2. \A v : ViewOK(v) /\ Matches(v) => Matches(v)' /\ stack' \in Seq(Tree!Others)
  BY <1>1, deleteserverList
<1>3. /\ serverlist' \in [TreeServers -> [linkstate : Tree!States, parent : TreeServers \cup {Tree!NoServer}]]
      /\ myhub' \in Tree!Others \cup {Tree!NoServer}
  <2>1. PICK t : t = Tree!Top
    OBVIOUS
  <2>2. /\ \/ serverlist' = [serverlist EXCEPT ![t].linkstate = "SQUIT"]
           \/ serverlist' = [serverlist EXCEPT ![t] = Tree!Invalid]
        /\ myhub' = myhub \/ myhub' = Tree!NoServer
    BY <2>1 DEF Tree!deleteserver
  <2>3. serverlist \in [TreeServers -> [linkstate : Tree!States, parent : TreeServers \cup {Tree!NoServer}]]
        /\ myhub \in Tree!Others \cup {Tree!NoServer}
    BY <1>1 DEF Typed
  <2>4. Tree!Invalid \in [linkstate : Tree!States, parent : TreeServers \cup {Tree!NoServer}]
    BY ArrayFacts DEF Tree!States, Tree!Invalid
  <2>5. CASE serverlist' = [serverlist EXCEPT ![t] = Tree!Invalid]
    BY <2>2, <2>3, <2>4, <2>5
  <2>6. CASE serverlist' = [serverlist EXCEPT ![t].linkstate = "SQUIT"]
    BY <2>2, <2>3, <2>6 DEF Tree!States
  <2> QED BY <2>2, <2>5, <2>6
<1> QED BY <1>1, <1>2, <1>3, CallInv

LEMMA ServersStart ==
  ASSUME Tree!TreeAssumption, Tree!Init
  PROVE  ServersInv
<1>1. /\ serverlist = [s \in TreeServers |->
           IF s = mynumeric THEN [linkstate |-> "LINKED", parent |-> Tree!NoServer] ELSE Tree!Invalid]
      /\ myhub = Tree!NoServer /\ stack = <<>> /\ op = "none" /\ bursting = {} /\ wire = <<>>
      /\ hubview = [s \in Tree!Others |-> Tree!NoServer]
      /\ behind = [s \in Tree!Others |-> Tree!NoServer]
  BY DEF Tree!Init
<1>2. serverlist \in [TreeServers -> [linkstate : Tree!States, parent : TreeServers \cup {Tree!NoServer}]]
  BY <1>1, ArrayFacts DEF Tree!States, Tree!Invalid
<1>3. Now \in View /\ KnownIn(Now) = {} /\ Now.bursting = {}
  BY <1>1 DEF Now, View, KnownIn
<1>4. ViewOK(Now)
  BY <1>3 DEF ViewOK, Founded
<1>5. \A s \in Tree!Others : serverlist[s] = Tree!Invalid
  BY <1>1, ArrayFacts DEF Tree!Others
<1>6. Tree!Listed \ {mynumeric} = {}
  BY <1>5 DEF Tree!Listed, Tree!Others, Tree!Invalid
<1>7. Matches(Now)
  <2>1. Exact(Now)
    BY <1>3, <1>5 DEF Exact, Entry
  <2> QED BY <1>1, <1>6, <2>1, ArrayFacts DEF Matches
<1>8. PICK views : views = [i \in {0} |-> Now]
  OBVIOUS
<1>9. Replay(views) /\ views[0] = Now
  <2>1. Len(wire) = 0 /\ views[0] = Now
    BY <1>1, <1>8
  <2> QED BY <1>4, <2>1 DEF Replay
<1>10. Typed
  BY <1>1, <1>2, <1>3 DEF Typed
<1> QED BY <1>7, <1>9, <1>10 DEF ServersInv

LEMMA ServersStep ==
  ASSUME Tree!TreeAssumption, ServersInv, [Tree!Next]_(Tree!vars)
  PROVE  ServersInv'
<1>1. CASE UNCHANGED Tree!vars
  <2>1. UNCHANGED Tree!ours /\ UNCHANGED <<hubview, bursting, behind, wire>>
    BY <1>1 DEF Tree!vars, Tree!network
  <2>2. PICK views : Replay(views) /\ Matches(views[0])
    BY DEF ServersInv
  <2>3. PICK v : v = views[0] /\ Matches(v)
    BY <2>2
  <2>4. Matches(v)'
    BY <2>1, <2>3, MatchesAhead
  <2>5. Replay(views)' /\ Matches(views[0])'
    BY <2>1, <2>2, <2>3, <2>4 DEF Replay, Now
  <2>6. Typed'
    BY <2>1 DEF ServersInv, Typed, Now, Tree!ours, Tree!Known
  <2> QED BY <2>5, <2>6 DEF ServersInv
<1>2. CASE \E hub \in Tree!Others : Tree!LinkUp(hub)
  BY <1>2, LinkUpInv
<1>3. CASE \E s \in Tree!Others, p \in Tree!Others, linking \in BOOLEAN : Tree!NetJoin(s, p, linking)
  BY <1>3, NetJoinInv
<1>4. CASE \E s \in Tree!Others : Tree!NetEndOfBurst(s) \/ Tree!NetSplit(s)
  BY <1>4, NetEndOfBurstInv, NetSplitInv
<1>5. CASE Tree!handleservermsg
  BY <1>5, handleservermsgInv
<1>6. CASE Tree!handleeobmsg
  BY <1>6, handleeobmsgInv
<1>7. CASE Tree!handlesquitmsg
  BY <1>7, handlesquitmsgInv
<1>8. CASE Tree!handledisconnect
  BY <1>8, handledisconnectInv
<1>9. CASE Tree!completelink_down
  BY <1>9, completelink_downInv
<1>10. CASE Tree!completelink
  BY <1>10, completelinkInv
<1>11. CASE Tree!deleteserver_down
  BY <1>11, deleteserver_downInv
<1>12. CASE Tree!deleteserver
  BY <1>12, deleteserverInv
<1> QED BY <1>1, <1>2, <1>3, <1>4, <1>5, <1>6, <1>7, <1>8, <1>9, <1>10, <1>11, <1>12 DEF Tree!Next

\* What the list says of a server's parent.
LEMMA ExactParents ==
  ASSUME Tree!TreeAssumption, NEW v, ViewOK(v), Exact(v),
         serverlist[mynumeric] = [linkstate |-> "LINKED", parent |-> Tree!NoServer],
         NEW s \in Tree!Listed \ {mynumeric}
  PROVE  /\ s \in KnownIn(v) /\ serverlist[s].parent = v.net[s] /\ serverlist[s].parent \in Tree!Listed
         /\ serverlist[serverlist[s].parent].linkstate # "SQUIT"
         /\ serverlist[s].linkstate = "PLINKING" =>
              serverlist[serverlist[s].parent].linkstate \in {"LINKING", "PLINKING"}
<1>1. Tree!Listed = KnownIn(v) \cup {mynumeric} /\ serverlist[mynumeric].linkstate = "LINKED"
  BY ListedIsKnown
<1>2. s \in KnownIn(v)
  BY <1>1
<1>3. \A t \in KnownIn(v) : /\ serverlist[t].linkstate = LinkState(v, t) /\ serverlist[t].parent = v.net[t]
                            /\ LinkState(v, t) \in {"LINKING", "PLINKING", "LINKED"}
  BY EntryFacts DEF Exact, KnownIn
<1>4. PICK p : p = v.net[s]
  OBVIOUS
<1>5. p = mynumeric \/ p \in KnownIn(v)
  BY <1>2, <1>4 DEF ViewOK
<1>6. serverlist[s].parent = p /\ p \in Tree!Listed /\ serverlist[p].linkstate # "SQUIT"
  BY <1>1, <1>2, <1>3, <1>4, <1>5
<1>7. ASSUME serverlist[s].linkstate = "PLINKING" PROVE serverlist[p].linkstate \in {"LINKING", "PLINKING"}
  <2>1. v.behind[s] \in v.bursting
    BY <1>2, <1>3, <1>7 DEF LinkState, Waits
  <2>2. v.behind[s] # Tree!NoServer
    BY <2>1, ArrayFacts DEF ViewOK, KnownIn
  <2>3. v.behind[s] = p \/ (p \in KnownIn(v) /\ v.behind[p] = v.behind[s])
    BY <1>2, <1>4, <2>2 DEF ViewOK
  <2>4. p \in KnownIn(v) /\ LinkState(v, p) # "LINKED"
    BY <2>1, <2>3 DEF LinkState, Waits, ViewOK
  <2> QED BY <1>3, <2>4
<1> QED BY <1>2, <1>4, <1>6, <1>7

\* completelink() at work: the list has every server, and none is lost.
LEMMA CompletingParents ==
  ASSUME Tree!TreeAssumption, NEW v, ViewOK(v), Completing(v), Typed,
         serverlist[mynumeric] = [linkstate |-> "LINKED", parent |-> Tree!NoServer],
         NEW s \in Tree!Listed \ {mynumeric}
  PROVE  /\ serverlist[s].parent \in Tree!Listed
         /\ serverlist[serverlist[s].parent].linkstate # "SQUIT"
<1>1. /\ Late(v) \subseteq KnownIn(v)
      /\ serverlist[stack[1]] = [linkstate |-> "LINKING", parent |-> v.net[stack[1]]]
      /\ \A t \in Late(v) \ {stack[1]} : serverlist[t] = [linkstate |-> "PLINKING", parent |-> v.net[t]]
  BY DEF Completing
<1>2. ASSUME NEW t \in KnownIn(v)
      PROVE  /\ serverlist[t].linkstate \in {"LINKING", "PLINKING", "LINKED"}
                 /\ serverlist[t].parent = v.net[t]
             /\ t \in Tree!Listed
  <2>1. t \in Tree!Others /\ t \in TreeServers
    BY ArrayFacts DEF KnownIn
  <2>2. CASE t \in Late(v)
    <3>1. \/ serverlist[t] = [linkstate |-> "LINKING", parent |-> v.net[t]]
          \/ serverlist[t] = [linkstate |-> "PLINKING", parent |-> v.net[t]]
      BY <1>1, <2>2
    <3>2. serverlist[t].linkstate \in {"LINKING", "PLINKING"} /\ serverlist[t].parent = v.net[t]
      BY <3>1
    <3> QED BY <2>1, <3>2 DEF Tree!Listed
  <2>3. CASE t \notin Late(v)
    <3>1. serverlist[t] = Entry(v, t)
      BY <2>1, <2>3 DEF Late
    <3> QED BY <2>1, <3>1, EntryFacts DEF Tree!Listed
  <2> QED BY <2>2, <2>3
<1>3. s \in KnownIn(v)
  <2>1. SUFFICES ASSUME s \notin KnownIn(v) PROVE FALSE
    OBVIOUS
  <2>2. s \in Tree!Others /\ serverlist[s] = Entry(v, s)
    BY <1>1, <2>1 DEF Late, Tree!Listed, Tree!Others
  <2> QED BY <2>1, <2>2, EntryFacts DEF Tree!Listed
<1>4. PICK p : p = v.net[s]
  OBVIOUS
<1>5. p = mynumeric \/ p \in KnownIn(v)
  BY <1>3, <1>4 DEF ViewOK
<1>6. mynumeric \in Tree!Listed /\ serverlist[mynumeric].linkstate = "LINKED"
  BY ArrayFacts DEF Tree!Listed
<1> QED BY <1>2, <1>3, <1>4, <1>5, <1>6

\* deleteserver() at work: a server has its parent as long as it is there itself.
LEMMA DeletingParents ==
  ASSUME Tree!TreeAssumption, NEW v, ViewOK(v), Deleting(v), Typed,
         serverlist[mynumeric] = [linkstate |-> "LINKED", parent |-> Tree!NoServer],
         NEW s \in Tree!Listed \ {mynumeric}
  PROVE  /\ serverlist[s].parent \in Tree!Listed
         /\ serverlist[serverlist[s].parent].linkstate # "SQUIT"
<1>1. PICK gone : gone = Doomed(v)
  OBVIOUS
<1>2. /\ Path(gone) /\ gone \subseteq Tree!Listed
      /\ \A t \in Tree!Others \ gone : serverlist[t] = Entry(v, t)
      /\ \A t \in gone \ {stack[1]} : serverlist[t].parent \in gone
      /\ serverlist[stack[1]].parent \in Tree!Listed \ gone
      /\ \A t \in gone : serverlist[t].linkstate = "SQUIT" => t = Tree!Top /\ Tree!Children(t) = {}
  BY <1>1 DEF Deleting, Doomed
<1>3. ASSUME NEW t \in Tree!Listed \ gone, t # mynumeric
      PROVE  t \in KnownIn(v) /\ serverlist[t].linkstate # "SQUIT" /\ serverlist[t].parent = v.net[t]
  <2>1. t \in Tree!Others /\ t \in KnownIn(v)
    BY <1>1, <1>3 DEF Doomed, Tree!Listed, Tree!Others
  <2> QED BY <1>2, <1>3, <2>1, EntryFacts
<1>4. mynumeric \in Tree!Listed /\ serverlist[mynumeric].linkstate = "LINKED"
  BY ArrayFacts DEF Tree!Listed
<1>5. PICK p : p = serverlist[s].parent
  OBVIOUS
<1>6. p \in Tree!Listed
  <2>1. CASE s \in gone
    BY <1>2, <1>5, <2>1
  <2>2. CASE s \notin gone
    <3>1. s \in KnownIn(v) /\ p = v.net[s]
      BY <1>3, <1>5, <2>2
    <3>2. p = mynumeric \/ p \in KnownIn(v)
      BY <3>1 DEF ViewOK
    <3>3. ASSUME p \in KnownIn(v) PROVE p \in Tree!Listed
      <4>1. p \in Tree!Others /\ p \in TreeServers /\ p \notin gone
        BY <1>1, <3>3, ArrayFacts DEF KnownIn, Doomed
      <4>2. serverlist[p].linkstate # "INVALID"
        BY <1>2, <3>3, <4>1, EntryFacts
      <4> QED BY <4>1, <4>2 DEF Tree!Listed
    <3> QED BY <1>4, <3>2, <3>3
  <2> QED BY <2>1, <2>2
<1>7. serverlist[p].linkstate # "SQUIT"
  <2>1. CASE p \in gone
    <3>1. s \in Tree!Children(p)
      BY <1>5 DEF Tree!Children
    <3> QED BY <1>2, <2>1, <3>1
  <2>2. CASE p \notin gone
    BY <1>3, <1>4, <1>6, <2>2
  <2> QED BY <2>1, <2>2
<1> QED BY <1>5, <1>6, <1>7

LEMMA InvRooted ==
  ASSUME Tree!TreeAssumption, ServersInv
  PROVE  Tree!Rooted
<1>1. PICK views : Replay(views) /\ Matches(views[0])
  BY DEF ServersInv
<1>2. PICK v : v = views[0] /\ ViewOK(v) /\ Matches(v)
  BY <1>1 DEF Replay
<1>3. /\ serverlist[mynumeric] = [linkstate |-> "LINKED", parent |-> Tree!NoServer]
      /\ \A s \in Tree!Listed \ {mynumeric} : serverlist[s].parent = mynumeric <=> s = myhub
  BY <1>2 DEF Matches
<1>4. \/ op = "none" /\ stack = <<>> /\ Exact(v)
      \/ op = "complete" /\ stack # <<>> /\ Completing(v)
      \/ op \in {"squit", "disconnect"} /\ stack # <<>> /\ Deleting(v)
  BY <1>2 DEF Matches, Completing, Deleting, Path
<1>5. Tree!TypeOK
  <2>1. op \in {"none", "complete", "squit", "disconnect"} /\ (stack = <<>> <=> op = "none")
    BY <1>4
  <2>2. Typed
    BY DEF ServersInv
  <2>3. hubview \in [Tree!Others -> TreeServers \cup {Tree!NoServer}]
    BY <2>2, NowFacts
  <2> QED BY <2>1, <2>2, <2>3 DEF Typed, Tree!TypeOK
<1>6. ASSUME NEW s \in Tree!Listed \ {mynumeric}
      PROVE  /\ serverlist[s].parent \in Tree!Listed
             /\ serverlist[serverlist[s].parent].linkstate # "SQUIT"
             /\ op = "none" /\ serverlist[s].linkstate = "PLINKING" =>
                  serverlist[serverlist[s].parent].linkstate \in {"LINKING", "PLINKING"}
  <2>1. Typed
    BY DEF ServersInv
  <2>2. CASE op = "none"
    BY <1>2, <1>3, <1>4, <2>2, ExactParents
  <2>3. CASE op = "complete"
    BY <1>2, <1>3, <1>4, <2>1, <2>3, CompletingParents
  <2>4. CASE op \in {"squit", "disconnect"}
    BY <1>2, <1>3, <1>4, <2>1, <2>4, DeletingParents
  <2> QED BY <1>4, <2>2, <2>3, <2>4
<1> QED BY <1>3, <1>5, <1>6 DEF Tree!Rooted

LEMMA InvMirror ==
  ASSUME Tree!TreeAssumption, ServersInv
  PROVE  Tree!Mirror
<1> SUFFICES ASSUME op = "none", wire = <<>>, NEW s \in Tree!Others
             PROVE  serverlist[s] =
                      IF hubview[s] = Tree!NoServer THEN Tree!Invalid
                      ELSE [parent |-> hubview[s],
                            linkstate |-> IF s \in bursting THEN "LINKING"
                                          ELSE IF behind[s] # Tree!NoServer /\ behind[s] \in bursting
                                                THEN "PLINKING"
                                          ELSE "LINKED"]
  BY DEF Tree!Mirror
<1>1. PICK views : Replay(views) /\ Matches(views[0])
  BY DEF ServersInv
<1>2. views[0] = Now
  <2>1. Len(wire) = 0
    OBVIOUS
  <2> QED BY <1>1, <2>1 DEF Replay
<1>3. Exact(Now)
  BY <1>1, <1>2 DEF Matches
<1>4. /\ Now.net = hubview /\ Now.bursting = bursting /\ Now.behind = behind
      /\ bursting \subseteq Tree!Others
  BY NowFacts DEF ServersInv
<1>5. serverlist[s] = Entry(Now, s) /\ Tree!NoServer \notin bursting
  BY <1>3, <1>4, ArrayFacts DEF Exact
<1>6. LinkState(Now, s) = IF s \in bursting THEN "LINKING"
                          ELSE IF behind[s] # Tree!NoServer /\ behind[s] \in bursting THEN "PLINKING"
                          ELSE "LINKED"
  BY <1>4, <1>5 DEF LinkState, Waits
<1> QED BY <1>4, <1>5, <1>6 DEF Entry, KnownIn

-----------------------------------------------------------------------------
\* deleteserver(), completelink(): at every hook the servers in the list hang on us as a tree. The
\* parent of each is in the list and not about to be erased, only our hub has us for a parent, and
\* between two lines who waits for a burst has a parent who bursts or waits too.
THEOREM ListRooted ==
  ASSUME Tree!TreeAssumption
  PROVE  Tree!Spec => [](Tree!Rooted /\ Rooted)
<1>1. Tree!Init => ServersInv
  BY ServersStart
<1>2. ServersInv /\ [Tree!Next]_(Tree!vars) => ServersInv'
  BY ServersStep
<1>3. ServersInv => Tree!Rooted /\ Rooted
  BY InvRooted DEF Rooted
<1> QED BY <1>1, <1>2, <1>3, PTL DEF Tree!Spec

\* handleservermsg(), handleeobmsg(), handlesquitmsg(), handledisconnect(): whatever happens on the
\* network and however long the lines are on their way, once all are handled the list is the hub's
\* tree, and it has as linked the servers that are done with the burst they came in.
THEOREM ListMirrorsHub ==
  ASSUME Tree!TreeAssumption
  PROVE  Tree!Spec => [](Tree!Mirror /\ Mirror)
<1>1. Tree!Init => ServersInv
  BY ServersStart
<1>2. ServersInv /\ [Tree!Next]_(Tree!vars) => ServersInv'
  BY ServersStep
<1>3. ServersInv => Tree!Mirror /\ Mirror
  BY InvMirror DEF Mirror
<1> QED BY <1>1, <1>2, <1>3, PTL DEF Tree!Spec

-----------------------------------------------------------------------------
(* The scanner's queue. *)

\* What the functions of ProxyScan map.
Job == [node : Node, kind : Scanner!Kinds, class : Scanner!Classes, when : Nat]
ScanState ==
  [normal : Seq(Job), prio : Seq(Job), scans : [Scanner!Places -> Scanner!Scan \cup {NULL}],
   alarm : [Scanner!Places -> {0, 1}], active : Nat,
   cache : [Node -> Scanner!CachedHost \cup {NULL}], refs : [Node -> Int]]

Running(st) == {p \in Scanner!Places : st.scans[p] # NULL}
RunningAt(st, n) == {p \in Scanner!Places : st.scans[p] # NULL /\ st.scans[p].node = n}
JobsAt(queue, n) == {i \in DOMAIN queue : queue[i].node = n}

\* The references that scans and the cache have to an address.
Owed(st, n) ==
  Cardinality(RunningAt(st, n)) + Cardinality(JobsAt(st.normal, n)) + Cardinality(JobsAt(st.prio, n))
  + (IF st.cache[n] # NULL THEN 1 ELSE 0)

\* The books balance, but for what nicks and the function at work hold.
Balanced(st, held) ==
  /\ st \in ScanState
  /\ st.active = Cardinality(Running(st)) /\ st.active <= maxscans
  /\ \A p \in Scanner!Places : st.alarm[p] = IF st.scans[p] # NULL THEN 1 ELSE 0
  /\ \A n \in Node : st.refs[n] = Owed(st, n) + held[n]

-----------------------------------------------------------------------------
(* Counting. *)

\* A set of numbers that is not empty has a least one: what induction over numbers is made of.
LEMMA LeastNat ==
  ASSUME NEW T, T \subseteq Nat, T # {}
  PROVE  \E x \in T : \A y \in T : x <= y
<1> DEFINE R == OpToRel(<, Nat)
<1>1. IsWellFoundedOn(R, Nat)
  BY NatLessThanWellFounded
<1>2. \A x, y \in Nat : x < y => <<x, y>> \in R
  BY DEF OpToRel
<1> HIDE DEF R
<1>3. \E x \in T : \A y \in T : ~ (<<y, x>> \in R)
  BY <1>1, WFMin
<1>4. \A x, y \in Nat : ~(y < x) => x <= y
  OBVIOUS
<1> QED BY <1>2, <1>3, <1>4

\* One sequence has an element more than the other.
Longer(q, r, pos) ==
  /\ Len(r) = Len(q) + 1 /\ pos \in 1 .. Len(r)
  /\ \A i \in 1 .. Len(q) : IF i < pos THEN r[i] = q[i] ELSE r[i + 1] = q[i]

LEMMA JobsFinite ==
  ASSUME NEW q \in Seq(Job), NEW n
  PROVE  IsFiniteSet(JobsAt(q, n)) /\ Cardinality(JobsAt(q, n)) \in Nat
<1>1. IsFiniteSet(1 .. Len(q)) /\ JobsAt(q, n) \subseteq 1 .. Len(q)
  BY FS_Interval DEF JobsAt
<1> QED BY <1>1, FS_Subset, FS_CardinalityType

LEMMA LongerCounts ==
  ASSUME NEW q \in Seq(Job), NEW r \in Seq(Job), NEW pos, Longer(q, r, pos), NEW n
  PROVE  Cardinality(JobsAt(r, n)) = Cardinality(JobsAt(q, n)) + (IF r[pos].node = n THEN 1 ELSE 0)
<1> DEFINE f == [i \in JobsAt(q, n) |-> IF i < pos THEN i ELSE i + 1]
<1>1. /\ Len(r) = Len(q) + 1 /\ pos \in 1 .. Len(r) /\ Len(q) \in Nat
      /\ \A i \in 1 .. Len(q) : IF i < pos THEN r[i] = q[i] ELSE r[i + 1] = q[i]
      /\ DOMAIN q = 1 .. Len(q) /\ DOMAIN r = 1 .. Len(r)
  BY DEF Longer
<1>2. \A i \in JobsAt(q, n) : i \in 1 .. Len(q) /\ q[i].node = n
  BY <1>1 DEF JobsAt
<1>3. \A i \in JobsAt(q, n) : f[i] \in JobsAt(r, n) \ {pos}
  BY <1>1, <1>2 DEF JobsAt
<1>4. \A i, j \in JobsAt(q, n) : f[i] = f[j] => i = j
  BY <1>1, <1>2
<1>5. ASSUME NEW k \in JobsAt(r, n) \ {pos} PROVE \E i \in JobsAt(q, n) : f[i] = k
  <2>1. k \in 1 .. Len(r) /\ r[k].node = n /\ k # pos
    BY <1>1, <1>5 DEF JobsAt
  <2>2. CASE k < pos
    <3>1. k \in 1 .. Len(q) /\ q[k].node = n
      BY <1>1, <2>1, <2>2
    <3>2. k \in JobsAt(q, n) /\ f[k] = k
      BY <1>1, <3>1, <2>2 DEF JobsAt
    <3> QED BY <3>2
  <2>3. CASE k > pos
    <3>1. k - 1 \in 1 .. Len(q) /\ ~(k - 1 < pos) /\ k - 1 + 1 = k
      BY <1>1, <2>1, <2>3
    <3>2. q[k - 1] = r[k]
      BY <1>1, <3>1
    <3>3. k - 1 \in JobsAt(q, n) /\ f[k - 1] = k
      BY <1>1, <2>1, <3>1, <3>2 DEF JobsAt
    <3> QED BY <3>3
  <2> QED BY <1>1, <2>1, <2>2, <2>3
<1>6. ExistsBijection(JobsAt(q, n), JobsAt(r, n) \ {pos})
  <2>1. f \in Bijection(JobsAt(q, n), JobsAt(r, n) \ {pos})
    BY <1>3, <1>4, <1>5 DEF Bijection, Injection, Surjection, IsInjective
  <2> QED BY <2>1 DEF ExistsBijection
<1>7. IsFiniteSet(JobsAt(q, n)) /\ IsFiniteSet(JobsAt(r, n)) /\ Cardinality(JobsAt(r, n)) \in Nat
  BY JobsFinite
<1>8. Cardinality(JobsAt(q, n)) = Cardinality(JobsAt(r, n) \ {pos})
  BY <1>6, <1>7, FS_Bijection
<1>9. pos \in JobsAt(r, n) <=> r[pos].node = n
  BY <1>1 DEF JobsAt
<1>10. Cardinality(JobsAt(r, n) \ {pos}) =
         IF pos \in JobsAt(r, n) THEN Cardinality(JobsAt(r, n)) - 1 ELSE Cardinality(JobsAt(r, n))
  BY <1>7, FS_RemoveElement
<1> QED BY <1>7, <1>8, <1>9, <1>10

\* Behind the last, in front of the first, and in between.
LEMMA AppendLonger ==
  ASSUME NEW q \in Seq(Job), NEW job \in Job
  PROVE  /\ Append(q, job) \in Seq(Job) /\ Longer(q, Append(q, job), Len(q) + 1)
         /\ Append(q, job)[Len(q) + 1] = job /\ Append(q, job) # <<>>
  BY DEF Longer

LEMMA TailLonger ==
  ASSUME NEW q \in Seq(Job), q # <<>>
  PROVE  Tail(q) \in Seq(Job) /\ Longer(Tail(q), q, 1) /\ q[1] = Head(q) /\ Head(q) \in Job
  BY DEF Longer

\* The sizes that the instance counts are sizes.
LEMMA SameCardinality == \A S : Scanner!Cardinality(S) = Cardinality(S)
  BY DEF Scanner!Cardinality, Cardinality

\* What concatenation does.
LEMMA ConcatFacts ==
  ASSUME NEW S, NEW c \in Seq(S), NEW b \in Seq(S)
  PROVE  /\ c \o b \in Seq(S) /\ Len(c \o b) = Len(c) + Len(b)
         /\ \A i \in 1 .. Len(c) : (c \o b)[i] = c[i]
         /\ \A i \in 1 .. Len(b) : (c \o b)[Len(c) + i] = b[i]
  OBVIOUS

LEMMA InsertLonger ==
  ASSUME NEW q \in Seq(Job), NEW job \in Job
  PROVE  \E pos \in Nat : /\ Scanner!InOrder(q, job) \in Seq(Job) /\ Longer(q, Scanner!InOrder(q, job), pos)
                          /\ Scanner!InOrder(q, job)[pos] = job
<1> DEFINE S == {i \in DOMAIN q : q[i].when <= job.when}
<1>1. Len(q) \in Nat /\ DOMAIN q = 1 .. Len(q) /\ S \subseteq 1 .. Len(q)
  OBVIOUS
<1>2. IsFiniteSet(1 .. Len(q)) /\ Cardinality(1 .. Len(q)) = Len(q)
  <2>1. IsFiniteSet(1 .. Len(q)) /\ Cardinality(1 .. Len(q)) = IF 1 > Len(q) THEN 0 ELSE Len(q) - 1 + 1
    BY <1>1, FS_Interval
  <2> QED BY <1>1, <2>1
<1>3. Cardinality(S) \in Nat /\ Cardinality(S) <= Len(q)
  BY <1>1, <1>2, FS_Subset, FS_CardinalityType
<1>k. PICK k \in Nat : k = Cardinality(S) /\ k <= Len(q)
  BY <1>3
<1>0. Scanner!InOrder(q, job) = SubSeq(q, 1, (k + 1) - 1) \o <<job>> \o SubSeq(q, k + 1, Len(q))
  BY <1>k, SameCardinality DEF Scanner!InOrder, Scanner!InsertAt
<1>n. Len(q) \in Nat /\ k \in Nat /\ k <= Len(q)
  BY <1>1, <1>k
<1> HIDE DEF S
<1> DEFINE a == SubSeq(q, 1, k)
           b == SubSeq(q, k + 1, Len(q))
<1>4. a \in Seq(Job) /\ Len(a) = k /\ \A i \in 1 .. k : a[i] = q[i]
  BY <1>n
<1>5. b \in Seq(Job) /\ Len(b) = Len(q) - k /\ \A i \in 1 .. Len(q) - k : b[i] = q[k + i]
  BY <1>n
<1>6. Scanner!InOrder(q, job) = a \o <<job>> \o b
  <2>1. (k + 1) - 1 = k
    BY <1>n
  <2> QED BY <1>0, <2>1
<1> HIDE DEF a, b
<1> DEFINE c == a \o <<job>>
<1>7. c \in Seq(Job) /\ Len(c) = k + 1 /\ (\A i \in 1 .. k : c[i] = q[i]) /\ c[k + 1] = job
  BY <1>k, <1>4
<1>8. Scanner!InOrder(q, job) = c \o b
  BY <1>6
<1> HIDE DEF c
<1> DEFINE r == c \o b
<1>9. /\ r \in Seq(Job) /\ Len(r) = Len(c) + Len(b)
      /\ \A i \in 1 .. Len(c) : r[i] = c[i]
      /\ \A i \in 1 .. Len(b) : r[Len(c) + i] = b[i]
  <2>1. c \in Seq(Job) /\ b \in Seq(Job)
    BY <1>5, <1>7
  <2> QED BY <2>1, ConcatFacts
<1> HIDE DEF r
<1>10. Len(r) = Len(q) + 1 /\ r[k + 1] = job /\ k + 1 \in 1 .. Len(r) /\ k + 1 \in Nat
  BY <1>1, <1>k, <1>5, <1>7, <1>9
<1>11. ASSUME NEW i \in 1 .. Len(q) PROVE IF i < k + 1 THEN r[i] = q[i] ELSE r[i + 1] = q[i]
  <2>1. CASE i < k + 1
    <3>1. i \in 1 .. k /\ i \in 1 .. Len(c)
      BY <1>k, <1>7, <2>1
    <3> QED BY <1>7, <1>9, <2>1, <3>1
  <2>2. CASE i >= k + 1
    <3>1. i - k \in 1 .. Len(b) /\ i - k \in 1 .. Len(q) - k /\ Len(c) + (i - k) = i + 1 /\ k + (i - k) = i
      BY <1>1, <1>k, <1>5, <1>7, <2>2
    <3>2. r[Len(c) + (i - k)] = b[i - k] /\ b[i - k] = q[k + (i - k)]
      BY <1>5, <1>9, <3>1
    <3>3. ~(i < k + 1)
      BY <1>k, <2>2
    <3> QED BY <3>1, <3>2, <3>3
  <2> QED BY <1>k, <2>1, <2>2
<1>12. Longer(q, r, k + 1)
  BY <1>10, <1>11 DEF Longer
<1>13. Scanner!InOrder(q, job) = r
  BY <1>8 DEF r
<1> QED BY <1>9, <1>10, <1>12, <1>13

-----------------------------------------------------------------------------
(* Functions that count up. *)

\* From zero up to a number.
LEMMA Upto ==
  ASSUME NEW n \in Nat, NEW T, 0 \in T, \A k \in 0 .. n : k \in T /\ k < n => k + 1 \in T
  PROVE  \A k \in 0 .. n : k \in T
<1> DEFINE M == {k \in 0 .. n : k \notin T}
<1>1. SUFFICES ASSUME M # {} PROVE FALSE
  OBVIOUS
<1>2. M \subseteq Nat
  OBVIOUS
<1>3. PICK m \in M : \A k \in M : m <= k
  BY <1>1, <1>2, LeastNat
<1>4. m \in 0 .. n /\ m \notin T /\ m # 0 /\ m - 1 \in 0 .. n /\ m - 1 < n /\ m - 1 + 1 = m
  OBVIOUS
<1>5. m - 1 \in T
  <2>1. ~(m <= m - 1)
    BY <1>4
  <2> QED BY <1>3, <1>4, <2>1
<1> QED BY <1>4, <1>5

\* The states that startqueuedscans() goes through.
Round(st, bad, f, m) == f = [k \in 0 .. m |-> IF k = 0 THEN st ELSE Scanner!StartNext(f[k - 1], bad)]

LEMMA Rounds ==
  ASSUME NEW st, NEW bad, NEW n \in Nat
  PROVE  \E f : Round(st, bad, f, n)
<1> DEFINE T == {m \in 0 .. n : \E f : Round(st, bad, f, m)}
<1>1. 0 \in T
  <2>1. Round(st, bad, [k \in 0 .. 0 |-> st], 0)
    BY DEF Round
  <2> QED BY <2>1
<1>2. ASSUME NEW m \in 0 .. n, m \in T, m < n PROVE m + 1 \in T
  <2>1. PICK f : Round(st, bad, f, m)
    BY <1>2
  <2> DEFINE g == [k \in 0 .. m + 1 |-> IF k <= m THEN f[k] ELSE Scanner!StartNext(f[m], bad)]
             h == [k \in 0 .. m + 1 |-> IF k = 0 THEN st ELSE Scanner!StartNext(g[k - 1], bad)]
  <2>2. ASSUME NEW k \in 0 .. m + 1 PROVE g[k] = h[k]
    <3>1. CASE k = 0
      <4>1. f[0] = st /\ 0 <= m
        BY <2>1 DEF Round
      <4> QED BY <3>1, <4>1
    <3>2. CASE k # 0 /\ k <= m
      <4>1. k - 1 \in 0 .. m + 1 /\ k - 1 <= m /\ k \in 0 .. m
        BY <3>2
      <4>2. f[k] = Scanner!StartNext(f[k - 1], bad)
        BY <2>1, <3>2, <4>1 DEF Round
      <4>3. g[k] = f[k] /\ g[k - 1] = f[k - 1]
        BY <3>2, <4>1
      <4>4. h[k] = Scanner!StartNext(g[k - 1], bad)
        BY <3>2
      <4> QED BY <4>2, <4>3, <4>4
    <3>3. CASE k = m + 1
      <4>1. k - 1 = m /\ k # 0 /\ ~(k <= m) /\ m \in 0 .. m + 1 /\ m <= m
        BY <3>3
      <4>2. g[k] = Scanner!StartNext(f[m], bad) /\ g[m] = f[m]
        BY <4>1
      <4>3. h[k] = Scanner!StartNext(g[m], bad)
        BY <4>1
      <4> QED BY <4>2, <4>3
    <3> QED BY <3>1, <3>2, <3>3
  <2>3. g = h
    BY <2>2
  <2>4. Round(st, bad, g, m + 1)
    BY <2>3 DEF Round
  <2> QED BY <1>2, <2>4
<1>3. n \in 0 .. n
  OBVIOUS
<1> HIDE DEF T
<1>4. n \in T
  BY <1>1, <1>2, <1>3, Upto
<1> QED BY <1>4 DEF T

LEMMA RoundsOf ==
  ASSUME NEW st, NEW bad, Len(st.normal) + Len(st.prio) \in Nat
  PROVE  \E f : /\ Round(st, bad, f, Len(st.normal) + Len(st.prio))
                /\ Scanner!startqueuedscans(st, bad) = f[Len(st.normal) + Len(st.prio)]
<1> DEFINE n == Len(st.normal) + Len(st.prio)
           f == CHOOSE f : f = [k \in 0 .. n |-> IF k = 0 THEN st ELSE Scanner!StartNext(f[k - 1], bad)]
<1>1. Scanner!startqueuedscans(st, bad) = f[n]
  BY DEF Scanner!startqueuedscans
<1>2. \E g : g = [k \in 0 .. n |-> IF k = 0 THEN st ELSE Scanner!StartNext(g[k - 1], bad)]
  <2>1. PICK g : Round(st, bad, g, n)
    BY Rounds
  <2> QED BY <2>1 DEF Round
<1>3. f = [k \in 0 .. n |-> IF k = 0 THEN st ELSE Scanner!StartNext(f[k - 1], bad)]
  BY <1>2
<1> QED BY <1>1, <1>3 DEF Round

\* The states that QueueAll goes through.
Queueing(st, n, kinds, class, when, bad, f, m) ==
  f = [k \in 0 .. m |->
         IF k = 0 THEN st ELSE Scanner!queuescan(f[k - 1], n, kinds[k], class, when, bad)]

LEMMA Queueings ==
  ASSUME NEW st, NEW n, NEW kinds, NEW class, NEW when, NEW bad, NEW m \in Nat
  PROVE  \E f : Queueing(st, n, kinds, class, when, bad, f, m)
<1> DEFINE Ok(f, j) == Queueing(st, n, kinds, class, when, bad, f, j)
           T == {j \in 0 .. m : \E f : Ok(f, j)}
<1>1. 0 \in T
  <2>1. Ok([k \in 0 .. 0 |-> st], 0)
    BY DEF Queueing
  <2> QED BY <2>1
<1>2. ASSUME NEW j \in 0 .. m, j \in T, j < m PROVE j + 1 \in T
  <2>1. PICK f : Ok(f, j)
    BY <1>2
  <2> DEFINE g == [k \in 0 .. j + 1 |-> IF k <= j THEN f[k]
                                        ELSE Scanner!queuescan(f[j], n, kinds[j + 1], class, when, bad)]
             h == [k \in 0 .. j + 1 |-> IF k = 0 THEN st
                                        ELSE Scanner!queuescan(g[k - 1], n, kinds[k], class, when, bad)]
  <2>2. ASSUME NEW k \in 0 .. j + 1 PROVE g[k] = h[k]
    <3>1. CASE k = 0
      <4>1. f[0] = st /\ 0 <= j
        BY <2>1 DEF Queueing
      <4> QED BY <3>1, <4>1
    <3>2. CASE k # 0 /\ k <= j
      <4>1. k - 1 \in 0 .. j + 1 /\ k - 1 <= j /\ k \in 0 .. j
        BY <3>2
      <4>2. f[k] = Scanner!queuescan(f[k - 1], n, kinds[k], class, when, bad)
        BY <2>1, <3>2, <4>1 DEF Queueing
      <4>3. g[k] = f[k] /\ g[k - 1] = f[k - 1]
        BY <3>2, <4>1
      <4>4. h[k] = Scanner!queuescan(g[k - 1], n, kinds[k], class, when, bad)
        BY <3>2
      <4> QED BY <4>2, <4>3, <4>4
    <3>3. CASE k = j + 1
      <4>1. k - 1 = j /\ k # 0 /\ ~(k <= j) /\ j \in 0 .. j + 1 /\ j <= j
        BY <3>3
      <4>2. g[k] = Scanner!queuescan(f[j], n, kinds[k], class, when, bad) /\ g[j] = f[j]
        BY <3>3, <4>1
      <4>3. h[k] = Scanner!queuescan(g[j], n, kinds[k], class, when, bad)
        BY <4>1
      <4> QED BY <4>2, <4>3
    <3> QED BY <3>1, <3>2, <3>3
  <2>3. g = h
    BY <2>2
  <2>4. Ok(g, j + 1)
    BY <2>3 DEF Queueing
  <2> QED BY <1>2, <2>4
<1>3. m \in 0 .. m
  OBVIOUS
<1> HIDE DEF T
<1>4. m \in T
  BY <1>1, <1>2, <1>3, Upto
<1> QED BY <1>4 DEF T

LEMMA QueueingOf ==
  ASSUME NEW st, NEW n, NEW kinds, NEW class, NEW when, NEW bad, Len(kinds) \in Nat
  PROVE  \E f : /\ Queueing(st, n, kinds, class, when, bad, f, Len(kinds))
                /\ Scanner!QueueAll(st, n, kinds, class, when, bad) = f[Len(kinds)]
<1> DEFINE m == Len(kinds)
           f == CHOOSE f : f = [k \in 0 .. m |-> IF k = 0 THEN st
                                  ELSE Scanner!queuescan(f[k - 1], n, kinds[k], class, when, bad)]
<1>1. Scanner!QueueAll(st, n, kinds, class, when, bad) = f[m]
  BY DEF Scanner!QueueAll
<1>2. \E g : g = [k \in 0 .. m |-> IF k = 0 THEN st
                                  ELSE Scanner!queuescan(g[k - 1], n, kinds[k], class, when, bad)]
  <2>1. PICK g : Queueing(st, n, kinds, class, when, bad, g, m)
    BY Queueings
  <2> QED BY <2>1 DEF Queueing
<1>3. f = [k \in 0 .. m |-> IF k = 0 THEN st
                            ELSE Scanner!queuescan(f[k - 1], n, kinds[k], class, when, bad)]
  BY <1>2
<1> QED BY <1>1, <1>3 DEF Queueing

-----------------------------------------------------------------------------
(* A scan starts, waits, and is over. *)

Up(held, n) == [held EXCEPT ![n] = @ + 1]

LEMMA PlaceFacts ==
  ASSUME Scanner!ScanAssumption
  PROVE  /\ maxscans \in Nat /\ IsFiniteSet(Scanner!Places) /\ Cardinality(Scanner!Places) = maxscans + 1
         /\ Scanner!Places \subseteq Nat
<1>1. maxscans \in Nat
  BY DEF Scanner!ScanAssumption
<1>2. IsFiniteSet(1 .. maxscans + 1) /\ Cardinality(1 .. maxscans + 1) = IF 1 > maxscans + 1 THEN 0
        ELSE maxscans + 1 - 1 + 1
  BY <1>1, FS_Interval
<1> QED BY <1>1, <1>2 DEF Scanner!Places

LEMMA RunningFinite ==
  ASSUME Scanner!ScanAssumption, NEW st, NEW n
  PROVE  /\ IsFiniteSet(Running(st)) /\ Cardinality(Running(st)) \in Nat
         /\ IsFiniteSet(RunningAt(st, n)) /\ Cardinality(RunningAt(st, n)) \in Nat
<1>1. Running(st) \subseteq Scanner!Places /\ RunningAt(st, n) \subseteq Scanner!Places
  BY DEF Running, RunningAt
<1> QED BY <1>1, PlaceFacts, FS_Subset, FS_CardinalityType

\* There is a free place for a scan that may start.
LEMMA FreePlace ==
  ASSUME Scanner!ScanAssumption, NEW st, NEW held, Balanced(st, held), st.active < maxscans
  PROVE  \E p \in Scanner!Places : st.scans[p] = NULL /\ p = Scanner!Min({q \in Scanner!Places :
             st.scans[q] = NULL})
<1> DEFINE S == {q \in Scanner!Places : st.scans[q] = NULL}
<1>1. S # {}
  <2>1. SUFFICES ASSUME S = {} PROVE FALSE
    OBVIOUS
  <2>2. Running(st) = Scanner!Places
    BY <2>1 DEF Running
  <2>3. st.active = maxscans + 1 /\ maxscans \in Nat
    BY <2>2, PlaceFacts DEF Balanced
  <2> QED BY <2>3
<1>2. S \subseteq Nat
  BY PlaceFacts
<1> HIDE DEF S
<1>3. \E x \in S : \A y \in S : x <= y
  BY <1>1, <1>2, LeastNat
<1>4. Scanner!Min(S) \in S
  BY <1>3 DEF Scanner!Min
<1> QED BY <1>4 DEF S

LEMMA UpFacts ==
  ASSUME NEW held \in [Node -> Int], NEW n \in Node
  PROVE  /\ Up(held, n) \in [Node -> Int]
         /\ \A m \in Node : Up(held, n)[m] = held[m] + (IF m = n THEN 1 ELSE 0)
  BY DEF Up

LEMMA OwedType ==
  ASSUME Scanner!ScanAssumption, NEW st \in ScanState, NEW n
  PROVE  Owed(st, n) \in Nat
<1>1. st.normal \in Seq(Job) /\ st.prio \in Seq(Job)
  BY DEF ScanState
<1> QED BY <1>1, RunningFinite, JobsFinite DEF Owed

\* One reference less.
LEMMA Dereferenced ==
  ASSUME Scanner!ScanAssumption, NEW st, NEW held \in [Node -> Int], NEW n \in Node, Balanced(st, Up(held, n))
  PROVE  /\ Balanced(Scanner!derefnode(st, n), held)
         /\ Scanner!derefnode(st, n).normal = st.normal /\ Scanner!derefnode(st, n).prio = st.prio
         /\ Scanner!derefnode(st, n).cache = st.cache /\ Scanner!derefnode(st, n).active = st.active
<1> DEFINE t == Scanner!derefnode(st, n)
<1>1. st \in ScanState
  BY DEF Balanced
<1>2. t = [st EXCEPT !.refs[n] = @ - 1]
  BY DEF Scanner!derefnode
<1>3. /\ t.normal = st.normal /\ t.prio = st.prio /\ t.scans = st.scans /\ t.alarm = st.alarm
      /\ t.active = st.active /\ t.cache = st.cache /\ t.refs = [st.refs EXCEPT ![n] = @ - 1]
  BY <1>1, <1>2 DEF ScanState
<1>4. t \in ScanState
  <2>1. t = [normal |-> st.normal, prio |-> st.prio, scans |-> st.scans, alarm |-> st.alarm,
             active |-> st.active, cache |-> st.cache, refs |-> [st.refs EXCEPT ![n] = @ - 1]]
    BY <1>1, <1>2 DEF ScanState
  <2>2. [st.refs EXCEPT ![n] = @ - 1] \in [Node -> Int]
    BY <1>1 DEF ScanState
  <2> QED BY <1>1, <2>1, <2>2 DEF ScanState
<1> HIDE DEF t
<1>5. Running(t) = Running(st) /\ \A m \in Node : Owed(t, m) = Owed(st, m)
  BY <1>3 DEF Running, RunningAt, Owed
<1>6. ASSUME NEW m \in Node PROVE t.refs[m] = Owed(t, m) + held[m]
  <2>1. st.refs[m] = Owed(st, m) + Up(held, n)[m]
    BY DEF Balanced
  <2>2. Up(held, n)[m] = held[m] + (IF m = n THEN 1 ELSE 0) /\ held[m] \in Int
    BY UpFacts
  <2>3. st.refs[m] \in Int /\ t.refs[m] = IF m = n THEN st.refs[m] - 1 ELSE st.refs[m]
    BY <1>1, <1>3 DEF ScanState
  <2>4. Owed(t, m) = Owed(st, m) /\ Owed(st, m) \in Nat
    BY <1>1, <1>5, OwedType
  <2> QED BY <2>1, <2>2, <2>3, <2>4
<1>7. Balanced(t, held)
  BY <1>3, <1>4, <1>5, <1>6 DEF Balanced
<1> QED BY <1>3, <1>7 DEF t

\* One reference more.
LEMMA Referenced ==
  ASSUME Scanner!ScanAssumption, NEW st, NEW held \in [Node -> Int], NEW n \in Node, Balanced(st, held)
  PROVE  /\ Balanced(Scanner!ref(st, n), Up(held, n))
         /\ Scanner!ref(st, n).normal = st.normal /\ Scanner!ref(st, n).prio = st.prio
         /\ Scanner!ref(st, n).cache = st.cache /\ Scanner!ref(st, n).active = st.active
<1> DEFINE t == Scanner!ref(st, n)
<1>1. st \in ScanState
  BY DEF Balanced
<1>2. t = [st EXCEPT !.refs[n] = @ + 1]
  BY DEF Scanner!ref
<1>3. /\ t.normal = st.normal /\ t.prio = st.prio /\ t.scans = st.scans /\ t.alarm = st.alarm
      /\ t.active = st.active /\ t.cache = st.cache /\ t.refs = [st.refs EXCEPT ![n] = @ + 1]
  BY <1>1, <1>2 DEF ScanState
<1>4. t \in ScanState
  <2>1. t = [normal |-> st.normal, prio |-> st.prio, scans |-> st.scans, alarm |-> st.alarm,
             active |-> st.active, cache |-> st.cache, refs |-> [st.refs EXCEPT ![n] = @ + 1]]
    BY <1>1, <1>2 DEF ScanState
  <2>2. [st.refs EXCEPT ![n] = @ + 1] \in [Node -> Int]
    BY <1>1 DEF ScanState
  <2> QED BY <1>1, <2>1, <2>2 DEF ScanState
<1> HIDE DEF t
<1>5. Running(t) = Running(st) /\ \A m \in Node : Owed(t, m) = Owed(st, m)
  BY <1>3 DEF Running, RunningAt, Owed
<1>6. ASSUME NEW m \in Node PROVE t.refs[m] = Owed(t, m) + Up(held, n)[m]
  <2>1. st.refs[m] = Owed(st, m) + held[m]
    BY DEF Balanced
  <2>2. Up(held, n)[m] = held[m] + (IF m = n THEN 1 ELSE 0) /\ held[m] \in Int
    BY UpFacts
  <2>3. st.refs[m] \in Int /\ t.refs[m] = IF m = n THEN st.refs[m] + 1 ELSE st.refs[m]
    BY <1>1, <1>3 DEF ScanState
  <2>4. Owed(t, m) = Owed(st, m) /\ Owed(st, m) \in Nat
    BY <1>1, <1>5, OwedType
  <2> QED BY <2>1, <2>2, <2>3, <2>4
<1>7. Balanced(t, Up(held, n))
  BY <1>3, <1>4, <1>5, <1>6 DEF Balanced
<1> QED BY <1>3, <1>7 DEF t

\* A job goes to a queue: the reference that was held for it is the queue's.
LEMMA Queued ==
  ASSUME Scanner!ScanAssumption, NEW st, NEW held \in [Node -> Int], NEW n \in Node,
         NEW t \in ScanState,
         \/ Cardinality(JobsAt(t.normal, n)) = Cardinality(JobsAt(st.normal, n)) + 1 /\ t.prio = st.prio
         \/ t.normal = st.normal /\ Cardinality(JobsAt(t.prio, n)) = Cardinality(JobsAt(st.prio, n)) + 1,
         \A m \in Node \ {n} : /\ Cardinality(JobsAt(t.normal, m)) = Cardinality(JobsAt(st.normal, m))
                               /\ Cardinality(JobsAt(t.prio, m)) = Cardinality(JobsAt(st.prio, m)),
         t.scans = st.scans, t.alarm = st.alarm, t.active = st.active, t.cache = st.cache, t.refs = st.refs,
         st \in ScanState
  PROVE  Balanced(st, Up(held, n)) <=> Balanced(t, held)
<1>1. Running(t) = Running(st) /\ \A m \in Node : RunningAt(t, m) = RunningAt(st, m)
  BY DEF Running, RunningAt
<1>2. ASSUME NEW m \in Node
      PROVE  /\ Owed(t, m) = Owed(st, m) + (IF m = n THEN 1 ELSE 0)
             /\ st.refs[m] = Owed(st, m) + Up(held, n)[m] <=> t.refs[m] = Owed(t, m) + held[m]
  <2>1. /\ RunningAt(t, m) = RunningAt(st, m)
        /\ Cardinality(RunningAt(st, m)) \in Nat
        /\ Cardinality(JobsAt(st.normal, m)) \in Nat /\ Cardinality(JobsAt(st.prio, m)) \in Nat
        /\ Cardinality(JobsAt(t.normal, m)) \in Nat /\ Cardinality(JobsAt(t.prio, m)) \in Nat
    <3>1. st.normal \in Seq(Job) /\ st.prio \in Seq(Job) /\ t.normal \in Seq(Job) /\ t.prio \in Seq(Job)
      BY DEF ScanState
    <3> QED BY <1>1, <3>1, JobsFinite, RunningFinite
  <2>2. Owed(t, m) = Owed(st, m) + (IF m = n THEN 1 ELSE 0)
    <3>1. CASE m = n
      BY <2>1, <3>1 DEF Owed
    <3>2. CASE m # n
      BY <2>1, <3>2 DEF Owed
    <3> QED BY <3>1, <3>2
  <2>3. Up(held, n)[m] = held[m] + (IF m = n THEN 1 ELSE 0) /\ held[m] \in Int /\ Owed(st, m) \in Nat
          /\ st.refs[m] \in Int
    BY UpFacts, OwedType DEF ScanState
  <2> QED BY <2>2, <2>3
<1> QED BY <1>1, <1>2 DEF Balanced

LEMMA QueuedNormal ==
  ASSUME Scanner!ScanAssumption, NEW st, NEW held \in [Node -> Int], NEW job \in Job, Balanced(st, Up(held,
           job.node))
  PROVE  LET t == [st EXCEPT !.normal = Append(@, job)]
         IN /\ Balanced(t, held) /\ t.active = st.active /\ t.cache = st.cache
<1> DEFINE t == [st EXCEPT !.normal = Append(@, job)]
<1>1. st \in ScanState /\ st.normal \in Seq(Job) /\ job.node \in Node
  BY DEF Balanced, ScanState, Job
<1>2. /\ t.normal = Append(st.normal, job) /\ t.prio = st.prio /\ t.scans = st.scans /\ t.alarm = st.alarm
      /\ t.active = st.active /\ t.cache = st.cache /\ t.refs = st.refs
  BY <1>1 DEF ScanState
<1>3. t \in ScanState
  BY <1>1, AppendLonger DEF ScanState
<1> HIDE DEF t
<1>4. \A m \in Node : Cardinality(JobsAt(t.normal, m)) =
                      Cardinality(JobsAt(st.normal, m)) + (IF job.node = m THEN 1 ELSE 0)
  <2>1. Append(st.normal, job) \in Seq(Job) /\ Longer(st.normal, t.normal, Len(st.normal) + 1)
        /\ t.normal[Len(st.normal) + 1] = job /\ t.normal \in Seq(Job)
    BY <1>1, <1>2, AppendLonger
  <2> QED BY <1>1, <2>1, LongerCounts
<1>5. \A m \in Node : Cardinality(JobsAt(st.normal, m)) \in Nat
  BY <1>1, JobsFinite
<1>6. Balanced(t, held)
  <2>1. Cardinality(JobsAt(t.normal, job.node)) = Cardinality(JobsAt(st.normal, job.node)) + 1
          /\ t.prio = st.prio
    BY <1>1, <1>2, <1>4
  <2>2. \A m \in Node \ {job.node} : /\ Cardinality(JobsAt(t.normal, m)) = Cardinality(JobsAt(st.normal, m))
                                     /\ Cardinality(JobsAt(t.prio, m)) = Cardinality(JobsAt(st.prio, m))
    BY <1>2, <1>4, <1>5
  <2> QED BY <1>1, <1>2, <1>3, <2>1, <2>2, Queued
<1> QED BY <1>2, <1>6 DEF t

LEMMA QueuedPrio ==
  ASSUME Scanner!ScanAssumption, NEW st, NEW held \in [Node -> Int], NEW job \in Job, Balanced(st, Up(held,
           job.node))
  PROVE  LET t == [st EXCEPT !.prio = Scanner!InOrder(@, job)]
         IN /\ Balanced(t, held) /\ t.active = st.active /\ t.cache = st.cache /\ t.normal = st.normal
<1> DEFINE t == [st EXCEPT !.prio = Scanner!InOrder(@, job)]
<1>1. st \in ScanState /\ st.prio \in Seq(Job) /\ job.node \in Node
  BY DEF Balanced, ScanState, Job
<1>2. /\ t.normal = st.normal /\ t.prio = Scanner!InOrder(st.prio, job) /\ t.scans = st.scans
           /\ t.alarm = st.alarm
      /\ t.active = st.active /\ t.cache = st.cache /\ t.refs = st.refs
  BY <1>1 DEF ScanState
<1>3. PICK pos \in Nat : t.prio \in Seq(Job) /\ Longer(st.prio, t.prio, pos) /\ t.prio[pos] = job
  BY <1>1, <1>2, InsertLonger
<1>4. t \in ScanState
  BY <1>1, <1>2, <1>3 DEF ScanState
<1> HIDE DEF t
<1>5. \A m \in Node : Cardinality(JobsAt(t.prio, m)) =
                      Cardinality(JobsAt(st.prio, m)) + (IF job.node = m THEN 1 ELSE 0)
  BY <1>1, <1>3, LongerCounts
<1>6. \A m \in Node : Cardinality(JobsAt(st.prio, m)) \in Nat
  BY <1>1, JobsFinite
<1>7. Balanced(t, held)
  BY <1>1, <1>2, <1>4, <1>5, <1>6, Queued
<1> QED BY <1>2, <1>7 DEF t

LEMMA Dequeued ==
  ASSUME Scanner!ScanAssumption, NEW st, NEW held \in [Node -> Int], Balanced(st, held)
  PROVE  /\ st.prio # <<>> =>
              LET t == [st EXCEPT !.prio = Tail(@)]
              IN /\ Balanced(t, Up(held, Head(st.prio).node)) /\ Head(st.prio) \in Job
                 /\ t.active = st.active /\ t.cache = st.cache /\ t.normal = st.normal
                       /\ t.prio = Tail(st.prio)
         /\ st.normal # <<>> =>
              LET t == [st EXCEPT !.normal = Tail(@)]
              IN /\ Balanced(t, Up(held, Head(st.normal).node)) /\ Head(st.normal) \in Job
                 /\ t.active = st.active /\ t.cache = st.cache /\ t.normal = Tail(st.normal)
                       /\ t.prio = st.prio
<1>1. st \in ScanState /\ st.prio \in Seq(Job) /\ st.normal \in Seq(Job)
  BY DEF Balanced, ScanState
<1>2. ASSUME st.prio # <<>>
      PROVE  LET t == [st EXCEPT !.prio = Tail(@)]
             IN /\ Balanced(t, Up(held, Head(st.prio).node)) /\ Head(st.prio) \in Job
                /\ t.active = st.active /\ t.cache = st.cache /\ t.normal = st.normal
                      /\ t.prio = Tail(st.prio)
  <2> DEFINE t == [st EXCEPT !.prio = Tail(@)]
  <2>1. PICK job \in Job : job = Head(st.prio)
    BY <1>1, <1>2, TailLonger
  <2>2. /\ t.normal = st.normal /\ t.prio = Tail(st.prio) /\ t.scans = st.scans /\ t.alarm = st.alarm
        /\ t.active = st.active /\ t.cache = st.cache /\ t.refs = st.refs
    BY <1>1 DEF ScanState
  <2>3. t \in ScanState
    BY <1>1, <1>2, TailLonger DEF ScanState
  <2> HIDE DEF t
  <2>4. t.prio \in Seq(Job) /\ Longer(t.prio, st.prio, 1) /\ st.prio[1] = job /\ job.node \in Node
    BY <1>1, <1>2, <2>1, <2>2, TailLonger DEF Job
  <2>5. \A m \in Node : Cardinality(JobsAt(st.prio, m)) =
                        Cardinality(JobsAt(t.prio, m)) + (IF job.node = m THEN 1 ELSE 0)
    BY <1>1, <2>4, LongerCounts
  <2>6. \A m \in Node : Cardinality(JobsAt(t.prio, m)) \in Nat
    BY <2>4, JobsFinite
  <2>7. Cardinality(JobsAt(st.prio, job.node)) = Cardinality(JobsAt(t.prio, job.node)) + 1
          /\ t.normal = st.normal
    BY <2>2, <2>4, <2>5
  <2>8. \A m \in Node \ {job.node} : /\ Cardinality(JobsAt(st.normal, m)) = Cardinality(JobsAt(t.normal, m))
                                     /\ Cardinality(JobsAt(st.prio, m)) = Cardinality(JobsAt(t.prio, m))
    BY <2>2, <2>5, <2>6
  <2>9. Balanced(t, Up(held, job.node)) <=> Balanced(st, held)
    BY <1>1, <2>2, <2>3, <2>4, <2>7, <2>8, Queued
  <2> QED BY <2>1, <2>2, <2>9 DEF t
<1>3. ASSUME st.normal # <<>>
      PROVE  LET t == [st EXCEPT !.normal = Tail(@)]
             IN /\ Balanced(t, Up(held, Head(st.normal).node)) /\ Head(st.normal) \in Job
                /\ t.active = st.active /\ t.cache = st.cache /\ t.normal = Tail(st.normal)
                      /\ t.prio = st.prio
  <2> DEFINE t == [st EXCEPT !.normal = Tail(@)]
  <2>1. PICK job \in Job : job = Head(st.normal)
    BY <1>1, <1>3, TailLonger
  <2>2. /\ t.prio = st.prio /\ t.normal = Tail(st.normal) /\ t.scans = st.scans /\ t.alarm = st.alarm
        /\ t.active = st.active /\ t.cache = st.cache /\ t.refs = st.refs
    BY <1>1 DEF ScanState
  <2>3. t \in ScanState
    BY <1>1, <1>3, TailLonger DEF ScanState
  <2> HIDE DEF t
  <2>4. t.normal \in Seq(Job) /\ Longer(t.normal, st.normal, 1) /\ st.normal[1] = job /\ job.node \in Node
    BY <1>1, <1>3, <2>1, <2>2, TailLonger DEF Job
  <2>5. \A m \in Node : Cardinality(JobsAt(st.normal, m)) =
                        Cardinality(JobsAt(t.normal, m)) + (IF job.node = m THEN 1 ELSE 0)
    BY <1>1, <2>4, LongerCounts
  <2>6. \A m \in Node : Cardinality(JobsAt(t.normal, m)) \in Nat
    BY <2>4, JobsFinite
  <2>7. Cardinality(JobsAt(st.normal, job.node)) = Cardinality(JobsAt(t.normal, job.node)) + 1
          /\ st.prio = t.prio
    BY <2>2, <2>4, <2>5
  <2>8. \A m \in Node \ {job.node} : /\ Cardinality(JobsAt(st.normal, m)) = Cardinality(JobsAt(t.normal, m))
                                     /\ Cardinality(JobsAt(st.prio, m)) = Cardinality(JobsAt(t.prio, m))
    BY <2>2, <2>5, <2>6
  <2>9. Balanced(t, Up(held, job.node)) <=> Balanced(st, held)
    BY <1>1, <2>2, <2>3, <2>4, <2>7, <2>8, Queued
  <2> QED BY <2>1, <2>2, <2>9 DEF t
<1> QED BY <1>2, <1>3

\* startscan() starts the scan and its alarm, and gives the address up where it cannot.
LEMMA startscanKeeps ==
  ASSUME Scanner!ScanAssumption, NEW st, NEW held \in [Node -> Int], NEW job \in Job, NEW bad,
         Balanced(st, Up(held, job.node)), st.active < maxscans
  PROVE  LET t == Scanner!startscan(st, job, bad)
         IN Balanced(t, held) /\ t.normal = st.normal /\ t.prio = st.prio /\ t.cache = st.cache
<1> DEFINE t == Scanner!startscan(st, job, bad)
<1>1. st \in ScanState /\ job.node \in Node /\ job.kind \in Scanner!Kinds /\ job.class \in Scanner!Classes
  BY DEF Balanced, Job
<1>2. CASE job.kind \in bad
  <2>1. t = Scanner!derefnode(st, job.node)
    BY <1>2 DEF Scanner!startscan
  <2> QED BY <1>1, <2>1, Dereferenced
<1>3. CASE job.kind \notin bad
  <2>1. PICK p \in Scanner!Places : st.scans[p] = NULL /\ p = Scanner!Min({q \in Scanner!Places :
          st.scans[q] = NULL})
    BY FreePlace
  <2>2. PICK sp : sp = [node |-> job.node, kind |-> job.kind, class |-> job.class, state |-> "connecting"]
    OBVIOUS
  <2> DEFINE u == [st EXCEPT !.scans[p] = sp, !.active = @ + 1]
  <2>3. t = Scanner!scheduleoneshot(u, p)
    BY <1>3, <2>1, <2>2 DEF Scanner!startscan
  <2>4. t = [u EXCEPT !.alarm[p] = @ + 1]
    BY <2>3 DEF Scanner!scheduleoneshot
  <2>5. /\ t.normal = st.normal /\ t.prio = st.prio /\ t.scans = [st.scans EXCEPT ![p] = sp]
        /\ t.alarm = [st.alarm EXCEPT ![p] = @ + 1] /\ t.active = st.active + 1 /\ t.cache = st.cache
        /\ t.refs = st.refs
    BY <1>1, <2>4 DEF ScanState
  <2>6. sp \in Scanner!Scan /\ sp # NULL /\ sp.node = job.node
    BY <1>1, <2>2 DEF Scanner!Scan, Scanner!ScanAssumption
  <2>7. /\ st.scans \in [Scanner!Places -> Scanner!Scan \cup {NULL}] /\ st.alarm \in [Scanner!Places -> {0,
           1}]
        /\ st.active \in Nat /\ st.refs \in [Node -> Int]
        /\ \A q \in Scanner!Places : st.alarm[q] = IF st.scans[q] # NULL THEN 1 ELSE 0
    BY <1>1 DEF ScanState, Balanced
  <2>8. /\ t.scans \in [Scanner!Places -> Scanner!Scan \cup {NULL}] /\ t.alarm \in [Scanner!Places -> {0, 1}]
        /\ \A q \in Scanner!Places : t.alarm[q] = IF t.scans[q] # NULL THEN 1 ELSE 0
    BY <2>1, <2>5, <2>6, <2>7
  <2>9. t = [normal |-> st.normal, prio |-> st.prio, scans |-> t.scans, alarm |-> t.alarm,
             active |-> st.active + 1, cache |-> st.cache, refs |-> st.refs]
    <3>1. t = [normal |-> st.normal, prio |-> st.prio, scans |-> [st.scans EXCEPT ![p] = sp],
               alarm |-> [st.alarm EXCEPT ![p] = @ + 1], active |-> st.active + 1, cache |-> st.cache,
                   refs |-> st.refs]
      BY <1>1, <2>4 DEF ScanState
    <3> QED BY <2>5, <3>1
  <2> HIDE DEF t, u
  <2>10. t \in ScanState
    BY <1>1, <2>7, <2>8, <2>9 DEF ScanState
  <2>11. Running(t) = Running(st) \cup {p} /\ p \notin Running(st)
    <3>1. \A q \in Scanner!Places : t.scans[q] = IF q = p THEN sp ELSE st.scans[q]
      BY <2>5, <2>7
    <3>2. \A q \in Scanner!Places : t.scans[q] # NULL <=> (q = p \/ st.scans[q] # NULL)
      BY <2>6, <3>1
    <3> QED BY <2>1, <3>2 DEF Running
  <2>12. t.active = Cardinality(Running(t)) /\ t.active <= maxscans
    <3>1. Cardinality(Running(t)) = Cardinality(Running(st)) + 1
      BY <2>11, RunningFinite, FS_AddElement
    <3>2. st.active = Cardinality(Running(st))
      BY DEF Balanced
    <3> QED BY <2>5, <2>7, <3>1, <3>2, PlaceFacts
  <2>13. ASSUME NEW m \in Node PROVE t.refs[m] = Owed(t, m) + held[m]
    <3>1. RunningAt(t, m) = IF m = job.node THEN RunningAt(st, m) \cup {p} ELSE RunningAt(st, m)
      BY <2>1, <2>5, <2>6, <2>7 DEF RunningAt
    <3>2. p \notin RunningAt(st, m)
      BY <2>1 DEF RunningAt
    <3>3. Cardinality(RunningAt(t, m)) = Cardinality(RunningAt(st, m)) + (IF m = job.node THEN 1 ELSE 0)
      <4>1. CASE m = job.node
        BY <3>1, <3>2, <4>1, RunningFinite, FS_AddElement
      <4>2. CASE m # job.node
        BY <3>1, <4>2, RunningFinite
      <4> QED BY <4>1, <4>2
    <3>4. /\ Cardinality(RunningAt(st, m)) \in Nat
          /\ Cardinality(JobsAt(st.normal, m)) \in Nat /\ Cardinality(JobsAt(st.prio, m)) \in Nat
      <4>1. st.normal \in Seq(Job) /\ st.prio \in Seq(Job)
        BY <1>1 DEF ScanState
      <4> QED BY <4>1, JobsFinite, RunningFinite
    <3>5. Owed(t, m) = Owed(st, m) + (IF m = job.node THEN 1 ELSE 0)
      BY <2>5, <3>3, <3>4 DEF Owed
    <3>6. /\ Up(held, job.node)[m] = held[m] + (IF m = job.node THEN 1 ELSE 0) /\ held[m] \in Int
          /\ Owed(st, m) \in Nat /\ st.refs[m] = Owed(st, m) + Up(held, job.node)[m]
      BY <1>1, UpFacts, OwedType DEF Balanced
    <3> QED BY <2>5, <3>5, <3>6
  <2>14. Balanced(t, held)
    BY <2>8, <2>10, <2>12, <2>13 DEF Balanced
  <2> QED BY <2>5, <2>14 DEF t
<1> QED BY <1>2, <1>3

\* No scan waits in the normal queue that could run.
Full(st) == ready /\ st.normal # <<>> => st.active = maxscans

\* queuescan(): a scan starts, or waits in one of the queues.
LEMMA queuescanKeeps ==
  ASSUME Scanner!ScanAssumption, clock \in Nat, NEW st, NEW held \in [Node -> Int], NEW n \in Node,
         NEW kind \in Scanner!Kinds, NEW class \in Scanner!Classes, NEW when \in Nat, NEW bad,
         Balanced(st, held)
  PROVE  LET t == Scanner!queuescan(st, n, kind, class, when, bad)
         IN Balanced(t, held) /\ (Full(st) => Full(t)) /\ t.cache = st.cache
<1> DEFINE t == Scanner!queuescan(st, n, kind, class, when, bad)
<1>1. PICK job \in Job : job = [node |-> n, kind |-> kind, class |-> class, when |-> when]
  BY DEF Job
<1>2. PICK h : h = Scanner!ref(st, n)
  OBVIOUS
<1>3. Balanced(h, Up(held, n)) /\ h.normal = st.normal /\ h.cache = st.cache /\ h.active = st.active
        /\ job.node = n
  BY <1>1, <1>2, Referenced
<1>4. t = IF st.active < maxscans /\ when <= clock /\ ready THEN Scanner!startscan(h, job, bad)
          ELSE IF when = 0 THEN [h EXCEPT !.normal = Append(@, job)]
          ELSE [h EXCEPT !.prio = Scanner!InOrder(@, job)]
  BY <1>1, <1>2 DEF Scanner!queuescan
<1>5. st.active \in Nat /\ maxscans \in Nat /\ st.active <= maxscans
  BY PlaceFacts DEF Balanced, ScanState
<1> HIDE DEF t
<1>6. CASE st.active < maxscans /\ when <= clock /\ ready
  <2>1. t = Scanner!startscan(h, job, bad)
    BY <1>4, <1>6
  <2>2. Balanced(t, held) /\ t.normal = h.normal /\ t.cache = h.cache
    BY <1>3, <1>6, <2>1, startscanKeeps
  <2>3. Full(st) => t.normal = <<>>
    BY <1>3, <1>5, <1>6, <2>2 DEF Full
  <2> QED BY <1>3, <2>2, <2>3 DEF Full, t
<1>7. CASE ~(st.active < maxscans /\ when <= clock /\ ready) /\ when = 0
  <2>1. t = [h EXCEPT !.normal = Append(@, job)]
    BY <1>4, <1>7
  <2>2. Balanced(t, held) /\ t.active = h.active /\ t.cache = h.cache
    BY <1>3, <2>1, QueuedNormal
  <2>3. ready => st.active = maxscans
    BY <1>5, <1>7
  <2> QED BY <1>3, <2>2, <2>3 DEF Full, t
<1>8. CASE ~(st.active < maxscans /\ when <= clock /\ ready) /\ when # 0
  <2>1. t = [h EXCEPT !.prio = Scanner!InOrder(@, job)]
    BY <1>4, <1>8
  <2>2. Balanced(t, held) /\ t.active = h.active /\ t.cache = h.cache /\ t.normal = h.normal
    BY <1>3, <2>1, QueuedPrio
  <2> QED BY <1>3, <2>2 DEF Full, t
<1> QED BY <1>6, <1>7, <1>8

\* Nothing waits that startqueuedscans() could start, or it has fewer to start than before.
Settled(st) == st.active = maxscans \/ st.normal = <<>>
Waiting(st) == Len(st.normal) + Len(st.prio)

LEMMA StartNextKeeps ==
  ASSUME Scanner!ScanAssumption, NEW st, NEW held \in [Node -> Int], NEW bad, Balanced(st, held)
  PROVE  LET t == Scanner!StartNext(st, bad)
         IN /\ Balanced(t, held) /\ t.cache = st.cache
            /\ (t = st /\ Settled(st)) \/ Waiting(t) + 1 = Waiting(st)
<1> DEFINE t == Scanner!StartNext(st, bad)
<1>1. st.active \in Nat /\ maxscans \in Nat /\ st.active <= maxscans /\ st.normal \in Seq(Job)
        /\ st.prio \in Seq(Job)
  BY PlaceFacts DEF Balanced, ScanState
<1>2. CASE st.active >= maxscans
  BY <1>1, <1>2 DEF Scanner!StartNext, Settled
<1>3. CASE ~(st.active >= maxscans) /\ st.prio # <<>> /\ Head(st.prio).when <= clock
  <2>1. PICK job \in Job : job = Head(st.prio)
    BY <1>3, Dequeued
  <2>2. PICK u : u = [st EXCEPT !.prio = Tail(@)]
    OBVIOUS
  <2>3. /\ Balanced(u, Up(held, job.node)) /\ u.active = st.active /\ u.cache = st.cache
             /\ u.normal = st.normal
        /\ u.prio = Tail(st.prio)
    BY <1>3, <2>1, <2>2, Dequeued
  <2>4. t = Scanner!startscan(u, job, bad) /\ u.active < maxscans
    BY <1>1, <1>3, <2>1, <2>2, <2>3 DEF Scanner!StartNext
  <2> HIDE DEF t
  <2>5. Balanced(t, held) /\ t.normal = u.normal /\ t.prio = u.prio /\ t.cache = u.cache
    BY <2>3, <2>4, startscanKeeps
  <2>6. Len(Tail(st.prio)) + 1 = Len(st.prio) /\ Len(st.normal) \in Nat /\ Len(Tail(st.prio)) \in Nat
    BY <1>1, <1>3
  <2>7. Waiting(t) + 1 = Waiting(st)
    <3>1. PICK a \in Nat : a = Len(t.prio)
      BY <2>3, <2>5, <2>6
    <3>2. PICK b \in Nat : b = Len(t.normal)
      BY <2>3, <2>5, <2>6
    <3>3. a + 1 = Len(st.prio) /\ b = Len(st.normal)
      BY <2>3, <2>5, <2>6, <3>1, <3>2
    <3>4. Waiting(t) = b + a /\ Waiting(st) = b + (a + 1)
      BY <3>1, <3>2, <3>3 DEF Waiting
    <3> QED BY <3>4
  <2> QED BY <2>3, <2>5, <2>7 DEF t
<1>4. CASE ~(st.active >= maxscans) /\ ~(st.prio # <<>> /\ Head(st.prio).when <= clock) /\ st.normal # <<>>
  <2>1. PICK job \in Job : job = Head(st.normal)
    BY <1>4, Dequeued
  <2>2. PICK u : u = [st EXCEPT !.normal = Tail(@)]
    OBVIOUS
  <2>3. /\ Balanced(u, Up(held, job.node)) /\ u.active = st.active /\ u.cache = st.cache
             /\ u.normal = Tail(st.normal)
        /\ u.prio = st.prio
    BY <1>4, <2>1, <2>2, Dequeued
  <2>4. t = Scanner!startscan(u, job, bad) /\ u.active < maxscans
    BY <1>1, <1>4, <2>1, <2>2, <2>3 DEF Scanner!StartNext
  <2> HIDE DEF t
  <2>5. Balanced(t, held) /\ t.normal = u.normal /\ t.prio = u.prio /\ t.cache = u.cache
    BY <2>3, <2>4, startscanKeeps
  <2>6. Len(Tail(st.normal)) + 1 = Len(st.normal) /\ Len(st.prio) \in Nat /\ Len(Tail(st.normal)) \in Nat
    BY <1>1, <1>4
  <2>7. Waiting(t) + 1 = Waiting(st)
    <3>1. PICK a \in Nat : a = Len(t.normal)
      BY <2>3, <2>5, <2>6
    <3>2. PICK b \in Nat : b = Len(t.prio)
      BY <2>3, <2>5, <2>6
    <3>3. a + 1 = Len(st.normal) /\ b = Len(st.prio)
      BY <2>3, <2>5, <2>6, <3>1, <3>2
    <3>4. Waiting(t) = a + b /\ Waiting(st) = (a + 1) + b
      BY <3>1, <3>2, <3>3 DEF Waiting
    <3> QED BY <3>4
  <2> QED BY <2>3, <2>5, <2>7 DEF t
<1>5. CASE ~(st.active >= maxscans) /\ ~(st.prio # <<>> /\ Head(st.prio).when <= clock) /\ st.normal = <<>>
  BY <1>5 DEF Scanner!StartNext, Settled
<1> QED BY <1>2, <1>3, <1>4, <1>5

\* startqueuedscans(): afterwards none waits in the normal queue that could run.
LEMMA startqueuedscansKeeps ==
  ASSUME Scanner!ScanAssumption, NEW st, NEW held \in [Node -> Int], NEW bad, Balanced(st, held)
  PROVE  LET t == Scanner!startqueuedscans(st, bad)
         IN Balanced(t, held) /\ Settled(t) /\ t.cache = st.cache
<1>1. st.normal \in Seq(Job) /\ st.prio \in Seq(Job)
  BY DEF Balanced, ScanState
<1>2. PICK n \in Nat : n = Waiting(st)
  <2>1. PICK a \in Nat, b \in Nat : a = Len(st.normal) /\ b = Len(st.prio)
    BY <1>1
  <2>2. Waiting(st) = a + b
    BY <2>1, Zenon DEF Waiting
  <2>3. a \in Nat /\ b \in Nat
    BY <2>1
  <2>4. a + b \in Nat
    BY <2>3
  <2> QED BY <2>2, <2>4
<1>3. PICK f : Round(st, bad, f, n) /\ Scanner!startqueuedscans(st, bad) = f[n]
  BY <1>2, RoundsOf DEF Waiting
<1>4. /\ f[0] = st
      /\ \A k \in 0 .. n : k < n => f[k + 1] = Scanner!StartNext(f[k], bad)
  <2>1. \A k \in 0 .. n : f[k] = IF k = 0 THEN st ELSE Scanner!StartNext(f[k - 1], bad)
    BY <1>3 DEF Round
  <2>2. ASSUME NEW k \in 0 .. n, k < n PROVE f[k + 1] = Scanner!StartNext(f[k], bad)
    <3>1. k + 1 \in 0 .. n /\ k + 1 # 0 /\ (k + 1) - 1 = k
      BY <2>2
    <3> QED BY <2>1, <3>1
  <2> QED BY <2>1, <2>2
<1> DEFINE Good(t, k) ==
             /\ Balanced(t, held) /\ t.cache = st.cache
             /\ (Scanner!StartNext(t, bad) = t /\ Settled(t)) \/ Waiting(t) + k = n
           T == {k \in 0 .. n : Good(f[k], k)}
<1>5. 0 \in T
  BY <1>2, <1>4
<1>6. ASSUME NEW k \in 0 .. n, k \in T, k < n PROVE k + 1 \in T
  <2>1. PICK t, u : t = f[k] /\ u = f[k + 1]
    OBVIOUS
  <2>2. Good(t, k) /\ u = Scanner!StartNext(t, bad) /\ k + 1 \in 0 .. n
    BY <1>4, <1>6, <2>1
  <2>3. Balanced(u, held) /\ u.cache = t.cache
    BY <2>2, StartNextKeeps
  <2>4. (u = t /\ Settled(t)) \/ Waiting(u) + 1 = Waiting(t)
    BY <2>2, StartNextKeeps
  <2>5. CASE u = t /\ Settled(t)
    BY <2>1, <2>2, <2>3, <2>5
  <2>6. CASE Waiting(u) + 1 = Waiting(t) /\ Waiting(t) + k = n
    <3>1. Waiting(u) \in Nat
      BY <2>3 DEF Balanced, ScanState, Waiting
    <3>2. PICK a \in Nat : a = Waiting(u)
      BY <3>1
    <3>3. a + (k + 1) = n
      BY <2>6, <3>2
    <3>4. Good(u, k + 1)
      BY <2>2, <2>3, <3>2, <3>3
    <3> QED BY <2>1, <2>2, <3>4
  <2>7. CASE Scanner!StartNext(t, bad) = t /\ Settled(t)
    BY <2>1, <2>2, <2>3, <2>7
  <2> QED BY <2>2, <2>4, <2>5, <2>6, <2>7
<1> HIDE DEF T
<1>7. n \in T
  <2>1. n \in 0 .. n
    OBVIOUS
  <2> QED BY <1>5, <1>6, <2>1, Upto
<1>8. PICK t : t = f[n]
  OBVIOUS
<1>9. Good(t, n)
  BY <1>7, <1>8 DEF T
<1>10. Settled(t)
  <2>1. CASE Waiting(t) + n = n
    <3>1. t.normal \in Seq(Job) /\ t.prio \in Seq(Job)
      BY <1>9 DEF Balanced, ScanState
    <3>2. PICK a \in Nat, b \in Nat : a = Len(t.normal) /\ b = Len(t.prio)
      BY <3>1
    <3>3. a + b + n = n
      BY <2>1, <3>2 DEF Waiting
    <3>4. a = 0
      BY <3>3
    <3>5. t.normal = <<>>
      <4>1. PICK q \in Seq(Job) : q = t.normal /\ Len(q) = 0
        BY <3>1, <3>2, <3>4
      <4>2. q = <<>>
        BY <4>1
      <4> QED BY <4>1, <4>2
    <3> QED BY <3>5 DEF Settled
  <2> QED BY <1>9, <2>1
<1> QED BY <1>3, <1>8, <1>9, <1>10

LEMMA QueueAllKeeps ==
  ASSUME Scanner!ScanAssumption, clock \in Nat, NEW st, NEW held \in [Node -> Int], NEW n \in Node,
         NEW kinds \in Seq(Scanner!Kinds), NEW class \in Scanner!Classes, NEW when \in Nat, NEW bad,
         Balanced(st, held), Full(st)
  PROVE  LET t == Scanner!QueueAll(st, n, kinds, class, when, bad)
         IN Balanced(t, held) /\ Full(t) /\ t.cache = st.cache
<1>1. PICK m \in Nat : m = Len(kinds)
  OBVIOUS
<1>2. PICK f : Queueing(st, n, kinds, class, when, bad, f, m) /\ Scanner!QueueAll(st, n, kinds, class, when,
      bad) = f[m]
  <2>1. \E f : /\ Queueing(st, n, kinds, class, when, bad, f, Len(kinds))
               /\ Scanner!QueueAll(st, n, kinds, class, when, bad) = f[Len(kinds)]
    BY QueueingOf
  <2> QED BY <1>1, <2>1
<1>3. /\ f[0] = st
      /\ \A k \in 0 .. m : k < m => f[k + 1] = Scanner!queuescan(f[k], n, kinds[k + 1], class, when, bad)
  <2>1. \A k \in 0 .. m : f[k] = IF k = 0 THEN st ELSE Scanner!queuescan(f[k - 1], n, kinds[k], class, when,
        bad)
    BY <1>2 DEF Queueing
  <2>2. ASSUME NEW k \in 0 .. m, k < m PROVE f[k + 1] = Scanner!queuescan(f[k], n, kinds[k + 1], class, when,
        bad)
    <3>1. k + 1 \in 0 .. m /\ k + 1 # 0 /\ (k + 1) - 1 = k
      BY <2>2
    <3> QED BY <2>1, <3>1
  <2> QED BY <2>1, <2>2
<1> DEFINE Good(t) == Balanced(t, held) /\ Full(t) /\ t.cache = st.cache
           T == {k \in 0 .. m : Good(f[k])}
<1>4. 0 \in T
  BY <1>1, <1>3
<1>5. ASSUME NEW k \in 0 .. m, k \in T, k < m PROVE k + 1 \in T
  <2>1. PICK t, u : t = f[k] /\ u = f[k + 1]
    OBVIOUS
  <2>2. k + 1 \in 1 .. Len(kinds) /\ k + 1 \in 0 .. m
    BY <1>1, <1>5
  <2>3. PICK kind \in Scanner!Kinds : kind = kinds[k + 1]
    BY <2>2
  <2>4. Good(t) /\ u = Scanner!queuescan(t, n, kind, class, when, bad)
    BY <1>3, <1>5, <2>1, <2>3
  <2>5. Balanced(u, held) /\ Full(u) /\ u.cache = t.cache
    BY <2>4, queuescanKeeps
  <2>6. Good(u)
    BY <2>4, <2>5
  <2> QED BY <2>1, <2>2, <2>6
<1> HIDE DEF T
<1>6. m \in T
  <2>1. m \in 0 .. m
    BY <1>1
  <2> QED BY <1>1, <1>4, <1>5, <2>1, Upto
<1> QED BY <1>2, <1>6 DEF T

-----------------------------------------------------------------------------
(* The cache. *)

Down(held, n) == [held EXCEPT ![n] = @ - 1]

LEMMA DownFacts ==
  ASSUME NEW held \in [Node -> Int], NEW n \in Node
  PROVE  /\ Down(held, n) \in [Node -> Int] /\ Up(Down(held, n), n) = held
         /\ \A m \in Node : Down(held, n)[m] = held[m] - (IF m = n THEN 1 ELSE 0)
<1>1. Down(held, n) \in [Node -> Int] /\ \A m \in Node : Down(held, n)[m] = held[m] - (IF m = n THEN 1 ELSE 0)
  BY DEF Down
<1>2. PICK d \in [Node -> Int] : d = Down(held, n)
  BY <1>1
<1>3. Up(d, n) \in [Node -> Int] /\ \A m \in Node : Up(d, n)[m] = d[m] + (IF m = n THEN 1 ELSE 0)
  BY UpFacts
<1>4. \A m \in Node : Up(d, n)[m] = held[m]
  BY <1>1, <1>2, <1>3
<1>5. Up(d, n) = held
  BY <1>3, <1>4
<1> QED BY <1>1, <1>2, <1>5

LEMMA NewCache ==
  ASSUME NEW st \in ScanState, NEW x \in [Node -> Scanner!CachedHost \cup {NULL}]
  PROVE  [st EXCEPT !.cache = x] \in ScanState
  BY DEF ScanState

\* What becomes of the balance when the cache learns of an address, or forgets it.
LEMMA CacheSet ==
  ASSUME Scanner!ScanAssumption, NEW st, NEW held \in [Node -> Int], NEW n \in Node,
         NEW c \in Scanner!CachedHost \cup {NULL}, Balanced(st, held)
  PROVE  LET t == [st EXCEPT !.cache[n] = c]
         IN /\ t.normal = st.normal /\ t.active = st.active /\ t.cache = [st.cache EXCEPT ![n] = c]
            /\ (c # NULL <=> st.cache[n] # NULL) => Balanced(t, held)
            /\ c = NULL /\ st.cache[n] # NULL => Balanced(t, Up(held, n))
            /\ c # NULL /\ st.cache[n] = NULL => Balanced(t, Down(held, n))
<1> DEFINE t == [st EXCEPT !.cache[n] = c]
<1>1. st \in ScanState
  BY DEF Balanced
<1>2. /\ t.normal = st.normal /\ t.prio = st.prio /\ t.scans = st.scans /\ t.alarm = st.alarm
      /\ t.active = st.active /\ t.cache = [st.cache EXCEPT ![n] = c] /\ t.refs = st.refs
  BY <1>1 DEF ScanState
<1>3. t \in ScanState
  <2>1. PICK x \in [Node -> Scanner!CachedHost \cup {NULL}] : x = [st.cache EXCEPT ![n] = c]
    BY <1>1 DEF ScanState
  <2>2. t = [st EXCEPT !.cache = x]
    BY <2>1
  <2> QED BY <1>1, <2>2, NewCache
<1> HIDE DEF t
<1>4. Running(t) = Running(st) /\ \A m \in Node : RunningAt(t, m) = RunningAt(st, m)
  BY <1>2 DEF Running, RunningAt
<1>5. PICK change \in Int : change = (IF c # NULL THEN 1 ELSE 0) - (IF st.cache[n] # NULL THEN 1 ELSE 0)
  OBVIOUS
<1>6. ASSUME NEW m \in Node PROVE t.refs[m] = Owed(t, m) + held[m] - (IF m = n THEN change ELSE 0)
  <2>1. PICK a \in Int : a = Cardinality(RunningAt(st, m)) + Cardinality(JobsAt(st.normal,
        m)) + Cardinality(JobsAt(st.prio, m))
    <3>1. st.normal \in Seq(Job) /\ st.prio \in Seq(Job)
      BY <1>1 DEF ScanState
    <3>2. /\ Cardinality(RunningAt(st, m)) \in Nat
          /\ Cardinality(JobsAt(st.normal, m)) \in Nat /\ Cardinality(JobsAt(st.prio, m)) \in Nat
      BY <3>1, JobsFinite, RunningFinite
    <3> QED BY <3>2
  <2>2. Owed(st, m) = a + (IF st.cache[m] # NULL THEN 1 ELSE 0)
    BY <2>1 DEF Owed
  <2>3. Owed(t, m) = a + (IF t.cache[m] # NULL THEN 1 ELSE 0)
    BY <1>2, <1>4, <2>1 DEF Owed
  <2>4. t.cache[m] = IF m = n THEN c ELSE st.cache[m]
    BY <1>1, <1>2 DEF ScanState
  <2>5. st.refs[m] = Owed(st, m) + held[m] /\ held[m] \in Int /\ st.refs[m] \in Int /\ t.refs[m] = st.refs[m]
    BY <1>1, <1>2 DEF Balanced, ScanState
  <2> QED BY <1>5, <2>2, <2>3, <2>4, <2>5
<1>7. ASSUME NEW g \in [Node -> Int], \A m \in Node : g[m] = held[m] - (IF m = n THEN change ELSE 0)
      PROVE  Balanced(t, g)
  <2>1. ASSUME NEW m \in Node PROVE t.refs[m] = Owed(t, m) + g[m]
    <3>1. PICK o \in Int, x \in Int : o = Owed(t, m) /\ x = t.refs[m]
      <4>1. Owed(t, m) \in Nat
        BY <1>3, OwedType
      <4>2. t.refs[m] \in Int
        BY <1>3 DEF ScanState
      <4> QED BY <4>1, <4>2
    <3>2. x = o + held[m] - (IF m = n THEN change ELSE 0) /\ g[m] = held[m] - (IF m = n THEN change ELSE 0)
      BY <1>6, <1>7, <3>1
    <3>3. x = o + g[m]
      BY <3>2
    <3> QED BY <3>1, <3>3
  <2> QED BY <1>2, <1>3, <1>4, <2>1 DEF Balanced
<1>8. (c # NULL <=> st.cache[n] # NULL) => Balanced(t, held)
  BY <1>5, <1>7
<1>9. c = NULL /\ st.cache[n] # NULL => Balanced(t, Up(held, n))
  BY <1>5, <1>7, UpFacts
<1>10. c # NULL /\ st.cache[n] = NULL => Balanced(t, Down(held, n))
  BY <1>5, <1>7, DownFacts
<1> QED BY <1>2, <1>8, <1>9, <1>10 DEF t

LEMMA findcachehostKeeps ==
  ASSUME Scanner!ScanAssumption, NEW st, NEW held \in [Node -> Int], NEW n \in Node, Balanced(st, held)
  PROVE  LET t == Scanner!findcachehost(st, n)
         IN Balanced(t, held) /\ t.normal = st.normal /\ t.active = st.active
<1> DEFINE t == Scanner!findcachehost(st, n)
<1>1. CASE st.cache[n] # NULL /\ Scanner!Stale(st.cache[n])
  <2>1. PICK c \in Scanner!CachedHost \cup {NULL} : c = NULL
    OBVIOUS
  <2>2. PICK u : u = [st EXCEPT !.cache[n] = c]
    OBVIOUS
  <2>3. Balanced(u, Up(held, n)) /\ u.normal = st.normal /\ u.active = st.active
    BY <1>1, <2>1, <2>2, CacheSet
  <2>4. t = Scanner!derefnode(u, n)
    BY <1>1, <2>1, <2>2 DEF Scanner!findcachehost
  <2> QED BY <2>3, <2>4, Dereferenced
<1>2. CASE ~(st.cache[n] # NULL /\ Scanner!Stale(st.cache[n]))
  <2>1. t = st
    BY <1>2 DEF Scanner!findcachehost
  <2> QED BY <2>1
<1> QED BY <1>1, <1>2

LEMMA addcleanhostKeeps ==
  ASSUME Scanner!ScanAssumption, clock \in Nat, NEW st, NEW held \in [Node -> Int], NEW n \in Node,
           Balanced(st, held),
         st.cache[n] = NULL
  PROVE  LET t == Scanner!addcleanhost(st, n)
         IN Balanced(t, held) /\ t.normal = st.normal /\ t.active = st.active /\ t.cache[n] # NULL
<1> DEFINE t == Scanner!addcleanhost(st, n)
<1>1. PICK c \in Scanner!CachedHost : c = [lastscan |-> clock, proxies |-> {}]
  BY DEF Scanner!CachedHost
<1>2. c # NULL /\ c \in Scanner!CachedHost \cup {NULL}
  BY DEF Scanner!ScanAssumption
<1>3. PICK u : u = [st EXCEPT !.cache[n] = c]
  OBVIOUS
<1>4. /\ Balanced(u, Down(held, n)) /\ u.normal = st.normal /\ u.active = st.active
      /\ u.cache = [st.cache EXCEPT ![n] = c]
  BY <1>2, <1>3, CacheSet
<1>5. t = Scanner!ref(u, n)
  BY <1>1, <1>3 DEF Scanner!addcleanhost
<1>6. Balanced(t, Up(Down(held, n), n)) /\ t.normal = u.normal /\ t.active = u.active /\ t.cache = u.cache
  BY <1>4, <1>5, DownFacts, Referenced
<1>7. u.cache[n] = c
  BY <1>4 DEF Balanced, ScanState
<1> QED BY <1>2, <1>4, <1>6, <1>7, DownFacts

LEMMA FoundOpenKeeps ==
  ASSUME Scanner!ScanAssumption, clock \in Nat, NEW st, NEW held \in [Node -> Int], NEW sp \in Scanner!Scan,
         Balanced(st, held)
  PROVE  Balanced(Scanner!FoundOpen(st, sp), held)
<1> DEFINE n == sp.node
<1>1. n \in Node /\ sp.kind \in Scanner!Kinds
  BY DEF Scanner!Scan
<1>2. PICK found : found = Scanner!findcachehost(st, n)
  OBVIOUS
<1>3. Balanced(found, held)
  BY <1>1, <1>2, findcachehostKeeps
<1>4. PICK k : k = IF found.cache[n] = NULL THEN Scanner!addcleanhost(found, n) ELSE found
  OBVIOUS
<1>5. Balanced(k, held) /\ k.cache[n] # NULL
  <2>1. CASE found.cache[n] = NULL
    <3>1. k = Scanner!addcleanhost(found, n)
      BY <1>4, <2>1
    <3> QED BY <1>1, <1>3, <2>1, <3>1, addcleanhostKeeps
  <2>2. CASE found.cache[n] # NULL
    BY <1>3, <1>4, <2>2
  <2> QED BY <2>1, <2>2
<1>6. k \in ScanState /\ k.cache[n] \in Scanner!CachedHost
  BY <1>1, <1>5 DEF Balanced, ScanState
<1>7. PICK c : c = [k.cache[n] EXCEPT !.proxies = @ \cup {sp.kind}]
  OBVIOUS
<1>8. c \in Scanner!CachedHost \cup {NULL} /\ c # NULL
  <2>1. c \in Scanner!CachedHost
    BY <1>1, <1>6, <1>7 DEF Scanner!CachedHost
  <2> QED BY <2>1 DEF Scanner!ScanAssumption
<1>9. Balanced([k EXCEPT !.cache[n] = c], held)
  BY <1>1, <1>5, <1>8, CacheSet
<1>10. Scanner!FoundOpen(st, sp) = [k EXCEPT !.cache[n] = c]
  BY <1>2, <1>4, <1>7 DEF Scanner!FoundOpen
<1> QED BY <1>9, <1>10

-----------------------------------------------------------------------------
(* A scan is over. *)

LEMMA NextClassType ==
  ASSUME NEW sp \in Scanner!Scan
  PROVE  Scanner!NextClass(sp) \in Scanner!Classes \cup {NULL}
  BY DEF Scanner!NextClass, Scanner!Classes, Scanner!Scan

\* The alarm of a scan that is running is deleted, or has gone off.
Unwatched(st, p) == [st EXCEPT !.alarm[p] = 0]

LEMMA OverType ==
  ASSUME NEW st \in ScanState, NEW a \in [Scanner!Places -> {0, 1}],
           NEW x \in [Scanner!Places -> Scanner!Scan \cup {NULL}],
         st.active - 1 \in Nat
  PROVE  [st EXCEPT !.alarm = a, !.scans = x, !.active = @ - 1] \in ScanState
  BY DEF ScanState

\* What is left when its place is free: a reference that the scan had.
LEMMA OverFacts ==
  ASSUME Scanner!ScanAssumption, NEW st, NEW held \in [Node -> Int], NEW p \in Scanner!Places, NEW s,
         Balanced(st, held), st.scans[p] # NULL, s = st \/ s = Unwatched(st, p)
  PROVE  LET t == [Scanner!deleteschedule(s, p) EXCEPT !.scans[p] = NULL, !.active = @ - 1]
         IN /\ Balanced(t, Up(held, st.scans[p].node)) /\ t.normal = st.normal /\ t.cache = st.cache
            /\ st.scans[p] \in Scanner!Scan
<1> DEFINE t == [Scanner!deleteschedule(s, p) EXCEPT !.scans[p] = NULL, !.active = @ - 1]
           sp == st.scans[p]
<1>1. st \in ScanState /\ sp \in Scanner!Scan /\ sp.node \in Node /\ st.alarm[p] = 1
  <2>1. st \in ScanState
    BY DEF Balanced
  <2>2. sp \in Scanner!Scan
    BY <2>1 DEF ScanState
  <2>3. st.alarm[p] = 1
    BY DEF Balanced
  <2> QED BY <2>1, <2>2, <2>3 DEF Scanner!Scan
<1>2. Scanner!deleteschedule(s, p) = [s EXCEPT !.alarm[p] = IF @ = 0 THEN 0 ELSE @ - 1]
  BY DEF Scanner!deleteschedule
<1>3. PICK u : u = Scanner!deleteschedule(s, p)
  OBVIOUS
<1>a. PICK a \in [Scanner!Places -> {0, 1}] : a = [st.alarm EXCEPT ![p] = 0]
  BY <1>1 DEF ScanState
<1>4. u = [st EXCEPT !.alarm = a]
  <2>1. CASE s = st
    <3>1. u = [st EXCEPT !.alarm = [st.alarm EXCEPT ![p] = IF st.alarm[p] = 0 THEN 0 ELSE st.alarm[p] - 1]]
      BY <1>2, <1>3, <2>1
    <3>2. [st.alarm EXCEPT ![p] = IF st.alarm[p] = 0 THEN 0 ELSE st.alarm[p] - 1] = a
      BY <1>1, <1>a
    <3> QED BY <3>1, <3>2
  <2>2. CASE s = Unwatched(st, p)
    <3>1. s = [st EXCEPT !.alarm = a]
      BY <1>a, <2>2 DEF Unwatched
    <3>2. s.alarm = a
      BY <1>1, <3>1 DEF ScanState
    <3>3. u = [s EXCEPT !.alarm = [a EXCEPT ![p] = IF a[p] = 0 THEN 0 ELSE a[p] - 1]]
      BY <1>2, <1>3, <3>2
    <3>4. a[p] = 0 /\ [a EXCEPT ![p] = IF a[p] = 0 THEN 0 ELSE a[p] - 1] = a
      BY <1>1, <1>a DEF ScanState
    <3>5. u = [s EXCEPT !.alarm = a]
      BY <3>3, <3>4
    <3> QED BY <1>1, <3>1, <3>5 DEF ScanState
  <2> QED BY <2>1, <2>2
<1>5. PICK x \in [Scanner!Places -> Scanner!Scan \cup {NULL}] : x = [st.scans EXCEPT ![p] = NULL]
  BY <1>1 DEF ScanState
<1>6. st.active - 1 \in Nat /\ Running(st) \ {p} = Running([scans |-> x]) /\ p \in Running(st)
      /\ st.active - 1 = Cardinality(Running(st) \ {p}) /\ st.active - 1 <= maxscans
  <2>1. p \in Running(st) /\ st.active = Cardinality(Running(st)) /\ st.active <= maxscans /\ maxscans \in Nat
    BY PlaceFacts DEF Running, Balanced
  <2>2. /\ IsFiniteSet(Running(st)) /\ Cardinality(Running(st)) \in Nat
        /\ Cardinality(Running(st) \ {p}) = Cardinality(Running(st)) - 1
              /\ Cardinality(Running(st) \ {p}) \in Nat
    <3>1. IsFiniteSet(Running(st)) /\ Cardinality(Running(st)) \in Nat
      BY RunningFinite
    <3>2. Cardinality(Running(st) \ {p}) = Cardinality(Running(st)) - 1 /\ IsFiniteSet(Running(st) \ {p})
      BY <2>1, <3>1, FS_RemoveElement
    <3> QED BY <3>1, <3>2, FS_CardinalityType
  <2>3. st.active - 1 \in Nat /\ st.active - 1 = Cardinality(Running(st) \ {p}) /\ st.active - 1 <= maxscans
    BY <2>1, <2>2
  <2>4. \A q \in Scanner!Places : x[q] = IF q = p THEN NULL ELSE st.scans[q]
    BY <1>1, <1>5 DEF ScanState
  <2>5. Running(st) \ {p} = Running([scans |-> x])
    BY <2>4 DEF Running
  <2> QED BY <2>1, <2>3, <2>5
<1>7. t = [u EXCEPT !.scans = x, !.active = @ - 1]
  <2>1. u.scans = st.scans
    BY <1>1, <1>4 DEF ScanState
  <2> QED BY <1>3, <1>5, <2>1
<1>8. t = [st EXCEPT !.alarm = a, !.scans = x, !.active = @ - 1]
  BY <1>1, <1>4, <1>7 DEF ScanState
<1> HIDE DEF t
<1>9. /\ t.normal = st.normal /\ t.prio = st.prio /\ t.scans = x /\ t.alarm = a
      /\ t.active = st.active - 1 /\ t.cache = st.cache /\ t.refs = st.refs
  BY <1>1, <1>8 DEF ScanState
<1>10. t \in ScanState
  BY <1>1, <1>6, <1>8, OverType
<1>11. \A q \in Scanner!Places : t.alarm[q] = IF t.scans[q] # NULL THEN 1 ELSE 0
  <2>1. \A q \in Scanner!Places : st.alarm[q] = IF st.scans[q] # NULL THEN 1 ELSE 0
    BY DEF Balanced
  <2> QED BY <1>1, <1>a, <1>5, <1>9, <2>1 DEF ScanState
<1>12. t.active = Cardinality(Running(t)) /\ t.active <= maxscans
  <2>1. Running(t) = Running(st) \ {p}
    BY <1>6, <1>9 DEF Running
  <2> QED BY <1>6, <1>9, <2>1
<1>13. ASSUME NEW m \in Node PROVE t.refs[m] = Owed(t, m) + Up(held, sp.node)[m]
  <2>1. RunningAt(t, m) = RunningAt(st, m) \ {p} /\ (p \in RunningAt(st, m) <=> m = sp.node)
    <3>1. \A q \in Scanner!Places : x[q] = IF q = p THEN NULL ELSE st.scans[q]
      BY <1>1, <1>5 DEF ScanState
    <3> QED BY <1>9, <3>1 DEF RunningAt
  <2>2. /\ Cardinality(RunningAt(st, m)) \in Nat
        /\ Cardinality(JobsAt(st.normal, m)) \in Nat /\ Cardinality(JobsAt(st.prio, m)) \in Nat
    <3>1. st.normal \in Seq(Job) /\ st.prio \in Seq(Job)
      BY <1>1 DEF ScanState
    <3> QED BY <3>1, JobsFinite, RunningFinite
  <2>3. Cardinality(RunningAt(t, m)) = Cardinality(RunningAt(st, m)) - (IF m = sp.node THEN 1 ELSE 0)
    <3>1. Cardinality(RunningAt(st, m) \ {p}) =
            IF p \in RunningAt(st, m) THEN Cardinality(RunningAt(st, m)) - 1 ELSE Cardinality(RunningAt(st,
                m))
      BY RunningFinite, FS_RemoveElement
    <3> QED BY <2>1, <2>2, <3>1
  <2>4. Owed(t, m) = Owed(st, m) - (IF m = sp.node THEN 1 ELSE 0)
    BY <1>9, <2>2, <2>3 DEF Owed
  <2>5. /\ Up(held, sp.node)[m] = held[m] + (IF m = sp.node THEN 1 ELSE 0) /\ held[m] \in Int
        /\ Owed(st, m) \in Nat /\ st.refs[m] = Owed(st, m) + held[m]
    BY <1>1, UpFacts, OwedType DEF Balanced
  <2> QED BY <1>9, <2>4, <2>5
<1>14. Balanced(t, Up(held, sp.node))
  BY <1>10, <1>11, <1>12, <1>13 DEF Balanced
<1> QED BY <1>1, <1>9, <1>14 DEF t

\* killsock(): whatever a scan ends with, its place, its alarm and its reference are given back.
LEMMA killsockKeeps ==
  ASSUME Scanner!ScanAssumption, clock \in Nat, NEW st, NEW held \in [Node -> Int], NEW p \in Scanner!Places,
           NEW s,
         NEW open \in BOOLEAN, NEW bad, Balanced(st, held), st.scans[p] # NULL, s = st \/ s = Unwatched(st, p)
  PROVE  LET t == Scanner!killsock(s, p, open, bad) IN Balanced(t, held) /\ Settled(t)
<1>0. st \in ScanState
  BY DEF Balanced
<1>1. PICK over : over = [Scanner!deleteschedule(s, p) EXCEPT !.scans[p] = NULL, !.active = @ - 1]
  OBVIOUS
<1>2. PICK sp \in Scanner!Scan : sp = st.scans[p] /\ Balanced(over, Up(held, sp.node)) /\ sp.node \in Node
        /\ sp.kind \in Scanner!Kinds
  BY <1>1, OverFacts DEF Scanner!Scan
<1>3. s.scans[p] = sp
  BY <1>0, <1>2 DEF ScanState, Unwatched
<1>4. PICK told : told = IF open THEN Scanner!FoundOpen(over, sp)
                         ELSE IF Scanner!NextClass(sp) # NULL
                         THEN Scanner!queuescan(over, sp.node, sp.kind, Scanner!NextClass(sp),
                             clock + PassDelay, bad)
                         ELSE over
  OBVIOUS
<1>5. PICK h \in [Node -> Int] : h = Up(held, sp.node)
  BY <1>2, UpFacts
<1>6. Balanced(told, h)
  <2>1. CASE open
    <3>1. told = Scanner!FoundOpen(over, sp)
      BY <1>4, <2>1
    <3> QED BY <1>2, <1>5, <3>1, FoundOpenKeeps
  <2>2. CASE ~open /\ Scanner!NextClass(sp) # NULL
    <3>1. PICK class \in Scanner!Classes, when \in Nat : class = Scanner!NextClass(sp)
            /\ when = clock + PassDelay
      BY <1>2, <2>2, NextClassType DEF Scanner!ScanAssumption
    <3>2. told = Scanner!queuescan(over, sp.node, sp.kind, class, when, bad)
      BY <1>4, <2>2, <3>1
    <3> QED BY <1>2, <1>5, <3>1, <3>2, queuescanKeeps
  <2>3. CASE ~open /\ ~(Scanner!NextClass(sp) # NULL)
    BY <1>2, <1>4, <1>5, <2>3
  <2> QED BY <2>1, <2>2, <2>3
<1>7. PICK u : u = Scanner!derefnode(told, sp.node)
  OBVIOUS
<1>8. Balanced(u, held)
  BY <1>2, <1>5, <1>6, <1>7, Dereferenced
<1>9. Scanner!killsock(s, p, open, bad) = Scanner!startqueuedscans(u, bad)
  BY <1>1, <1>3, <1>4, <1>7 DEF Scanner!killsock
<1> QED BY <1>8, <1>9, startqueuedscansKeeps

\* An alarm that is set anew.
LEMMA Rescheduled ==
  ASSUME NEW st, NEW held, NEW p \in Scanner!Places, Balanced(st, held), st.scans[p] # NULL
  PROVE  /\ Scanner!scheduleoneshot(Scanner!deleteschedule(st, p), p) = st
         /\ Scanner!deleteschedule(st, p) = Unwatched(st, p)
         /\ [st EXCEPT !.alarm[p] = @ - 1] = Unwatched(st, p)
<1>1. st \in ScanState /\ st.alarm[p] = 1
  BY DEF Balanced
<1>2. PICK a \in [Scanner!Places -> {0, 1}] : a = st.alarm
  BY <1>1 DEF ScanState
<1>3. PICK b : b = [a EXCEPT ![p] = 0]
  OBVIOUS
<1>4. [a EXCEPT ![p] = IF a[p] = 0 THEN 0 ELSE a[p] - 1] = b /\ [a EXCEPT ![p] = a[p] - 1] = b
      /\ [b EXCEPT ![p] = b[p] + 1] = a
  BY <1>1, <1>2, <1>3
<1>5. Unwatched(st, p) = [st EXCEPT !.alarm = b]
  BY <1>2, <1>3 DEF Unwatched
<1>6. Scanner!deleteschedule(st, p) = [st EXCEPT !.alarm = b]
  BY <1>2, <1>4 DEF Scanner!deleteschedule
<1>7. [st EXCEPT !.alarm[p] = @ - 1] = [st EXCEPT !.alarm = b]
  BY <1>2, <1>4
<1>8. PICK u : u = [st EXCEPT !.alarm = b]
  OBVIOUS
<1>9. u.alarm = b
  BY <1>1, <1>8 DEF ScanState
<1>10. Scanner!scheduleoneshot(u, p) = [u EXCEPT !.alarm = a]
  BY <1>4, <1>9 DEF Scanner!scheduleoneshot
<1>11. [u EXCEPT !.alarm = a] = st
  BY <1>1, <1>2, <1>8 DEF ScanState
<1> QED BY <1>5, <1>6, <1>7, <1>8, <1>10, <1>11

LEMMA SentType ==
  ASSUME NEW st \in ScanState, NEW x \in [Scanner!Places -> Scanner!Scan \cup {NULL}]
  PROVE  [st EXCEPT !.scans = x] \in ScanState
  BY DEF ScanState

\* A scan that has sent its request is the same scan.
LEMMA SentRequest ==
  ASSUME Scanner!ScanAssumption, NEW st, NEW held, NEW p \in Scanner!Places, Balanced(st, held),
           st.scans[p] # NULL
  PROVE  LET t == [st EXCEPT !.scans[p].state = "sentrequest"]
         IN Balanced(t, held) /\ t.scans[p] # NULL /\ t.normal = st.normal /\ t.active = st.active
<1> DEFINE t == [st EXCEPT !.scans[p].state = "sentrequest"]
<1>1. st \in ScanState /\ st.scans[p] \in Scanner!Scan /\ NULL \notin Scanner!Scan
  BY DEF Balanced, ScanState, Scanner!ScanAssumption
<1>2. PICK sp \in Scanner!Scan : sp = [st.scans[p] EXCEPT !.state = "sentrequest"]
        /\ sp.node = st.scans[p].node
  <2>1. PICK old \in Scanner!Scan : old = st.scans[p]
    BY <1>1
  <2>2. [old EXCEPT !.state = "sentrequest"] \in Scanner!Scan
          /\ [old EXCEPT !.state = "sentrequest"].node = old.node
    BY DEF Scanner!Scan
  <2> QED BY <2>1, <2>2
<1>3. PICK x \in [Scanner!Places -> Scanner!Scan \cup {NULL}] : x = [st.scans EXCEPT ![p] = sp]
  BY <1>1 DEF ScanState
<1>4. t = [st EXCEPT !.scans = x]
  BY <1>2, <1>3
<1> HIDE DEF t
<1>5. t \in ScanState
  BY <1>1, <1>4, SentType
<1>6. /\ t.normal = st.normal /\ t.prio = st.prio /\ t.scans = x /\ t.alarm = st.alarm
      /\ t.active = st.active /\ t.cache = st.cache /\ t.refs = st.refs
  BY <1>1, <1>4 DEF ScanState
<1>7. \A q \in Scanner!Places : t.scans[q] = IF q = p THEN sp ELSE st.scans[q]
  BY <1>1, <1>3, <1>6 DEF ScanState
<1>8. \A q \in Scanner!Places : /\ t.scans[q] # NULL <=> st.scans[q] # NULL
                                /\ t.scans[q].node = st.scans[q].node
  BY <1>1, <1>2, <1>7
<1>9. Running(t) = Running(st) /\ \A m \in Node : RunningAt(t, m) = RunningAt(st, m)
  BY <1>8 DEF Running, RunningAt
<1>10. \A m \in Node : Owed(t, m) = Owed(st, m)
  BY <1>6, <1>9 DEF Owed
<1>11. Balanced(t, held)
  BY <1>5, <1>6, <1>8, <1>9, <1>10 DEF Balanced
<1> QED BY <1>6, <1>8, <1>11 DEF t

-----------------------------------------------------------------------------
(* The steps. *)

Bits == [n \in Node |-> IF connected[n] THEN 1 ELSE 0]

ScanInv ==
  /\ Balanced(Scanner!State, Bits) /\ Full(Scanner!State)
  /\ connected \in [Node -> BOOLEAN] /\ clock \in Nat

LEMMA BecomeIs ==
  ASSUME NEW st \in ScanState, Scanner!Become(st)
  PROVE  Scanner!State' = st
  BY DEF ScanState, Scanner!Become, Scanner!State

LEMMA SettledFull ==
  ASSUME NEW st, Settled(st)
  PROVE  Full(st) /\ (Full(st))'
  BY DEF Settled, Full

LEMMA ScansKept ==
  ASSUME NEW st, NEW held, Balanced(st, held), held = Bits', Scanner!Become(st),
         ready' /\ st.normal # <<>> => st.active = maxscans,
         connected' \in [Node -> BOOLEAN], clock' \in Nat
  PROVE  ScanInv'
<1>1. st \in ScanState
  BY DEF Balanced
<1>2. Scanner!State' = st
  BY <1>1, BecomeIs
<1>3. Balanced(Scanner!State', Bits')
  BY <1>2
<1>4. ready' /\ Scanner!State'.normal # <<>> => Scanner!State'.active = maxscans
  BY <1>2
<1>5. Balanced(Scanner!State, Bits)'
  BY <1>3 DEF Balanced, ScanState, Running, RunningAt, JobsAt, Owed
<1>6. Full(Scanner!State)'
  BY <1>4 DEF Full
<1> QED BY <1>5, <1>6 DEF ScanInv

LEMMA BitsFacts ==
  ASSUME connected \in [Node -> BOOLEAN]
  PROVE  Bits \in [Node -> Int]
  BY DEF Bits

LEMMA DoesKeeps ==
  ASSUME ScanInv, NEW st, Balanced(st, Bits), Full(st), Scanner!Does(st)
  PROVE  ScanInv'
<1>1. PICK held : held = Bits
  OBVIOUS
<1>2. Scanner!Become(st) /\ ready' = ready /\ connected' = connected /\ clock' = clock
  BY DEF Scanner!Does
<1>3. held = Bits'
  BY <1>1, <1>2 DEF Bits
<1>4. connected' \in [Node -> BOOLEAN] /\ clock' \in Nat
  BY <1>2 DEF ScanInv
<1>5. ready' /\ st.normal # <<>> => st.active = maxscans
  BY <1>2 DEF Full
<1>6. Balanced(st, held)
  BY <1>1
<1> QED BY <1>2, <1>3, <1>4, <1>5, <1>6, ScansKept

LEMMA KillsKeeps ==
  ASSUME Scanner!ScanAssumption, ScanInv, NEW st, NEW p \in Scanner!Places, NEW s, NEW open \in BOOLEAN,
           NEW bad,
         Balanced(st, Bits), st.scans[p] # NULL, s = st \/ s = Unwatched(st, p),
         Scanner!Does(Scanner!killsock(s, p, open, bad))
  PROVE  ScanInv'
<1>1. PICK t : t = Scanner!killsock(s, p, open, bad)
  OBVIOUS
<1>2. Bits \in [Node -> Int] /\ clock \in Nat
  BY BitsFacts DEF ScanInv
<1>3. Balanced(t, Bits) /\ Settled(t)
  BY <1>1, <1>2, killsockKeeps
<1>4. Scanner!Does(t)
  BY <1>1
<1> QED BY <1>3, <1>4, DoesKeeps, SettledFull

LEMMA StateFields ==
  /\ Scanner!State.normal = normalqueue /\ Scanner!State.prio = prioqueue /\ Scanner!State.scans = scantable
  /\ Scanner!State.alarm = alarm /\ Scanner!State.active = activescans /\ Scanner!State.cache = cache
  /\ Scanner!State.refs = refs
  BY DEF Scanner!State

LEMMA PlaceSteps ==
  ASSUME Scanner!ScanAssumption, ScanInv, NEW bad, NEW p \in Scanner!Places, NEW yes \in BOOLEAN,
         \/ Scanner!timeoutscansock(p, bad) \/ Scanner!Failed(p, bad)
         \/ Scanner!Connected(p, yes, bad) \/ Scanner!Answered(p, yes, bad) \/ Scanner!MoreRead(p)
  PROVE  ScanInv'
<1>1. PICK st : st = Scanner!State
  OBVIOUS
<1>2. Balanced(st, Bits) /\ Full(st) /\ FALSE \in BOOLEAN
  BY <1>1 DEF ScanInv
<1>3. st.scans[p] = scantable[p] /\ st.alarm[p] = alarm[p]
  BY <1>1, StateFields
<1>4. CASE Scanner!timeoutscansock(p, bad)
  <2>1. st.scans[p] # NULL
    <3>1. st.alarm[p] = IF st.scans[p] # NULL THEN 1 ELSE 0
      BY <1>2 DEF Balanced
    <3>2. alarm[p] > 0
      BY <1>4 DEF Scanner!timeoutscansock
    <3> QED BY <1>3, <3>1, <3>2
  <2>2. Scanner!Does(Scanner!killsock(Unwatched(st, p), p, FALSE, bad))
    BY <1>1, <1>2, <1>4, <2>1, Rescheduled DEF Scanner!timeoutscansock
  <2> QED BY <1>2, <2>1, <2>2, KillsKeeps
<1>5. CASE Scanner!Failed(p, bad)
  <2>1. st.scans[p] # NULL
    BY <1>3, <1>5 DEF Scanner!Failed
  <2>2. Scanner!Does(Scanner!killsock(Unwatched(st, p), p, FALSE, bad))
    BY <1>1, <1>2, <1>5, <2>1, Rescheduled DEF Scanner!Failed
  <2> QED BY <1>2, <2>1, <2>2, KillsKeeps
<1>6. CASE Scanner!Answered(p, yes, bad)
  <2>1. st.scans[p] # NULL
    BY <1>3, <1>6 DEF Scanner!Answered
  <2>2. Scanner!Does(Scanner!killsock(Unwatched(st, p), p, yes, bad))
    BY <1>1, <1>2, <1>6, <2>1, Rescheduled DEF Scanner!Answered
  <2> QED BY <1>2, <2>1, <2>2, KillsKeeps
<1>7. CASE Scanner!MoreRead(p)
  <2>1. st.scans[p] # NULL
    BY <1>3, <1>7 DEF Scanner!MoreRead
  <2>2. Scanner!Does(st)
    BY <1>1, <1>2, <1>7, <2>1, Rescheduled DEF Scanner!MoreRead
  <2> QED BY <1>2, <2>2, DoesKeeps
<1>8. CASE Scanner!Connected(p, yes, bad)
  <2>1. st.scans[p] # NULL
    BY <1>3, <1>8 DEF Scanner!Connected
  <2>2. PICK u : u = [st EXCEPT !.scans[p].state = "sentrequest"]
    OBVIOUS
  <2>3. Balanced(u, Bits) /\ u.scans[p] # NULL /\ Full(u)
    BY <1>2, <2>1, <2>2, SentRequest DEF Full
  <2>4. u = [Scanner!scheduleoneshot(Scanner!deleteschedule(st, p),
        p) EXCEPT !.scans[p].state = "sentrequest"]
    BY <1>2, <2>1, <2>2, Rescheduled
  <2>5. Scanner!Does(IF yes THEN u ELSE Scanner!killsock(u, p, FALSE, bad))
    BY <1>1, <1>8, <2>4 DEF Scanner!Connected
  <2>6. CASE yes
    BY <2>3, <2>5, <2>6, DoesKeeps
  <2>7. CASE ~yes
    BY <1>2, <2>3, <2>5, <2>7, KillsKeeps
  <2> QED BY <2>6, <2>7
<1> QED BY <1>4, <1>5, <1>6, <1>7, <1>8

LEMMA KindsFacts ==
  ASSUME Scanner!ScanAssumption
  PROVE  thescans \in Seq(Scanner!Kinds) /\ IsFiniteSet(Scanner!Kinds)
<1>1. thescans \in Seq(Scanner!Kinds)
  BY DEF Scanner!ScanAssumption
<1>2. PICK n \in Nat : n = Len(thescans) /\ DOMAIN thescans = 1 .. n
  BY <1>1
<1>3. Scanner!Kinds = {thescans[i] : i \in 1 .. n}
  BY <1>2 DEF Scanner!Kinds, Scanner!Range
<1>4. thescans \in [1 .. n -> Scanner!Kinds]
  BY <1>1, <1>2
<1>5. thescans \in Surjection(1 .. n, Scanner!Kinds)
  BY <1>3, <1>4 DEF Surjection
<1>6. IsFiniteSet(1 .. n)
  BY FS_Interval
<1> QED BY <1>1, <1>5, <1>6, FS_Surjection

LEMMA SetToSeqType ==
  ASSUME NEW K, IsFiniteSet(K), NEW S \in SUBSET K
  PROVE  Scanner!SetToSeq(S) \in Seq(K)
<1>1. PICK n \in Nat : n = Cardinality(S) /\ ExistsBijection(1 .. n, S)
  <2>1. IsFiniteSet(S)
    BY FS_Subset
  <2>2. Cardinality(S) \in Nat /\ ExistsBijection(1 .. Cardinality(S), S)
    BY <2>1, FS_CardinalityType
  <2> QED BY <2>2
<1>2. PICK f : f \in Bijection(1 .. n, S)
  BY <1>1 DEF ExistsBijection
<1>3. f \in [1 .. n -> S] /\ Scanner!IsInjective(f)
  BY <1>2 DEF Bijection, Injection, IsInjective, Scanner!IsInjective
<1>4. Scanner!SetToSeq(S) = CHOOSE g \in [1 .. n -> S] : Scanner!IsInjective(g)
  BY <1>1, SameCardinality DEF Scanner!SetToSeq
<1>5. Scanner!SetToSeq(S) \in [1 .. n -> S]
  BY <1>3, <1>4
<1> QED BY <1>5

\* proxyscan_newnick(), with a reference that the nick has.
LEMMA ScannedKeeps ==
  ASSUME Scanner!ScanAssumption, clock \in Nat, NEW st, NEW held \in [Node -> Int], NEW n \in Node, NEW bad,
         Balanced(st, held), Full(st)
  PROVE  LET t == Scanner!Scanned(st, n, bad) IN Balanced(t, held) /\ Full(t)
<1>1. PICK found : found = Scanner!findcachehost(st, n)
  OBVIOUS
<1>2. Balanced(found, held) /\ Full(found)
  BY <1>1, findcachehostKeeps DEF Full
<1>3. PICK known : known = found.cache[n]
  OBVIOUS
<1>4. known \in Scanner!CachedHost \cup {NULL}
  BY <1>2, <1>3 DEF Balanced, ScanState
<1>5. Scanner!Scanned(st, n, bad) =
        IF known = NULL
        THEN Scanner!QueueAll(Scanner!addcleanhost(found, n), n, thescans, "normal", 0, bad)
        ELSE IF known.proxies = {} \/ clock < known.lastscan + Again THEN found
        ELSE [Scanner!QueueAll(found, n, Scanner!SetToSeq(known.proxies), "check", clock, bad)
                EXCEPT !.cache[n] = [lastscan |-> clock, proxies |-> {}]]
  BY <1>1, <1>3 DEF Scanner!Scanned
<1>6. "normal" \in Scanner!Classes /\ "check" \in Scanner!Classes /\ 0 \in Nat
  BY DEF Scanner!Classes
<1>7. CASE known = NULL
  <2>1. PICK u : u = Scanner!addcleanhost(found, n)
    OBVIOUS
  <2>2. Balanced(u, held) /\ Full(u)
    BY <1>2, <1>3, <1>7, <2>1, addcleanhostKeeps DEF Full
  <2>3. Scanner!Scanned(st, n, bad) = Scanner!QueueAll(u, n, thescans, "normal", 0, bad)
    BY <1>5, <1>7, <2>1
  <2>4. PICK class \in Scanner!Classes : class = "normal"
    BY <1>6
  <2> QED BY <2>2, <2>3, <2>4, KindsFacts, QueueAllKeeps
<1>8. CASE known # NULL /\ (known.proxies = {} \/ clock < known.lastscan + Again)
  <2>1. Scanner!Scanned(st, n, bad) = found
    BY <1>5, <1>8
  <2> QED BY <1>2, <2>1
<1>9. CASE known # NULL /\ ~(known.proxies = {} \/ clock < known.lastscan + Again)
  <2>1. known \in Scanner!CachedHost /\ known.proxies \in SUBSET Scanner!Kinds
    BY <1>4, <1>9 DEF Scanner!CachedHost
  <2>2. PICK kinds \in Seq(Scanner!Kinds) : kinds = Scanner!SetToSeq(known.proxies)
    BY <2>1, KindsFacts, SetToSeqType
  <2>3. PICK class \in Scanner!Classes : class = "check"
    BY <1>6
  <2>4. PICK u : u = Scanner!QueueAll(found, n, kinds, class, clock, bad)
    OBVIOUS
  <2>5. Balanced(u, held) /\ Full(u) /\ u.cache[n] = known
    BY <1>2, <1>3, <2>4, QueueAllKeeps
  <2>6. PICK c : c = [lastscan |-> clock, proxies |-> {}]
    OBVIOUS
  <2>7. c \in Scanner!CachedHost \cup {NULL} /\ c # NULL
    BY <2>6 DEF Scanner!CachedHost, Scanner!ScanAssumption
  <2>8. PICK t : t = [u EXCEPT !.cache[n] = c]
    OBVIOUS
  <2>9. Balanced(t, held) /\ t.normal = u.normal /\ t.active = u.active
    BY <1>9, <2>5, <2>7, <2>8, CacheSet
  <2>10. Scanner!Scanned(st, n, bad) = t
    BY <1>5, <1>9, <2>2, <2>3, <2>4, <2>6, <2>8
  <2> QED BY <2>5, <2>9, <2>10 DEF Full
<1> QED BY <1>7, <1>8, <1>9

LEMMA NickSteps ==
  ASSUME Scanner!ScanAssumption, ScanInv, NEW bad, NEW n \in Node,
         Scanner!newnick(n, bad) \/ Scanner!lostnick(n) \/ Scanner!startnickscan(n, bad)
  PROVE  ScanInv'
<1>1. PICK st : st = Scanner!State
  OBVIOUS
<1>2. PICK held \in [Node -> Int] : held = Bits
  BY BitsFacts DEF ScanInv
<1>3. /\ Balanced(st, held) /\ Full(st) /\ clock \in Nat /\ connected \in [Node -> BOOLEAN]
      /\ \A m \in Node : held[m] = IF connected[m] THEN 1 ELSE 0
  BY <1>1, <1>2 DEF ScanInv, Bits
<1>4. CASE Scanner!newnick(n, bad)
  <2>1. PICK u, t : u = Scanner!ref(st, n) /\ t = Scanner!Scanned(u, n, bad)
    OBVIOUS
  <2>2. /\ ~connected[n] /\ connected' = [connected EXCEPT ![n] = TRUE] /\ Scanner!Become(t)
        /\ ready' = ready /\ clock' = clock
    BY <1>1, <1>4, <2>1 DEF Scanner!newnick
  <2>3. PICK h \in [Node -> Int] : h = Up(held, n)
    BY UpFacts
  <2>4. Balanced(u, h) /\ Full(u)
    BY <1>3, <2>1, <2>3, Referenced DEF Full
  <2>5. Balanced(t, h) /\ Full(t)
    BY <1>3, <2>1, <2>4, ScannedKeeps
  <2>6. h = Bits'
    <3>1. \A m \in Node : h[m] = IF connected'[m] THEN 1 ELSE 0
      BY <1>3, <2>2, <2>3, UpFacts
    <3>2. h = [m \in Node |-> IF connected'[m] THEN 1 ELSE 0]
      BY <3>1
    <3> QED BY <3>2 DEF Bits
  <2>7. connected' \in [Node -> BOOLEAN] /\ clock' \in Nat /\ (ready' /\ t.normal # <<>>
          => t.active = maxscans)
    BY <1>3, <2>2, <2>5 DEF Full
  <2> QED BY <2>2, <2>5, <2>6, <2>7, ScansKept
<1>5. CASE Scanner!lostnick(n)
  <2>1. PICK t : t = Scanner!derefnode(st, n)
    OBVIOUS
  <2>2. /\ connected[n] /\ connected' = [connected EXCEPT ![n] = FALSE] /\ Scanner!Become(t)
        /\ ready' = ready /\ clock' = clock
    BY <1>1, <1>5, <2>1 DEF Scanner!lostnick
  <2>3. PICK h \in [Node -> Int] : h = Down(held, n) /\ Up(h, n) = held
    BY DownFacts
  <2>4. Balanced(st, Up(h, n))
    BY <1>3, <2>3
  <2>5. Balanced(t, h) /\ Full(t)
    BY <1>3, <2>1, <2>4, Dereferenced DEF Full
  <2>6. h = Bits'
    <3>1. \A m \in Node : h[m] = IF connected'[m] THEN 1 ELSE 0
      BY <1>3, <2>2, <2>3, DownFacts
    <3>2. h = [m \in Node |-> IF connected'[m] THEN 1 ELSE 0]
      BY <3>1
    <3> QED BY <3>2 DEF Bits
  <2>7. connected' \in [Node -> BOOLEAN] /\ clock' \in Nat /\ (ready' /\ t.normal # <<>>
          => t.active = maxscans)
    BY <1>3, <2>2, <2>5 DEF Full
  <2> QED BY <2>2, <2>5, <2>6, <2>7, ScansKept
<1>6. CASE Scanner!startnickscan(n, bad)
  <2>1. PICK class \in Scanner!Classes : class = "normal"
    BY DEF Scanner!Classes
  <2>2. PICK t : t = Scanner!QueueAll(st, n, thescans, class, clock, bad)
    OBVIOUS
  <2>3. Scanner!Become(t) /\ ready' = ready /\ connected' = connected /\ clock' = clock
    BY <1>1, <1>6, <2>1, <2>2 DEF Scanner!startnickscan
  <2>4. Balanced(t, held) /\ Full(t)
    BY <1>3, <2>2, KindsFacts, QueueAllKeeps
  <2>5. held = Bits'
    BY <1>2, <2>3 DEF Bits
  <2>6. connected' \in [Node -> BOOLEAN] /\ clock' \in Nat /\ (ready' /\ t.normal # <<>>
          => t.active = maxscans)
    BY <1>3, <2>3, <2>4 DEF Full
  <2> QED BY <2>3, <2>4, <2>5, <2>6, ScansKept
<1> QED BY <1>4, <1>5, <1>6

LEMMA ConnectStep ==
  ASSUME Scanner!ScanAssumption, ScanInv, NEW bad, Scanner!proxyscan_onconnect(bad)
  PROVE  ScanInv'
<1>1. PICK st, t : st = Scanner!State /\ t = Scanner!startqueuedscans(st, bad)
  OBVIOUS
<1>2. PICK held \in [Node -> Int] : held = Bits
  BY BitsFacts DEF ScanInv
<1>3. Balanced(st, held) /\ clock \in Nat /\ connected \in [Node -> BOOLEAN]
  BY <1>1, <1>2 DEF ScanInv
<1>4. Scanner!Become(t) /\ connected' = connected /\ clock' = clock
  BY <1>1 DEF Scanner!proxyscan_onconnect
<1>5. Balanced(t, held) /\ Settled(t)
  BY <1>1, <1>3, startqueuedscansKeeps
<1>6. held = Bits'
  BY <1>2, <1>4 DEF Bits
<1>7. connected' \in [Node -> BOOLEAN] /\ clock' \in Nat /\ (ready' /\ t.normal # <<>> => t.active = maxscans)
  BY <1>3, <1>4, <1>5 DEF Settled
<1> QED BY <1>4, <1>5, <1>6, <1>7, ScansKept

LEMMA DumpedType ==
  ASSUME NEW st \in ScanState, NEW c \in [Node -> Scanner!CachedHost \cup {NULL}], NEW r \in [Node -> Int]
  PROVE  [st EXCEPT !.cache = c, !.refs = r] \in ScanState
  BY DEF ScanState

LEMMA DumpStep ==
  ASSUME Scanner!ScanAssumption, ScanInv, Scanner!dumpcachehosts
  PROVE  ScanInv'
<1>1. PICK st : st = Scanner!State
  OBVIOUS
<1>2. PICK held \in [Node -> Int] : held = Bits
  BY BitsFacts DEF ScanInv
<1>3. Balanced(st, held) /\ Full(st) /\ st \in ScanState
  BY <1>1, <1>2 DEF ScanInv, Balanced
<1>4. PICK over : over = {n \in Node : cache[n] # NULL /\ Scanner!Stale(cache[n])}
  OBVIOUS
<1>5. PICK c \in [Node -> Scanner!CachedHost \cup {NULL}] : c = [n \in Node |-> IF n \in over THEN NULL
        ELSE st.cache[n]]
  <2>1. \A n \in Node : st.cache[n] \in Scanner!CachedHost \cup {NULL}
    BY <1>3 DEF ScanState
  <2>2. \A n \in Node : (IF n \in over THEN NULL ELSE st.cache[n]) \in Scanner!CachedHost \cup {NULL}
    BY <2>1
  <2> QED BY <2>2
<1>6. PICK r \in [Node -> Int] : r = [n \in Node |-> IF n \in over THEN st.refs[n] - 1 ELSE st.refs[n]]
  <2>1. \A n \in Node : st.refs[n] \in Int
    BY <1>3 DEF ScanState
  <2>2. \A n \in Node : (IF n \in over THEN st.refs[n] - 1 ELSE st.refs[n]) \in Int
    BY <2>1
  <2> QED BY <2>2
<1>7. PICK t : t = [st EXCEPT !.cache = c, !.refs = r]
  OBVIOUS
<1>8. Scanner!Does(t)
  BY <1>1, <1>4, <1>5, <1>6, <1>7 DEF Scanner!dumpcachehosts
<1>9. t \in ScanState
  BY <1>3, <1>7, DumpedType
<1>10. /\ t.normal = st.normal /\ t.prio = st.prio /\ t.scans = st.scans /\ t.alarm = st.alarm
       /\ t.active = st.active /\ t.cache = c /\ t.refs = r
  BY <1>3, <1>7 DEF ScanState
<1>11. Running(t) = Running(st) /\ \A m \in Node : RunningAt(t, m) = RunningAt(st, m)
  BY <1>10 DEF Running, RunningAt
<1>12. ASSUME NEW m \in Node PROVE t.refs[m] = Owed(t, m) + held[m]
  <2>1. PICK a \in Int : a = Cardinality(RunningAt(st, m)) + Cardinality(JobsAt(st.normal,
        m)) + Cardinality(JobsAt(st.prio, m))
    <3>1. st.normal \in Seq(Job) /\ st.prio \in Seq(Job)
      BY <1>3 DEF ScanState
    <3>2. /\ Cardinality(RunningAt(st, m)) \in Nat
          /\ Cardinality(JobsAt(st.normal, m)) \in Nat /\ Cardinality(JobsAt(st.prio, m)) \in Nat
      BY <3>1, JobsFinite, RunningFinite
    <3> QED BY <3>2
  <2>2. Owed(st, m) = a + (IF st.cache[m] # NULL THEN 1 ELSE 0)
    BY <2>1 DEF Owed
  <2>3. Owed(t, m) = a + (IF c[m] # NULL THEN 1 ELSE 0)
    BY <1>10, <1>11, <2>1 DEF Owed
  <2>4. m \in over => st.cache[m] # NULL
    BY <1>1, <1>4, StateFields
  <2>5. st.refs[m] = Owed(st, m) + held[m] /\ held[m] \in Int /\ st.refs[m] \in Int
    BY <1>3 DEF Balanced, ScanState
  <2>6. c[m] = (IF m \in over THEN NULL ELSE st.cache[m]) /\ t.refs[m] = IF m \in over
          THEN st.refs[m] - 1 ELSE st.refs[m]
    BY <1>5, <1>6, <1>10
  <2> QED BY <2>2, <2>3, <2>4, <2>5, <2>6
<1>13. Balanced(t, held) /\ Full(t)
  BY <1>3, <1>9, <1>10, <1>11, <1>12 DEF Balanced, Full
<1> QED BY <1>2, <1>8, <1>13, DoesKeeps

LEMMA ClockStep ==
  ASSUME ScanInv, Scanner!Tick \/ UNCHANGED Scanner!vars
  PROVE  ScanInv'
<1>1. PICK st, held : st = Scanner!State /\ held = Bits
  OBVIOUS
<1>2. Balanced(st, held) /\ Full(st) /\ clock \in Nat /\ connected \in [Node -> BOOLEAN]
  BY <1>1 DEF ScanInv
<1>3. Scanner!Become(st) /\ ready' = ready /\ connected' = connected /\ clock' \in Nat
  BY <1>1, <1>2, StateFields DEF Scanner!Tick, Scanner!vars, Scanner!Become
<1>4. held = Bits'
  BY <1>1, <1>3 DEF Bits
<1>5. connected' \in [Node -> BOOLEAN] /\ (ready' /\ st.normal # <<>> => st.active = maxscans)
  BY <1>2, <1>3 DEF Full
<1> QED BY <1>2, <1>3, <1>4, <1>5, ScansKept

LEMMA ScansStep ==
  ASSUME Scanner!ScanAssumption, ScanInv, [Scanner!Next]_(Scanner!vars)
  PROVE  ScanInv'
<1>1. CASE UNCHANGED Scanner!vars \/ Scanner!Tick
  BY <1>1, ClockStep
<1>2. CASE Scanner!dumpcachehosts
  BY <1>2, DumpStep
<1>3. ASSUME NEW n \in Node, Scanner!lostnick(n) PROVE ScanInv'
  BY <1>3, NickSteps
<1>4. ASSUME NEW p \in Scanner!Places, Scanner!MoreRead(p) PROVE ScanInv'
  BY <1>4, PlaceSteps
<1>5. ASSUME NEW bad \in SUBSET Scanner!Kinds, Scanner!proxyscan_onconnect(bad) PROVE ScanInv'
  BY <1>5, ConnectStep
<1>6. ASSUME NEW bad \in SUBSET Scanner!Kinds, NEW n \in Node, Scanner!newnick(n, bad)
        \/ Scanner!startnickscan(n, bad)
      PROVE  ScanInv'
  BY <1>6, NickSteps
<1>7. ASSUME NEW bad \in SUBSET Scanner!Kinds, NEW p \in Scanner!Places,
             Scanner!timeoutscansock(p, bad) \/ Scanner!Failed(p, bad)
      PROVE  ScanInv'
  <2>1. TRUE \in BOOLEAN
    OBVIOUS
  <2> QED BY <1>7, <2>1, PlaceSteps
<1>8. ASSUME NEW bad \in SUBSET Scanner!Kinds, NEW p \in Scanner!Places, NEW yes \in BOOLEAN,
             Scanner!Connected(p, yes, bad) \/ Scanner!Answered(p, yes, bad)
      PROVE  ScanInv'
  BY <1>8, PlaceSteps
<1> QED BY <1>1, <1>2, <1>3, <1>4, <1>5, <1>6, <1>7, <1>8 DEF Scanner!Next

LEMMA ScansStart ==
  ASSUME Scanner!ScanAssumption, Scanner!Init
  PROVE  ScanInv
<1>1. PICK st : st = Scanner!State
  OBVIOUS
<1>2. /\ st.normal = <<>> /\ st.prio = <<>> /\ st.scans = [p \in Scanner!Places |-> NULL]
      /\ st.alarm = [p \in Scanner!Places |-> 0] /\ st.active = 0
      /\ st.cache = [n \in Node |-> NULL] /\ st.refs = [n \in Node |-> 0]
      /\ connected = [n \in Node |-> FALSE] /\ clock = 1
  BY <1>1, StateFields DEF Scanner!Init
<1>3. st \in ScanState
  <2>1. /\ st.normal \in Seq(Job) /\ st.prio \in Seq(Job)
             /\ st.scans \in [Scanner!Places -> Scanner!Scan \cup {NULL}]
        /\ st.alarm \in [Scanner!Places -> {0, 1}] /\ st.active \in Nat
        /\ st.cache \in [Node -> Scanner!CachedHost \cup {NULL}] /\ st.refs \in [Node -> Int]
    BY <1>2
  <2>2. st = [normal |-> st.normal, prio |-> st.prio, scans |-> st.scans, alarm |-> st.alarm,
              active |-> st.active, cache |-> st.cache, refs |-> st.refs]
    BY <1>1, StateFields DEF Scanner!State
  <2> QED BY <2>1, <2>2 DEF ScanState
<1>4. /\ Running(st) = {} /\ \A m \in Node : RunningAt(st, m) = {}
      /\ \A m : JobsAt(st.normal, m) = {} /\ JobsAt(st.prio, m) = {}
  BY <1>2 DEF Running, RunningAt, JobsAt
<1>5. Cardinality({}) = 0
  BY FS_EmptySet
<1>6. ASSUME NEW m \in Node PROVE st.refs[m] = Owed(st, m) + Bits[m]
  <2>1. Owed(st, m) = 0 + 0 + 0 + 0
    BY <1>2, <1>4, <1>5 DEF Owed
  <2>2. Bits[m] = 0 /\ st.refs[m] = 0
    BY <1>2 DEF Bits
  <2> QED BY <2>1, <2>2
<1>7. \A p \in Scanner!Places : st.alarm[p] = IF st.scans[p] # NULL THEN 1 ELSE 0
  BY <1>2
<1>8. st.active = Cardinality(Running(st)) /\ st.active <= maxscans
  BY <1>2, <1>4, <1>5, PlaceFacts
<1>9. Balanced(st, Bits) /\ Full(st)
  BY <1>2, <1>3, <1>6, <1>7, <1>8 DEF Balanced, Full
<1> QED BY <1>1, <1>2, <1>9 DEF ScanInv

LEMMA InvScansExact ==
  ASSUME Scanner!ScanAssumption, ScanInv
  PROVE  Scanner!ScansExact
<1>1. PICK st : st = Scanner!State
  OBVIOUS
<1>2. Balanced(st, Bits) /\ Full(st)
  BY <1>1 DEF ScanInv
<1>3. /\ st.normal = normalqueue /\ st.prio = prioqueue /\ st.scans = scantable
      /\ st.alarm = alarm /\ st.active = activescans /\ st.cache = cache /\ st.refs = refs
  BY <1>1, StateFields
<1> DEFINE R == {p \in Scanner!Places : scantable[p] # NULL}
<1>4. R = Running(st)
  BY <1>3 DEF Running
<1>5. activescans = Scanner!Cardinality(R) /\ activescans <= maxscans
  BY <1>2, <1>3, <1>4, SameCardinality DEF Balanced
<1>6. \A p \in Scanner!Places : alarm[p] = IF p \in R THEN 1 ELSE 0
  BY <1>2, <1>3 DEF Balanced
<1>7. ready /\ normalqueue # <<>> => activescans = maxscans
  BY <1>2, <1>3 DEF Full
<1>8. ASSUME NEW n \in Node
      PROVE  refs[n] = Scanner!Cardinality({p \in R : scantable[p].node = n})
                       + Scanner!Cardinality({i \in DOMAIN normalqueue : normalqueue[i].node = n})
                       + Scanner!Cardinality({i \in DOMAIN prioqueue : prioqueue[i].node = n})
                       + (IF connected[n] THEN 1 ELSE 0) + (IF cache[n] # NULL THEN 1 ELSE 0)
  <2>1. {p \in R : scantable[p].node = n} = RunningAt(st, n)
    BY <1>3 DEF RunningAt
  <2>2. /\ {i \in DOMAIN normalqueue : normalqueue[i].node = n} = JobsAt(st.normal, n)
        /\ {i \in DOMAIN prioqueue : prioqueue[i].node = n} = JobsAt(st.prio, n)
    BY <1>3 DEF JobsAt
  <2>3. refs[n] = Owed(st, n) + Bits[n]
    BY <1>2, <1>3 DEF Balanced
  <2>4. Bits[n] = IF connected[n] THEN 1 ELSE 0
    BY DEF Bits
  <2>5. Owed(st, n) = Cardinality(RunningAt(st, n)) + Cardinality(JobsAt(st.normal,
        n)) + Cardinality(JobsAt(st.prio, n))
                      + (IF cache[n] # NULL THEN 1 ELSE 0)
    BY <1>3 DEF Owed
  <2>6. PICK a \in Int, b \in Int, c \in Int :
             /\ a = Cardinality(RunningAt(st, n)) /\ b = Cardinality(JobsAt(st.normal, n))
             /\ c = Cardinality(JobsAt(st.prio, n))
    <3>1. st.normal \in Seq(Job) /\ st.prio \in Seq(Job)
      BY <1>2 DEF Balanced, ScanState
    <3> QED BY <3>1, JobsFinite, RunningFinite
  <2>7. PICK k \in Int, o \in Int : k = (IF cache[n] # NULL THEN 1 ELSE 0) /\ o = IF connected[n] THEN 1
          ELSE 0
    OBVIOUS
  <2>8. refs[n] = a + b + c + k + o
    BY <2>3, <2>4, <2>5, <2>6, <2>7
  <2>9. a \in Int /\ b \in Int /\ c \in Int /\ k \in Int /\ o \in Int
    BY <2>6, <2>7
  <2>10. refs[n] = a + b + c + o + k
    BY <2>8, <2>9
  <2>11. /\ a = Scanner!Cardinality({p \in R : scantable[p].node = n})
         /\ b = Scanner!Cardinality({i \in DOMAIN normalqueue : normalqueue[i].node = n})
         /\ c = Scanner!Cardinality({i \in DOMAIN prioqueue : prioqueue[i].node = n})
    BY <2>1, <2>2, <2>6, SameCardinality
  <2> QED BY <2>7, <2>10, <2>11
<1> HIDE DEF R
<1>9. R = {p \in Scanner!Places : scantable[p] # NULL}
  BY DEF R
<1> QED BY <1>5, <1>6, <1>7, <1>8, <1>9 DEF Scanner!ScansExact

\* As many scans run as may, each with one alarm, none waits that could run, and each address has a
\* reference for every nick, every scan and the cache, for any addresses, any list of scans and any
\* limit, whatever ends a scan and whatever fails to start.
THEOREM ScansBalance ==
  ASSUME Scanner!ScanAssumption
  PROVE  Scanner!Spec => [](Scanner!ScansExact /\ ScansExact)
<1>1. Scanner!Init => ScanInv
  BY ScansStart
<1>2. ScanInv /\ [Scanner!Next]_(Scanner!vars) => ScanInv'
  BY ScansStep
<1>3. ScanInv => Scanner!ScansExact /\ ScansExact
  BY InvScansExact DEF ScansExact
<1> QED BY <1>1, <1>2, <1>3, PTL DEF Scanner!Spec

-----------------------------------------------------------------------------
(* Steps one after the other. *)

\* What holds at 0 and with each number at the next holds up to N.
LEMMA NumberByNumber ==
  ASSUME NEW N \in Nat, NEW P, 0 \in P, \A k \in 1 .. N : k - 1 \in P => k \in P
  PROVE  \A k \in 0 .. N : k \in P
<1> DEFINE T == {k \in 0 .. N : k \notin P}
<1> SUFFICES ASSUME T # {} PROVE FALSE
  OBVIOUS
<1>1. PICK x \in T : \A y \in T : x <= y
  <2>1. T \subseteq Nat
    OBVIOUS
  <2> HIDE DEF T
  <2> QED BY <2>1, LeastNat
<1>2. x \in 1 .. N /\ x - 1 \in 0 .. N
  BY <1>1
<1>3. x - 1 \notin T
  <2>1. \A y \in T : x <= y /\ x \in Int
    BY <1>1, <1>2
  <2> HIDE DEF T
  <2> QED BY <2>1, <1>2
<1> QED BY <1>1, <1>2, <1>3


\* A function that is given at 0, and at each number by what it is at the one before.
Chained(f, N, b, F) == f[0] = b /\ \A k \in 1 .. N : f[k] = F[<<k, f[k - 1]>>]

LEMMA Iterates ==
  ASSUME NEW N \in Nat, NEW T, NEW b \in T, NEW F \in [(1 .. N) \X T -> T]
  PROVE  \E f \in [0 .. N -> T] : Chained(f, N, b, F)
<1> DEFINE Chains(n) == {f \in [0 .. n -> T] : f[0] = b /\ \A k \in 1 .. n : f[k] = F[<<k, f[k - 1]>>]}
           P == {n \in 0 .. N : Chains(n) # {}}
<1>1. 0 \in P
  <2>1. [k \in 0 .. 0 |-> b] \in Chains(0)
    OBVIOUS
  <2> QED BY <2>1
<1>2. ASSUME NEW n \in 1 .. N, n - 1 \in P PROVE n \in P
  <2>1. PICK f \in [0 .. n - 1 -> T] : f[0] = b /\ \A k \in 1 .. n - 1 : f[k] = F[<<k, f[k - 1]>>]
    BY <1>2
  <2> DEFINE g == [k \in 0 .. n |-> IF k = n THEN F[<<n, f[n - 1]>>] ELSE f[k]]
  <2>2. f[n - 1] \in T /\ F[<<n, f[n - 1]>>] \in T
    BY <2>1
  <2>3. g \in [0 .. n -> T]
    BY <2>1, <2>2
  <2>4. g[0] = b
    BY <2>1
  <2>5. ASSUME NEW k \in 1 .. n PROVE g[k] = F[<<k, g[k - 1]>>]
    <3>1. g[k - 1] = f[k - 1]
      OBVIOUS
    <3>2. g[k] = IF k = n THEN F[<<n, f[n - 1]>>] ELSE f[k]
      OBVIOUS
    <3>3. g[k] = F[<<k, f[k - 1]>>]
      <4> HIDE DEF g
      <4>1. CASE k = n
        BY <3>2, <4>1
      <4>2. CASE k # n
        BY <2>1, <3>2, <4>2
      <4> QED BY <4>1, <4>2
    <3> QED BY <3>1, <3>3, Zenon
  <2>6. g \in Chains(n)
    BY <2>3, <2>4, <2>5
  <2>7. Chains(n) # {}
    BY <2>6
  <2> QED BY <2>7
<1>3. N \in P
  <2> HIDE DEF P
  <2> QED BY <1>1, <1>2, NumberByNumber
<1> QED BY <1>3 DEF Chained

-----------------------------------------------------------------------------
(* The array heap of timers. *)

LEMMA ParentFacts ==
  /\ \A j \in Nat \ {0} : Heap!Parent(j) \in Nat /\ Heap!Parent(j) < j
  /\ \A j \in Nat \ {0}, p \in Nat : Heap!Parent(j) = p <=> (j = p * 2 + 1 \/ j = p * 2 + 2)
  BY DEF Heap!Parent

LEMMA ParentsInTree ==
  ASSUME NEW n \in Nat
  PROVE  \A j \in 1 .. n - 1 : Heap!Parent(j) \in 0 .. n - 1 /\ Heap!Parent(j) < j
<1> SUFFICES ASSUME NEW j \in 1 .. n - 1
             PROVE  Heap!Parent(j) \in 0 .. n - 1 /\ Heap!Parent(j) < j
  OBVIOUS
<1>1. j \in Nat \ {0} /\ j < n
  OBVIOUS
<1>2. Heap!Parent(j) \in Nat /\ Heap!Parent(j) < j
  BY <1>1, ParentFacts
<1> QED BY <1>1, <1>2

\* What a node and its children owe each other, for the times t of the nodes. Each node's parent is
\* not later than the node,
InOrder(t, n) == \A j \in 1 .. n - 1 : t[Heap!Parent(j)] <= t[j]

\* a node with its parent excepted,
Bridged(t, n, p) == p > 0 => \A j \in 1 .. n - 1 : Heap!Parent(j) = p => t[Heap!Parent(p)] <= t[j]
UpReady(t, n, p) ==
  /\ \A j \in 1 .. n - 1 : j # p => t[Heap!Parent(j)] <= t[j]
  /\ Bridged(t, n, p)

\* or with its children, and with its parent only where the way down began.
DownReady(t, n, p, i) ==
  /\ \A j \in 1 .. n - 1 : (j # p \/ p # i) /\ Heap!Parent(j) # p => t[Heap!Parent(j)] <= t[j]
  /\ Bridged(t, n, p)

LEMMA DownOrder ==
  ASSUME NEW n \in Nat, NEW t \in [0 .. n - 1 -> Int], NEW p \in 0 .. n - 1, NEW i, DownReady(t, n, p, i),
         NEW f \in 0 .. n - 1, f = p * 2 + 1 \/ f = p * 2 + 2,
         t[f] <= t[p], t[f] <= t[p * 2 + 1], p * 2 + 2 < n => t[f] <= t[p * 2 + 2],
         NEW u \in [0 .. n - 1 -> Int], u[f] = t[p], u[p] = t[f],
         \A j \in 0 .. n - 1 : j # f /\ j # p => u[j] = t[j]
  PROVE  DownReady(u, n, f, i)
<1>1. f > p /\ f \in 1 .. n - 1 /\ Heap!Parent(f) = p
  <2>1. f > p /\ f \in 1 .. n - 1 /\ f \in Nat \ {0} /\ p \in Nat
    OBVIOUS
  <2> QED BY <2>1, ParentFacts
<1>2. \A j \in 1 .. n - 1 : Heap!Parent(j) \in 0 .. n - 1 /\ Heap!Parent(j) < j
  BY ParentsInTree
<1>3. ASSUME NEW j \in 1 .. n - 1, Heap!Parent(j) = p PROVE t[f] <= t[j]
  <2>1. j = p * 2 + 1 \/ j = p * 2 + 2
    <3>1. j \in Nat \ {0} /\ p \in Nat
      OBVIOUS
    <3> QED BY <1>3, <3>1, ParentFacts
  <2>2. CASE j = p * 2 + 1
    BY <2>2
  <2>3. CASE j = p * 2 + 2
    <3>1. p * 2 + 2 < n
      BY <2>3
    <3> QED BY <2>3, <3>1
  <2> QED BY <2>1, <2>2, <2>3
<1>4. ASSUME NEW j \in 1 .. n - 1, Heap!Parent(j) # f
      PROVE  u[Heap!Parent(j)] <= u[j]
  <2>1. CASE j = f
    BY <1>1, <2>1
  <2>2. CASE j = p
    <3>1. Heap!Parent(p) < p /\ Heap!Parent(p) \in 0 .. n - 1 /\ p > 0
      BY <1>2, <2>2
    <3>2. t[Heap!Parent(p)] <= t[f]
      BY <1>1, <3>1 DEF DownReady, Bridged
    <3>3. u[Heap!Parent(p)] = t[Heap!Parent(p)]
      BY <1>1, <3>1
    <3> QED BY <2>2, <3>2, <3>3
  <2>3. CASE j # f /\ j # p /\ Heap!Parent(j) = p
    <3>1. u[j] = t[j] /\ t[f] <= t[j]
      BY <1>3, <2>3
    <3> QED BY <2>3, <3>1
  <2>4. CASE j # f /\ j # p /\ Heap!Parent(j) # p
    <3>1. t[Heap!Parent(j)] <= t[j]
      BY <2>4 DEF DownReady
    <3>2. Heap!Parent(j) \in 0 .. n - 1 /\ j \in 0 .. n - 1
      BY <1>2
    <3>3. u[j] = t[j]
      BY <2>4, <3>2
    <3>4. u[Heap!Parent(j)] = t[Heap!Parent(j)]
      BY <1>4, <2>4, <3>2
    <3> QED BY <3>1, <3>3, <3>4
  <2> QED BY <2>1, <2>2, <2>3, <2>4
<1>5. ASSUME NEW j \in 1 .. n - 1, Heap!Parent(j) = f
      PROVE  u[Heap!Parent(f)] <= u[j]
  <2>1. j # p /\ j # f /\ f # p
    BY <1>1, <1>2, <1>5
  <2>2. t[f] <= t[j]
    BY <1>5, <2>1 DEF DownReady
  <2> QED BY <1>1, <2>1, <2>2
<1> QED BY <1>4, <1>5 DEF DownReady, Bridged

LEMMA DownDone ==
  ASSUME NEW n \in Nat, NEW t \in [0 .. n - 1 -> Int], NEW p \in 0 .. n - 1, NEW i \in 0 .. n - 1,
         DownReady(t, n, p, i), \A j \in 1 .. n - 1 : Heap!Parent(j) = p => t[p] <= t[j]
  PROVE  UpReady(t, n, i)
<1>1. \A j \in 1 .. n - 1 : Heap!Parent(j) \in 0 .. n - 1
  BY ParentsInTree
<1>2. \A j \in 1 .. n - 1 : j # p \/ p # i => t[Heap!Parent(j)] <= t[j]
  BY DEF DownReady
<1>3. ASSUME NEW j \in 1 .. n - 1, Heap!Parent(j) = i, i > 0
      PROVE  t[Heap!Parent(i)] <= t[j]
  <2>1. CASE p = i
    BY <1>3, <2>1 DEF DownReady, Bridged
  <2>2. CASE p # i
    <3>1. t[Heap!Parent(i)] <= t[i]
      <4>1. i \in 1 .. n - 1
        BY <1>3
      <4> QED BY <1>2, <2>2, <4>1
    <3>2. t[i] <= t[j]
      <4>1. j # i
        <5>1. Heap!Parent(j) < j
          BY ParentsInTree
        <5> QED BY <1>3, <5>1
      <4> QED BY <1>2, <1>3, <4>1
    <3>3. t[Heap!Parent(i)] \in Int /\ t[i] \in Int /\ t[j] \in Int
      <4>1. i \in 1 .. n - 1 /\ j \in 0 .. n - 1
        BY <1>3
      <4> QED BY <1>1, <4>1
    <3> QED BY <3>1, <3>2, <3>3
  <2> QED BY <2>1, <2>2
<1>4. \A j \in 1 .. n - 1 : j # i => t[Heap!Parent(j)] <= t[j]
  BY <1>2
<1> QED BY <1>3, <1>4 DEF UpReady, Bridged

LEMMA UpOrder ==
  ASSUME NEW n \in Nat, NEW t \in [0 .. n - 1 -> Int], NEW p \in 1 .. n - 1, UpReady(t, n, p),
         NEW q, q = Heap!Parent(p), t[p] < t[q],
         NEW u \in [0 .. n - 1 -> Int], u[q] = t[p], u[p] = t[q],
         \A j \in 0 .. n - 1 : j # q /\ j # p => u[j] = t[j]
  PROVE  UpReady(u, n, q)
<1>1. q \in 0 .. n - 1 /\ q < p
  BY ParentsInTree
<1>2. \A j \in 1 .. n - 1 : Heap!Parent(j) \in 0 .. n - 1 /\ Heap!Parent(j) < j
  BY ParentsInTree
<1>3. \A j \in 1 .. n - 1 : j # p => t[Heap!Parent(j)] <= t[j]
  BY DEF UpReady
<1>4. ASSUME NEW j \in 1 .. n - 1, j # q
      PROVE  u[Heap!Parent(j)] <= u[j]
  <2>1. CASE j = p
    BY <1>1, <2>1
  <2>2. CASE Heap!Parent(j) = p
    <3>1. t[q] <= t[j] /\ j # p
      BY <1>2, <2>2 DEF UpReady, Bridged
    <3> QED BY <1>4, <2>2, <3>1
  <2>3. CASE Heap!Parent(j) = q /\ j # p
    <3>1. t[q] <= t[j]
      BY <1>3, <2>3
    <3>2. u[j] = t[j] /\ t[j] \in Int /\ t[p] \in Int /\ t[q] \in Int
      BY <1>1, <1>4, <2>3
    <3> QED BY <2>3, <3>1, <3>2
  <2>4. CASE j # p /\ Heap!Parent(j) # p /\ Heap!Parent(j) # q
    <3>1. u[j] = t[j] /\ u[Heap!Parent(j)] = t[Heap!Parent(j)]
      BY <1>2, <1>4, <2>4
    <3> QED BY <1>3, <2>4, <3>1
  <2> QED BY <2>1, <2>2, <2>3, <2>4
<1>5. ASSUME NEW j \in 1 .. n - 1, Heap!Parent(j) = q, q > 0
      PROVE  u[Heap!Parent(q)] <= u[j]
  <2>1. q \in 1 .. n - 1 /\ Heap!Parent(q) < q /\ Heap!Parent(q) \in 0 .. n - 1
    BY <1>1, <1>2, <1>5
  <2>2. u[Heap!Parent(q)] = t[Heap!Parent(q)] /\ t[Heap!Parent(q)] <= t[q]
    BY <1>1, <1>3, <2>1
  <2>3. CASE j = p
    BY <2>2, <2>3
  <2>4. CASE j # p
    <3>1. t[q] <= t[j] /\ u[j] = t[j]
      BY <1>2, <1>3, <1>5, <2>4
    <3>2. t[q] \in Int /\ t[j] \in Int /\ t[Heap!Parent(q)] \in Int
      BY <1>1, <2>1
    <3> QED BY <2>2, <3>1, <3>2
  <2> QED BY <2>3, <2>4
<1> QED BY <1>4, <1>5 DEF UpReady, Bridged

LEMMA UpDone ==
  ASSUME NEW n \in Nat, NEW t \in [0 .. n - 1 -> Int], NEW p \in 0 .. n - 1, UpReady(t, n, p),
         p = 0 \/ t[p] >= t[Heap!Parent(p)]
  PROVE  InOrder(t, n)
<1>1. p > 0 => p \in 1 .. n - 1 /\ Heap!Parent(p) \in 0 .. n - 1
  BY ParentsInTree
<1> QED BY <1>1 DEF UpReady, InOrder

-----------------------------------------------------------------------------
(* Its swaps. *)

\* The arrays of n places in which the structures of Q are, with their index fields.
Holding(n, Q) ==
  {h \in [ev : [0 .. n - 1 -> Items], ix : [Items -> Int]] :
    /\ {h.ev[i] : i \in 0 .. n - 1} = Q
    /\ \A i \in 0 .. n - 1 : h.ix[h.ev[i]] = i}
TimesOf(h, k, n) == [i \in 0 .. n - 1 |-> k[h.ev[i]]]

LEMMA KeptFacts ==
  ASSUME NEW n \in Nat, NEW Q, NEW h \in Holding(n, Q), NEW k \in [Items -> Int]
  PROVE  /\ h = [ev |-> h.ev, ix |-> h.ix] /\ h.ev \in [0 .. n - 1 -> Items] /\ h.ix \in [Items -> Int]
         /\ {h.ev[i] : i \in 0 .. n - 1} = Q /\ Q \subseteq Items
         /\ \A i \in 0 .. n - 1 : h.ev[i] \in Items /\ h.ev[i] \in Q /\ h.ix[h.ev[i]] = i
         /\ DOMAIN h.ev = 0 .. n - 1 /\ Heap!Cardinality(DOMAIN h.ev) = n
         /\ TimesOf(h, k, n) \in [0 .. n - 1 -> Int]
         /\ \A i \in 0 .. n - 1 : TimesOf(h, k, n)[i] = k[h.ev[i]]
<1>1. h = [ev |-> h.ev, ix |-> h.ix] /\ h.ev \in [0 .. n - 1 -> Items] /\ h.ix \in [Items -> Int]
  BY DEF Holding
<1>2. {h.ev[i] : i \in 0 .. n - 1} = Q /\ \A i \in 0 .. n - 1 : h.ix[h.ev[i]] = i
  BY DEF Holding
<1>3. \A i \in 0 .. n - 1 : h.ev[i] \in Items /\ h.ev[i] \in Q
  BY <1>1, <1>2
<1>4. Q \subseteq Items
  BY <1>2, <1>3
<1>5. Heap!Cardinality(DOMAIN h.ev) = n
  <2>1. Cardinality(0 .. n - 1) = n
    BY FS_Interval
  <2>2. DOMAIN h.ev = 0 .. n - 1
    BY <1>1
  <2> QED BY <2>1, <2>2 DEF Heap!Cardinality, Cardinality
<1>6. /\ TimesOf(h, k, n) \in [0 .. n - 1 -> Int]
      /\ \A i \in 0 .. n - 1 : TimesOf(h, k, n)[i] = k[h.ev[i]]
  BY <1>3 DEF TimesOf
<1> QED BY <1>1, <1>2, <1>3, <1>4, <1>5, <1>6

\* g is h with two places swapped.
Swapped(g, h, i, j, n, Q) ==
  /\ g \in Holding(n, Q)
  /\ g.ev[i] = h.ev[j] /\ g.ev[j] = h.ev[i]
  /\ \A m \in 0 .. n - 1 : m # i /\ m # j => g.ev[m] = h.ev[m]

LEMMA SwapKept ==
  ASSUME NEW n \in Nat, NEW Q, NEW h \in Holding(n, Q), NEW i \in 0 .. n - 1, NEW j \in 0 .. n - 1, i # j
  PROVE  Swapped(Heap!Swap(h, i, j), h, i, j, n, Q)
<1> DEFINE e == [h.ev EXCEPT ![i] = h.ev[j], ![j] = h.ev[i]]
           x == [h.ix EXCEPT ![h.ev[i]] = j, ![h.ev[j]] = i]
<1>1. Heap!Swap(h, i, j) = [ev |-> e, ix |-> x]
  BY DEF Heap!Swap
<1>2. /\ h.ev \in [0 .. n - 1 -> Items] /\ h.ix \in [Items -> Int] /\ {h.ev[m] : m \in 0 .. n - 1} = Q
      /\ \A m \in 0 .. n - 1 : h.ev[m] \in Items /\ h.ix[h.ev[m]] = m
  BY DEF Holding
<1>3. h.ev[i] # h.ev[j]
  BY <1>2
<1>4. e \in [0 .. n - 1 -> Items] /\ x \in [Items -> Int]
  BY <1>2
<1>5. e[i] = h.ev[j] /\ e[j] = h.ev[i] /\ \A m \in 0 .. n - 1 : m # i /\ m # j => e[m] = h.ev[m]
  BY <1>2
<1>6. x[h.ev[i]] = j /\ x[h.ev[j]] = i /\ \A y \in Items : y # h.ev[i] /\ y # h.ev[j] => x[y] = h.ix[y]
  BY <1>2, <1>3
<1> HIDE DEF e, x
<1>7. {e[m] : m \in 0 .. n - 1} = Q
  <2>1. \A m \in 0 .. n - 1 : e[m] \in Q
    BY <1>2, <1>5
  <2>2. \A y \in Q : \E m \in 0 .. n - 1 : e[m] = y
    <3> TAKE y \in Q
    <3> PICK m \in 0 .. n - 1 : y = h.ev[m]
      BY <1>2
    <3> SUFFICES \E o \in 0 .. n - 1 : e[o] = h.ev[m]
      OBVIOUS
    <3>1. CASE m = i
      BY <1>5, <3>1
    <3>2. CASE m = j
      BY <1>5, <3>2
    <3>3. CASE m # i /\ m # j
      BY <1>5, <3>3
    <3> QED BY <3>1, <3>2, <3>3
  <2> QED BY <2>1, <2>2
<1>8. \A m \in 0 .. n - 1 : x[e[m]] = m
  <2> SUFFICES ASSUME NEW m \in 0 .. n - 1 PROVE x[e[m]] = m
    OBVIOUS
  <2>1. CASE m # i /\ m # j
    <3>1. e[m] = h.ev[m] /\ h.ev[m] # h.ev[i] /\ h.ev[m] # h.ev[j]
      BY <1>2, <1>5, <2>1
    <3> QED BY <1>2, <1>6, <3>1
  <2>2. CASE m = i \/ m = j
    BY <1>5, <1>6, <2>2
  <2> QED BY <2>1, <2>2
<1>9. [ev |-> e, ix |-> x] \in Holding(n, Q)
  BY <1>4, <1>7, <1>8 DEF Holding
<1> QED BY <1>1, <1>5, <1>9 DEF Swapped

\* A swap in the array is a swap of times.
LEMMA SwapTimes ==
  ASSUME NEW n \in Nat, NEW Q, NEW h \in Holding(n, Q), NEW k \in [Items -> Int],
         NEW i \in 0 .. n - 1, NEW j \in 0 .. n - 1, i # j
  PROVE  /\ TimesOf(Heap!Swap(h, i, j), k, n) \in [0 .. n - 1 -> Int]
         /\ TimesOf(Heap!Swap(h, i, j), k, n)[i] = TimesOf(h, k, n)[j]
         /\ TimesOf(Heap!Swap(h, i, j), k, n)[j] = TimesOf(h, k, n)[i]
         /\ \A m \in 0 .. n - 1 : m # i /\ m # j =>
              TimesOf(Heap!Swap(h, i, j), k, n)[m] = TimesOf(h, k, n)[m]
<1> DEFINE g == Heap!Swap(h, i, j)
<1>1. Swapped(g, h, i, j, n, Q)
  BY SwapKept
<1> HIDE DEF g
<1>2. /\ g \in Holding(n, Q) /\ g.ev[i] = h.ev[j] /\ g.ev[j] = h.ev[i]
      /\ \A m \in 0 .. n - 1 : m # i /\ m # j => g.ev[m] = h.ev[m]
  BY <1>1 DEF Swapped
<1>3. TimesOf(g, k, n) \in [0 .. n - 1 -> Int] /\ \A m \in 0 .. n - 1 : TimesOf(g, k, n)[m] = k[g.ev[m]]
  BY <1>2, KeptFacts
<1>4. \A m \in 0 .. n - 1 : TimesOf(h, k, n)[m] = k[h.ev[m]]
  BY KeptFacts
<1>5. \A m \in 0 .. n - 1 : m # i /\ m # j => TimesOf(g, k, n)[m] = TimesOf(h, k, n)[m]
  BY <1>2, <1>3, <1>4
<1> QED BY <1>2, <1>3, <1>4, <1>5 DEF g

\* The calls of schedule_heapify() that began at i.
DownCalls(n, Q, k, i) ==
  {c \in [heap : Holding(n, Q), at : 0 .. n - 1] : DownReady(TimesOf(c.heap, k, n), n, c.at, i)}

\* The last of them.
DownEnds(c, k) == Heap!Leaf(c.at, Heap!Cardinality(DOMAIN c.heap.ev)) \/ Heap!FirstOf(c.heap, k, c.at) = c.at

LEMMA DownStep ==
  ASSUME NEW n \in Nat, NEW Q, NEW k \in [Items -> Int], NEW i \in 0 .. n - 1, NEW c \in DownCalls(n, Q, k, i)
  PROVE  /\ Heap!Down(c, k) \in DownCalls(n, Q, k, i)
         /\ DownEnds(c, k) => Heap!Down(c, k) = c /\ UpReady(TimesOf(c.heap, k, n), n, i)
         /\ ~DownEnds(c, k) => Heap!Down(c, k).at > c.at
<1> DEFINE h == c.heap
           p == c.at
           t == TimesOf(h, k, n)
           f == Heap!FirstOf(h, k, p)
           l == p * 2 + 1
           r == p * 2 + 2
<1>1. h \in Holding(n, Q) /\ p \in 0 .. n - 1 /\ DownReady(t, n, p, i) /\ c = [heap |-> h, at |-> p]
  BY DEF DownCalls
<1> HIDE DEF h, p
<1>2. Heap!Cardinality(DOMAIN h.ev) = n /\ t \in [0 .. n - 1 -> Int] /\ \A m \in 0 .. n - 1 :
        t[m] = k[h.ev[m]]
  BY <1>1, KeptFacts
<1> HIDE DEF t
<1>3. Heap!Leaf(p, n) <=> l >= n
  BY DEF Heap!Leaf
<1>4. l \in Nat /\ r \in Nat /\ l = p * 2 + 1 /\ r = p * 2 + 2 /\ r = l + 1 /\ l > p
  BY <1>1
<1>5. ASSUME l < n
      PROVE  /\ f \in 0 .. n - 1
             /\ f = p \/ f = l \/ f = r
             /\ t[f] <= t[p] /\ t[f] <= t[l] /\ (r < n => t[f] <= t[r])
  <2> DEFINE e == IF k[h.ev[p]] > k[h.ev[l]] THEN l ELSE p
  <2>1. f = IF r < n /\ k[h.ev[e]] > k[h.ev[r]] THEN r ELSE e
    BY <1>2 DEF Heap!FirstOf
  <2>2. l \in 0 .. n - 1 /\ t[l] = k[h.ev[l]] /\ t[p] = k[h.ev[p]] /\ t[l] \in Int /\ t[p] \in Int
    BY <1>1, <1>2, <1>4, <1>5
  <2>3. (e = l \/ e = p) /\ e \in 0 .. n - 1 /\ t[e] <= t[p] /\ t[e] <= t[l] /\ t[e] = k[h.ev[e]]
    BY <1>1, <2>2
  <2>4. r < n => r \in 0 .. n - 1 /\ t[r] = k[h.ev[r]] /\ t[r] \in Int
    BY <1>2, <1>4
  <2>5. t[e] \in Int
    BY <1>2, <2>3
  <2> HIDE DEF e, f, l, r
  <2>6. CASE r < n /\ k[h.ev[e]] > k[h.ev[r]]
    <3>1. f = r /\ t[r] < t[e]
      BY <2>1, <2>3, <2>4, <2>6
    <3> QED BY <2>2, <2>3, <2>4, <2>5, <2>6, <3>1
  <2>7. CASE ~(r < n /\ k[h.ev[e]] > k[h.ev[r]])
    <3>1. f = e /\ (r < n => t[e] <= t[r])
      BY <2>1, <2>3, <2>4, <2>5, <2>7
    <3> QED BY <2>2, <2>3, <3>1
  <2> QED BY <2>6, <2>7
<1>6. DownEnds(c, k) <=> (l >= n \/ f = p)
  BY <1>2, <1>3 DEF DownEnds, h, p, f
<1>7. Heap!Down(c, k) = IF l >= n \/ f = p THEN c ELSE [heap |-> Heap!Swap(h, f, p), at |-> f]
  BY <1>2, <1>3 DEF Heap!Down, h, p, f
<1>8. CASE l >= n \/ f = p
  <2>1. ASSUME NEW j \in 1 .. n - 1, Heap!Parent(j) = p PROVE t[p] <= t[j]
    <3>1. j = l \/ j = r
      <4>1. j \in Nat \ {0} /\ p \in Nat
        BY <1>1
      <4> QED BY <2>1, <4>1, ParentFacts
    <3>2. l < n
      BY <1>4, <3>1
    <3>3. f = p
      BY <1>4, <1>8, <3>2
    <3> QED BY <1>5, <3>1, <3>2, <3>3
  <2>2. UpReady(t, n, i)
    BY <1>1, <1>2, <2>1, DownDone
  <2> QED BY <1>6, <1>7, <1>8, <2>2 DEF t, h
<1>9. CASE l < n /\ f # p
  <2> DEFINE u == TimesOf(Heap!Swap(h, f, p), k, n)
  <2>1. /\ f \in 0 .. n - 1
        /\ f = l \/ f = r
        /\ t[f] <= t[p] /\ t[f] <= t[l] /\ (r < n => t[f] <= t[r])
    BY <1>5, <1>9
  <2>2. f # p /\ p \in 0 .. n - 1
    BY <1>1, <1>9
  <2> HIDE DEF f, l, r
  <2>7. Heap!Swap(h, f, p) \in Holding(n, Q)
    BY <1>1, <2>1, <2>2, SwapKept DEF Swapped
  <2>3. /\ u \in [0 .. n - 1 -> Int] /\ u[f] = t[p] /\ u[p] = t[f]
        /\ \A m \in 0 .. n - 1 : m # f /\ m # p => u[m] = t[m]
    <3>1. h \in Holding(n, Q) /\ f \in 0 .. n - 1
      BY <1>1, <2>1
    <3>2. /\ u \in [0 .. n - 1 -> Int] /\ u[f] = TimesOf(h, k, n)[p] /\ u[p] = TimesOf(h, k, n)[f]
          /\ \A m \in 0 .. n - 1 : m # f /\ m # p => u[m] = TimesOf(h, k, n)[m]
      BY <2>2, <3>1, SwapTimes
    <3> QED BY <3>2 DEF t
  <2> HIDE DEF u
  <2>4. DownReady(u, n, f, i)
    BY <1>1, <1>2, <2>1, <2>3, DownOrder DEF l, r
  <2>5. Heap!Down(c, k) = [heap |-> Heap!Swap(h, f, p), at |-> f] /\ ~DownEnds(c, k)
    BY <1>4, <1>6, <1>7, <1>9
  <2>6. f > p
    BY <1>1, <2>1 DEF l, r
  <2> QED BY <2>1, <2>4, <2>5, <2>6, <2>7 DEF DownCalls, u, p
<1> QED BY <1>4, <1>8, <1>9

\* What is pushed down from i gets into order with everything below, and may have to go up from i.
LEMMA HeapifyRight ==
  ASSUME NEW n \in Nat, NEW Q, NEW k \in [Items -> Int], NEW i \in 0 .. n - 1, NEW h \in Holding(n, Q),
         DownReady(TimesOf(h, k, n), n, i, i)
  PROVE  /\ Heap!schedule_heapify(h, k, i) \in Holding(n, Q)
         /\ UpReady(TimesOf(Heap!schedule_heapify(h, k, i), k, n), n, i)
<1> DEFINE T == DownCalls(n, Q, k, i)
           b == [heap |-> h, at |-> i]
           F == [x \in (1 .. n) \X T |-> Heap!Down(x[2], k)]
           Is(g) == g = [s \in 0 .. n |-> IF s = 0 THEN b ELSE Heap!Down(g[s - 1], k)]
           calls == CHOOSE g : Is(g)
<1>1. Heap!Cardinality(DOMAIN h.ev) = n
  BY KeptFacts
<1>2. b \in T
  BY DEF DownCalls
<1>3. \A c \in T : Heap!Down(c, k) \in T
  BY DownStep
<1>4. Heap!schedule_heapify(h, k, i) = calls[n].heap
  BY <1>1 DEF Heap!schedule_heapify
<1> HIDE DEF T, b
<1>5. F \in [(1 .. n) \X T -> T] /\ \A s \in 1 .. n, c \in T : F[<<s, c>>] = Heap!Down(c, k)
  BY <1>3
<1> HIDE DEF F
<1>6. PICK g \in [0 .. n -> T] : Chained(g, n, b, F)
  BY <1>2, <1>5, Iterates
<1>7. Is(g)
  <2>1. \A s \in 1 .. n : g[s - 1] \in T
    BY <1>6
  <2>2. \A s \in 1 .. n : g[s] = Heap!Down(g[s - 1], k)
    BY <1>5, <1>6, <2>1 DEF Chained
  <2>3. g = [s \in 0 .. n |-> g[s]] /\ \A s \in 0 .. n : s # 0 => s \in 1 .. n
    BY <1>6
  <2>4. \A s \in 0 .. n : g[s] = IF s = 0 THEN b ELSE Heap!Down(g[s - 1], k)
    BY <1>6, <2>2, <2>3 DEF Chained
  <2> QED BY <2>3, <2>4
<1>8. Is(calls)
  <2> HIDE DEF Is
  <2> QED BY <1>7
<1> HIDE DEF calls
<1>9. calls[0] = b /\ \A s \in 1 .. n : calls[s] = Heap!Down(calls[s - 1], k)
  BY <1>8
<1> HIDE DEF Is
<1> DEFINE P == {s \in 0 .. n : calls[s] \in T /\ (DownEnds(calls[s], k) \/ calls[s].at >= s)}
<1>10. 0 \in P
  <2>1. b.at >= 0
    BY DEF b
  <2> QED BY <1>2, <1>9, <2>1
<1>11. ASSUME NEW s \in 1 .. n, s - 1 \in P PROVE s \in P
  <2> DEFINE c == calls[s - 1]
  <2>1. c \in T /\ (DownEnds(c, k) \/ c.at >= s - 1) /\ calls[s] = Heap!Down(c, k)
    BY <1>9, <1>11
  <2> HIDE DEF c
  <2>2. Heap!Down(c, k) \in T
    BY <1>3, <2>1
  <2>3. CASE DownEnds(c, k)
    <3>1. calls[s] = c
      BY <2>1, <2>3, DownStep DEF T
    <3> QED BY <2>1, <2>3, <3>1
  <2>4. CASE ~DownEnds(c, k)
    <3>1. Heap!Down(c, k).at > c.at
      BY <2>1, <2>4, DownStep DEF T
    <3>2. c.at \in Nat /\ Heap!Down(c, k).at \in Nat
      BY <2>1, <2>2 DEF T, DownCalls
    <3>3. Heap!Down(c, k).at >= s
      BY <2>1, <2>4, <3>1, <3>2
    <3> QED BY <2>1, <2>2, <3>3
  <2> QED BY <2>3, <2>4
<1>12. n \in P
  <2> HIDE DEF P
  <2>1. n \in Nat /\ n \in 0 .. n
    OBVIOUS
  <2>2. \A s \in 0 .. n : s \in P
    BY <1>10, <1>11, <2>1, NumberByNumber
  <2> QED BY <2>1, <2>2
<1>13. calls[n] \in T /\ DownEnds(calls[n], k)
  <2>1. \A c \in T : c.at \in 0 .. n - 1
    BY DEF T, DownCalls
  <2>2. calls[n] \in T /\ (DownEnds(calls[n], k) \/ calls[n].at >= n)
    BY <1>12
  <2>3. calls[n].at \in Int /\ calls[n].at < n
    BY <2>1, <2>2
  <2> QED BY <2>2, <2>3
<1>14. UpReady(TimesOf(calls[n].heap, k, n), n, i)
  BY <1>13, DownStep DEF T
<1>15. calls[n].heap \in Holding(n, Q)
  BY <1>13 DEF T, DownCalls
<1> QED BY <1>4, <1>14, <1>15

UpPasses(n, Q, k) ==
  {c \in [heap : Holding(n, Q), at : 0 .. n - 1] : UpReady(TimesOf(c.heap, k, n), n, c.at)}
UpEnds(c, k) == c.at = 0 \/ k[c.heap.ev[c.at]] >= k[c.heap.ev[Heap!Parent(c.at)]]

LEMMA UpStep ==
  ASSUME NEW n \in Nat, NEW Q, NEW k \in [Items -> Int], NEW c \in UpPasses(n, Q, k)
  PROVE  /\ Heap!Up(c, k) \in UpPasses(n, Q, k)
         /\ UpEnds(c, k) => Heap!Up(c, k) = c /\ InOrder(TimesOf(c.heap, k, n), n)
         /\ ~UpEnds(c, k) => Heap!Up(c, k).at < c.at
<1> DEFINE h == c.heap
           p == c.at
           q == Heap!Parent(p)
           t == TimesOf(h, k, n)
           u == TimesOf(Heap!Swap(h, q, p), k, n)
<1>1. h \in Holding(n, Q) /\ p \in 0 .. n - 1 /\ UpReady(t, n, p)
  BY DEF UpPasses
<1>2. t \in [0 .. n - 1 -> Int] /\ \A m \in 0 .. n - 1 : t[m] = k[h.ev[m]]
  BY <1>1, KeptFacts
<1>3. p # 0 => q \in 0 .. n - 1 /\ q < p /\ p \in 1 .. n - 1
  BY <1>1, ParentFacts
<1>4. UpEnds(c, k) <=> (p = 0 \/ t[p] >= t[q])
  BY <1>1, <1>2, <1>3 DEF UpEnds
<1>5. Heap!Up(c, k) = IF p = 0 \/ k[h.ev[p]] >= k[h.ev[q]] THEN c ELSE [heap |-> Heap!Swap(h, q, p), at |-> q]
  BY DEF Heap!Up
<1>6. CASE UpEnds(c, k)
  <2>1. Heap!Up(c, k) = c
    BY <1>5, <1>6 DEF UpEnds
  <2>2. InOrder(t, n)
    BY <1>1, <1>2, <1>4, <1>6, UpDone
  <2> QED BY <1>6, <2>1, <2>2
<1>7. CASE ~UpEnds(c, k)
  <2>1. Heap!Up(c, k) = [heap |-> Heap!Swap(h, q, p), at |-> q]
    BY <1>5, <1>7 DEF UpEnds
  <2>2. p \in 1 .. n - 1 /\ q \in 0 .. n - 1 /\ q < p /\ q # p
    BY <1>3, <1>4, <1>7
  <2>3. t[p] < t[q]
    BY <1>2, <1>4, <1>7, <2>2
  <2> HIDE DEF h, p, q
  <2>4. Heap!Swap(h, q, p) \in Holding(n, Q)
    BY <1>1, <2>2, SwapKept DEF Swapped
  <2>5. /\ u \in [0 .. n - 1 -> Int] /\ u[q] = t[p] /\ u[p] = t[q]
        /\ \A m \in 0 .. n - 1 : m # q /\ m # p => u[m] = t[m]
    BY <1>1, <2>2, SwapTimes
  <2> HIDE DEF u, t
  <2>6. UpReady(u, n, q)
    BY <1>1, <1>2, <2>2, <2>3, <2>5, UpOrder DEF q
  <2> QED BY <1>7, <2>1, <2>2, <2>4, <2>6 DEF UpPasses, u, p, q
<1> QED BY <1>6, <1>7

LEMMA FloatRight ==
  ASSUME NEW n \in Nat, NEW Q, NEW k \in [Items -> Int], NEW i \in 0 .. n - 1, NEW h \in Holding(n, Q),
         UpReady(TimesOf(h, k, n), n, i)
  PROVE  /\ Heap!FloatUp(h, k, i) \in Holding(n, Q)
         /\ InOrder(TimesOf(Heap!FloatUp(h, k, i), k, n), n)
<1> DEFINE T == UpPasses(n, Q, k)
           b == [heap |-> h, at |-> i]
           F == [x \in (1 .. i) \X T |-> Heap!Up(x[2], k)]
           Is(g) == g = [s \in 0 .. i |-> IF s = 0 THEN b ELSE Heap!Up(g[s - 1], k)]
           passes == CHOOSE g : Is(g)
<1>1. i \in Nat
  OBVIOUS
<1>2. b \in T
  BY DEF UpPasses
<1>3. \A c \in T : Heap!Up(c, k) \in T
  BY UpStep
<1>4. Heap!FloatUp(h, k, i) = passes[i].heap
  BY DEF Heap!FloatUp
<1> HIDE DEF T, b
<1>5. F \in [(1 .. i) \X T -> T] /\ \A s \in 1 .. i, c \in T : F[<<s, c>>] = Heap!Up(c, k)
  BY <1>3
<1> HIDE DEF F
<1>6. PICK g \in [0 .. i -> T] : Chained(g, i, b, F)
  BY <1>1, <1>2, <1>5, Iterates
<1>7. Is(g)
  <2>1. \A s \in 1 .. i : g[s - 1] \in T
    BY <1>1, <1>6
  <2>2. \A s \in 1 .. i : g[s] = Heap!Up(g[s - 1], k)
    BY <1>5, <1>6, <2>1 DEF Chained
  <2>3. g = [s \in 0 .. i |-> g[s]] /\ \A s \in 0 .. i : s # 0 => s \in 1 .. i
    BY <1>1, <1>6
  <2>4. \A s \in 0 .. i : g[s] = IF s = 0 THEN b ELSE Heap!Up(g[s - 1], k)
    BY <1>6, <2>2, <2>3 DEF Chained
  <2> QED BY <2>3, <2>4
<1>8. Is(passes)
  <2> HIDE DEF Is
  <2> QED BY <1>7
<1> HIDE DEF passes
<1>9. passes[0] = b /\ \A s \in 1 .. i : passes[s] = Heap!Up(passes[s - 1], k)
  BY <1>1, <1>8
<1> HIDE DEF Is
<1> DEFINE P == {s \in 0 .. i : passes[s] \in T /\ (UpEnds(passes[s], k) \/ passes[s].at + s <= i)}
<1>10. 0 \in P
  <2>1. b.at + 0 <= i
    BY <1>1 DEF b
  <2> QED BY <1>1, <1>2, <1>9, <2>1
<1>11. ASSUME NEW s \in 1 .. i, s - 1 \in P PROVE s \in P
  <2> DEFINE c == passes[s - 1]
  <2>1. c \in T /\ (UpEnds(c, k) \/ c.at + (s - 1) <= i) /\ passes[s] = Heap!Up(c, k)
    BY <1>9, <1>11
  <2> HIDE DEF c
  <2>2. Heap!Up(c, k) \in T
    BY <1>3, <2>1
  <2>3. CASE UpEnds(c, k)
    <3>1. passes[s] = c
      BY <2>1, <2>3, UpStep DEF T
    <3> QED BY <2>1, <2>3, <3>1
  <2>4. CASE ~UpEnds(c, k)
    <3>1. Heap!Up(c, k).at < c.at
      BY <2>1, <2>4, UpStep DEF T
    <3>2. c.at \in Nat /\ Heap!Up(c, k).at \in Nat
      BY <2>1, <2>2 DEF T, UpPasses
    <3>3. Heap!Up(c, k).at + s <= i
      BY <1>1, <2>1, <2>4, <3>1, <3>2
    <3> QED BY <2>1, <2>2, <3>3
  <2> QED BY <2>3, <2>4
<1>12. i \in P
  <2> HIDE DEF P
  <2>1. i \in Nat /\ i \in 0 .. i
    BY <1>1
  <2>2. \A s \in 0 .. i : s \in P
    BY <1>10, <1>11, <2>1, NumberByNumber
  <2> QED BY <2>1, <2>2
<1>13. passes[i] \in T /\ UpEnds(passes[i], k)
  <2>1. passes[i] \in T => passes[i].at \in Nat
    BY DEF T, UpPasses
  <2>2. passes[i] \in T /\ passes[i].at + i <= i => passes[i].at = 0
    BY <1>1, <2>1
  <2> QED BY <1>12, <2>2 DEF UpEnds
<1>14. InOrder(TimesOf(passes[i].heap, k, n), n)
  BY <1>13, UpStep DEF T
<1>15. passes[i].heap \in Holding(n, Q)
  BY <1>13 DEF T, UpPasses
<1> QED BY <1>4, <1>14, <1>15

-----------------------------------------------------------------------------
(* The queue. *)

HeapOk(h, k, Q, n) == h \in Holding(n, Q) /\ k \in [Items -> Int] /\ InOrder(TimesOf(h, k, n), n)

TheHeap == [ev |-> events, ix |-> index]
HeapInv == \E n \in Nat : HeapOk(TheHeap, nextschedule, queued, n)

LEMMA TheHeapFacts ==
  ASSUME NEW n \in Nat, HeapOk(TheHeap, nextschedule, queued, n)
  PROVE  /\ TheHeap.ev = events /\ TheHeap.ix = index /\ Heap!heapsize = n
         /\ events \in [0 .. n - 1 -> Items] /\ index \in [Items -> Int] /\ nextschedule \in [Items -> Int]
         /\ {events[i] : i \in 0 .. n - 1} = queued /\ queued \subseteq Items
         /\ \A i \in 0 .. n - 1 : events[i] \in Items /\ events[i] \in queued /\ index[events[i]] = i
         /\ \A j \in 1 .. n - 1 :
              /\ Heap!Parent(j) \in 0 .. n - 1 /\ Heap!Parent(j) < j
              /\ nextschedule[events[Heap!Parent(j)]] <= nextschedule[events[j]]
<1>1. /\ TheHeap \in Holding(n, queued) /\ nextschedule \in [Items -> Int]
      /\ InOrder(TimesOf(TheHeap, nextschedule, n), n)
  BY DEF HeapOk
<1>2. TheHeap.ev = events /\ TheHeap.ix = index
  BY DEF TheHeap
<1>3. /\ events \in [0 .. n - 1 -> Items] /\ index \in [Items -> Int]
      /\ {events[i] : i \in 0 .. n - 1} = queued /\ queued \subseteq Items
      /\ \A i \in 0 .. n - 1 : events[i] \in Items /\ events[i] \in queued /\ index[events[i]] = i
      /\ Heap!Cardinality(DOMAIN events) = n
      /\ \A i \in 0 .. n - 1 : TimesOf(TheHeap, nextschedule, n)[i] = nextschedule[events[i]]
  BY <1>1, <1>2, KeptFacts
<1>4. ASSUME NEW j \in 1 .. n - 1
      PROVE  /\ Heap!Parent(j) \in 0 .. n - 1 /\ Heap!Parent(j) < j
             /\ nextschedule[events[Heap!Parent(j)]] <= nextschedule[events[j]]
  <2>1. Heap!Parent(j) \in 0 .. n - 1 /\ Heap!Parent(j) < j
    BY ParentFacts
  <2> QED BY <1>1, <1>3, <2>1 DEF InOrder
<1> QED BY <1>1, <1>2, <1>3, <1>4 DEF Heap!heapsize

\* What a structure that is not queued holds does not matter.
LEMMA FreedOk ==
  ASSUME NEW n \in Nat, NEW Q, NEW h, NEW k, HeapOk(h, k, Q, n), NEW x \in Items, x \notin Q
  PROVE  HeapOk([h EXCEPT !.ix[x] = -1], [k EXCEPT ![x] = 0], Q, n)
<1> DEFINE g == [h EXCEPT !.ix[x] = -1]
           m == [k EXCEPT ![x] = 0]
<1>1. h \in Holding(n, Q) /\ k \in [Items -> Int] /\ InOrder(TimesOf(h, k, n), n)
  BY DEF HeapOk
<1>2. /\ h.ev \in [0 .. n - 1 -> Items] /\ h.ix \in [Items -> Int] /\ {h.ev[i] : i \in 0 .. n - 1} = Q
      /\ \A i \in 0 .. n - 1 : h.ev[i] \in Items /\ h.ev[i] # x /\ h.ix[h.ev[i]] = i
      /\ h = [ev |-> h.ev, ix |-> h.ix]
  BY <1>1, KeptFacts
<1>3. g = [ev |-> h.ev, ix |-> [h.ix EXCEPT ![x] = -1]]
  <2> DEFINE a == h.ev
             b == h.ix
  <2>1. h = [ev |-> a, ix |-> b]
    BY <1>2
  <2> HIDE DEF a, b
  <2>2. g = [ev |-> a, ix |-> [b EXCEPT ![x] = -1]]
    BY <2>1
  <2> QED BY <2>2 DEF a, b
<1>4. g.ev = h.ev /\ g.ix = [h.ix EXCEPT ![x] = -1]
  BY <1>3
<1> HIDE DEF g
<1>5. \A i \in 0 .. n - 1 : g.ix[g.ev[i]] = i
  BY <1>2, <1>4
<1>6. g \in Holding(n, Q)
  BY <1>2, <1>3, <1>4, <1>5 DEF Holding
<1>7. m \in [Items -> Int] /\ \A i \in 0 .. n - 1 : m[h.ev[i]] = k[h.ev[i]]
  BY <1>1, <1>2
<1> HIDE DEF m
<1>8. TimesOf(g, m, n) = TimesOf(h, k, n)
  BY <1>4, <1>7 DEF TimesOf
<1> QED BY <1>1, <1>6, <1>7, <1>8 DEF HeapOk, g, m

LEMMA LastDropped ==
  ASSUME NEW n \in Nat \ {0}, HeapOk(TheHeap, nextschedule, queued, n)
  PROVE  HeapOk([ev |-> Heap!Resize(events, n - 1), ix |-> index], nextschedule, queued \ {events[n - 1]},
           n - 1)
<1> DEFINE e == Heap!Resize(events, n - 1)
           g == [ev |-> e, ix |-> index]
<1>1. /\ events \in [0 .. n - 1 -> Items] /\ index \in [Items -> Int] /\ nextschedule \in [Items -> Int]
      /\ {events[i] : i \in 0 .. n - 1} = queued
      /\ \A i \in 0 .. n - 1 : events[i] \in Items /\ index[events[i]] = i
      /\ \A j \in 1 .. n - 1 :
           /\ Heap!Parent(j) \in 0 .. n - 1 /\ Heap!Parent(j) < j
           /\ nextschedule[events[Heap!Parent(j)]] <= nextschedule[events[j]]
  BY TheHeapFacts
<1>2. n - 1 \in Nat /\ 0 .. (n - 1) - 1 \subseteq 0 .. n - 1 /\ n - 1 \in 0 .. n - 1
  OBVIOUS
<1>3. e = [i \in 0 .. (n - 1) - 1 |-> events[i]]
  BY DEF Heap!Resize
<1>4. e \in [0 .. (n - 1) - 1 -> Items] /\ \A i \in 0 .. (n - 1) - 1 : e[i] = events[i]
  BY <1>1, <1>3
<1> HIDE DEF e
<1>5. \A i \in 0 .. (n - 1) - 1 : events[i] # events[n - 1]
  BY <1>1, <1>2
<1>6. {e[i] : i \in 0 .. (n - 1) - 1} = queued \ {events[n - 1]}
  <2>1. \A i \in 0 .. (n - 1) - 1 : e[i] \in queued \ {events[n - 1]}
    BY <1>1, <1>4, <1>5
  <2>2. ASSUME NEW y \in queued \ {events[n - 1]} PROVE \E i \in 0 .. (n - 1) - 1 : e[i] = y
    <3>1. PICK i \in 0 .. n - 1 : y = events[i]
      BY <1>1
    <3>2. i # n - 1
      BY <3>1, <2>2
    <3>3. i \in 0 .. (n - 1) - 1
      BY <3>2
    <3> QED BY <1>4, <3>1, <3>3
  <2> QED BY <2>1, <2>2
<1>7. g \in Holding(n - 1, queued \ {events[n - 1]})
  BY <1>1, <1>4, <1>6 DEF Holding
<1>8. \A i \in 0 .. (n - 1) - 1 : TimesOf(g, nextschedule, n - 1)[i] = nextschedule[events[i]]
  BY <1>4 DEF TimesOf
<1>9. InOrder(TimesOf(g, nextschedule, n - 1), n - 1)
  BY <1>1, <1>8 DEF InOrder
<1> QED BY <1>1, <1>7, <1>9 DEF HeapOk, e

\* The last in another's place is in order but for its parent and its children.
LEMMA LastMoved ==
  ASSUME NEW n \in Nat \ {0}, HeapOk(TheHeap, nextschedule, queued, n), NEW i \in 0 .. n - 1, i # n - 1
  PROVE  /\ Heap!MoveLast(i) \in Holding(n - 1, queued \ {events[i]})
         /\ DownReady(TimesOf(Heap!MoveLast(i), nextschedule, n - 1), n - 1, i, i)
<1> DEFINE N == n - 1
           last == events[n - 1]
           x == events[i]
           e == Heap!Resize([events EXCEPT ![i] = last], N)
           d == [index EXCEPT ![x] = -1, ![last] = i]
           g == Heap!MoveLast(i)
           t == TimesOf(g, nextschedule, N)
<1>1. /\ events \in [0 .. n - 1 -> Items] /\ index \in [Items -> Int] /\ nextschedule \in [Items -> Int]
      /\ {events[j] : j \in 0 .. n - 1} = queued /\ Heap!heapsize = n
      /\ \A j \in 0 .. n - 1 : events[j] \in Items /\ index[events[j]] = j
      /\ \A j \in 1 .. n - 1 :
           /\ Heap!Parent(j) \in 0 .. n - 1 /\ Heap!Parent(j) < j
           /\ nextschedule[events[Heap!Parent(j)]] <= nextschedule[events[j]]
  BY TheHeapFacts
<1>2. N \in Nat /\ i \in 0 .. N - 1 /\ n - 1 \in 0 .. n - 1 /\ 0 .. N - 1 \subseteq 0 .. n - 1
  OBVIOUS
<1>3. g = [ev |-> e, ix |-> d]
  BY <1>1 DEF Heap!MoveLast
<1>4. e = [j \in 0 .. N - 1 |-> IF j = i THEN last ELSE events[j]]
  BY <1>1, <1>2 DEF Heap!Resize
<1>5. x \in Items /\ last \in Items /\ x # last
  BY <1>1, <1>2
<1>6. e \in [0 .. N - 1 -> Items] /\ e[i] = last /\ \A j \in 0 .. N - 1 : j # i => e[j] = events[j]
  BY <1>1, <1>2, <1>4, <1>5
<1>7. d \in [Items -> Int] /\ d[last] = i /\ \A y \in Items : y # x /\ y # last => d[y] = index[y]
  BY <1>1, <1>5
<1> HIDE DEF e, d
<1>8. \A j \in 0 .. N - 1 : j # i => events[j] # x /\ events[j] # last
  BY <1>1, <1>2
<1>9. ASSUME NEW j \in 0 .. N - 1 PROVE d[e[j]] = j
  <2>1. CASE j = i
    BY <1>6, <1>7, <2>1
  <2>2. CASE j # i
    <3>1. e[j] = events[j] /\ events[j] \in Items /\ events[j] # x /\ events[j] # last /\ index[events[j]] = j
      BY <1>1, <1>2, <1>6, <1>8, <2>2
    <3> HIDE DEF x, last
    <3> QED BY <1>7, <3>1
  <2> QED BY <2>1, <2>2
<1>10. {e[j] : j \in 0 .. N - 1} = queued \ {x}
  <2>1. ASSUME NEW j \in 0 .. N - 1 PROVE e[j] \in queued \ {x}
    <3>1. CASE j = i
      BY <1>1, <1>2, <1>5, <1>6, <3>1
    <3>2. CASE j # i
      BY <1>1, <1>2, <1>6, <1>8, <3>2
    <3> QED BY <3>1, <3>2
  <2>2. ASSUME NEW y \in queued \ {x} PROVE \E j \in 0 .. N - 1 : e[j] = y
    <3>1. PICK j \in 0 .. n - 1 : y = events[j]
      BY <1>1
    <3>2. j # i
      BY <3>1, <2>2
    <3>3. CASE j = n - 1
      BY <1>2, <1>6, <3>1, <3>3
    <3>4. CASE j # n - 1
      <4>1. j \in 0 .. N - 1
        BY <3>4
      <4> QED BY <1>6, <3>1, <3>2, <4>1
    <3> QED BY <3>3, <3>4
  <2> QED BY <2>1, <2>2
<1> HIDE DEF g
<1>11. g \in Holding(N, queued \ {x})
  <2>1. g \in [ev : [0 .. N - 1 -> Items], ix : [Items -> Int]] /\ g.ev = e /\ g.ix = d
    BY <1>3, <1>6, <1>7
  <2> QED BY <2>1, <1>9, <1>10 DEF Holding
<1>12. \A j \in 0 .. N - 1 : j # i => t[j] = nextschedule[events[j]]
  BY <1>3, <1>6 DEF TimesOf
<1> HIDE DEF t
<1>13. ASSUME NEW j \in 1 .. N - 1, j # i, Heap!Parent(j) # i PROVE t[Heap!Parent(j)] <= t[j]
  <2>1. j \in 1 .. n - 1 /\ Heap!Parent(j) \in 0 .. N - 1 /\ j \in 0 .. N - 1
    BY <1>1, <1>2
  <2> QED BY <1>1, <1>12, <1>13, <2>1
<1>14. ASSUME NEW j \in 1 .. N - 1, Heap!Parent(j) = i, i > 0 PROVE t[Heap!Parent(i)] <= t[j]
  <2>1. j \in 1 .. n - 1 /\ i \in 1 .. n - 1 /\ i < j
    BY <1>1, <1>2, <1>14
  <2>2. Heap!Parent(i) \in 0 .. N - 1 /\ Heap!Parent(i) # i /\ j \in 0 .. N - 1
    BY <1>1, <1>2, <2>1
  <2>3. /\ nextschedule[events[Heap!Parent(i)]] <= nextschedule[events[i]]
        /\ nextschedule[events[i]] <= nextschedule[events[j]]
    BY <1>1, <1>14, <2>1
  <2>4. /\ nextschedule[events[Heap!Parent(i)]] \in Int /\ nextschedule[events[i]] \in Int
        /\ nextschedule[events[j]] \in Int
    BY <1>1, <1>2, <2>1, <2>2
  <2>5. t[j] = nextschedule[events[j]] /\ t[Heap!Parent(i)] = nextschedule[events[Heap!Parent(i)]]
    BY <1>12, <2>1, <2>2
  <2> QED BY <2>3, <2>4, <2>5
<1>15. DownReady(t, N, i, i)
  BY <1>13, <1>14 DEF DownReady, Bridged
<1> QED BY <1>11, <1>15 DEF t, g

LEMMA RemovedOk ==
  ASSUME NEW n \in Nat, HeapOk(TheHeap, nextschedule, queued, n), NEW i \in 0 .. n - 1
  PROVE  /\ HeapOk(Heap!Removed(i), nextschedule, queued \ {events[i]}, n - 1)
         /\ i = 0 => HeapOk(Heap!WithoutRoot, nextschedule, queued \ {events[i]}, n - 1)
<1>1. /\ Heap!heapsize = n /\ nextschedule \in [Items -> Int] /\ n \in Nat \ {0} /\ n - 1 \in Nat
  BY TheHeapFacts
<1>2. CASE i = n - 1
  <2>1. Heap!Removed(i) = [ev |-> Heap!Resize(events, n - 1), ix |-> index]
    BY <1>1, <1>2 DEF Heap!Removed
  <2>2. i = 0 => Heap!WithoutRoot = [ev |-> Heap!Resize(events, n - 1), ix |-> index]
    BY <1>1, <1>2 DEF Heap!WithoutRoot
  <2>3. HeapOk([ev |-> Heap!Resize(events, n - 1), ix |-> index], nextschedule, queued \ {events[i]}, n - 1)
    BY <1>1, <1>2, LastDropped
  <2> QED BY <2>1, <2>2, <2>3
<1>3. CASE i # n - 1
  <2> DEFINE N == n - 1
             Q == queued \ {events[i]}
             g == Heap!MoveLast(i)
             h == Heap!schedule_heapify(g, nextschedule, i)
             f == Heap!FloatUp(h, nextschedule, i)
  <2>1. Heap!Removed(i) = f
    BY <1>1, <1>3 DEF Heap!Removed
  <2>2. i = 0 => Heap!WithoutRoot = h
    BY <1>1, <1>3 DEF Heap!WithoutRoot
  <2>3. g \in Holding(N, Q) /\ DownReady(TimesOf(g, nextschedule, N), N, i, i)
    BY <1>1, <1>3, LastMoved
  <2>4. i \in 0 .. N - 1 /\ N \in Nat
    BY <1>1, <1>3
  <2> HIDE DEF N, Q, g
  <2>5. h \in Holding(N, Q) /\ UpReady(TimesOf(h, nextschedule, N), N, i)
    BY <1>1, <2>3, <2>4, HeapifyRight
  <2> HIDE DEF h
  <2>6. f \in Holding(N, Q) /\ InOrder(TimesOf(f, nextschedule, N), N)
    BY <1>1, <2>4, <2>5, FloatRight
  <2>7. i = 0 => InOrder(TimesOf(h, nextschedule, N), N)
    <3>1. TimesOf(h, nextschedule, N) \in [0 .. N - 1 -> Int]
      BY <1>1, <2>4, <2>5, KeptFacts
    <3> QED BY <2>4, <2>5, <3>1, UpDone
  <2> QED BY <1>1, <2>1, <2>2, <2>5, <2>6, <2>7 DEF HeapOk, N, Q
<1> QED BY <1>2, <1>3

LEMMA FreeInv ==
  ASSUME NEW n \in Nat, NEW x \in queued, queued \subseteq Items, NEW h,
         HeapOk(h, nextschedule, queued \ {x}, n), Heap!Free(x, h)
  PROVE  HeapInv'
<1>1. HeapOk([h EXCEPT !.ix[x] = -1], [nextschedule EXCEPT ![x] = 0], queued \ {x}, n)
  BY FreedOk
<1>2. /\ events' = [h EXCEPT !.ix[x] = -1].ev /\ index' = [h EXCEPT !.ix[x] = -1].ix
      /\ nextschedule' = [nextschedule EXCEPT ![x] = 0] /\ queued' = queued \ {x}
  BY DEF Heap!Free, Heap!Put
<1>3. [h EXCEPT !.ix[x] = -1] = [ev |-> [h EXCEPT !.ix[x] = -1].ev, ix |-> [h EXCEPT !.ix[x] = -1].ix]
  <2> DEFINE g == [h EXCEPT !.ix[x] = -1]
  <2>1. g \in Holding(n, queued \ {x})
    BY <1>1 DEF HeapOk
  <2> HIDE DEF g
  <2>2. g = [ev |-> g.ev, ix |-> g.ix]
    BY <2>1 DEF Holding
  <2> QED BY <2>2 DEF g
<1>4. HeapOk([ev |-> events', ix |-> index'], nextschedule', queued', n)
  BY <1>1, <1>2, <1>3
<1> QED BY <1>4 DEF HeapInv, TheHeap, HeapOk, InOrder, TimesOf, Holding

LEMMA RemoveInv ==
  ASSUME HeapInv, NEW x \in Items, Heap!schedule_remove(x)
  PROVE  HeapInv'
<1>1. PICK n \in Nat : HeapOk(TheHeap, nextschedule, queued, n)
  BY DEF HeapInv
<1>2. /\ Heap!heapsize = n /\ {events[i] : i \in 0 .. n - 1} = queued /\ queued \subseteq Items
      /\ \A i \in 0 .. n - 1 : index[events[i]] = i
  BY <1>1, TheHeapFacts
<1>3. x \in queued /\ index[x] \in 0 .. n - 1 /\ Heap!Free(x, Heap!Removed(index[x]))
  BY <1>2 DEF Heap!schedule_remove
<1>4. events[index[x]] = x
  BY <1>2, <1>3
<1>5. HeapOk(Heap!Removed(index[x]), nextschedule, queued \ {x}, n - 1) /\ n - 1 \in Nat
  BY <1>1, <1>3, <1>4, RemovedOk
<1> QED BY <1>2, <1>3, <1>5, FreeInv

LEMMA PopInv ==
  ASSUME HeapInv, Heap!PopRoot
  PROVE  HeapInv'
<1>1. PICK n \in Nat : HeapOk(TheHeap, nextschedule, queued, n)
  BY DEF HeapInv
<1>2. /\ Heap!heapsize = n /\ queued \subseteq Items
      /\ \A i \in 0 .. n - 1 : events[i] \in queued
  BY <1>1, TheHeapFacts
<1>3. n > 0 /\ Heap!Free(events[0], Heap!WithoutRoot)
  BY <1>2 DEF Heap!PopRoot
<1>4. 0 \in 0 .. n - 1 /\ n - 1 \in Nat
  BY <1>3
<1>5. HeapOk(Heap!WithoutRoot, nextschedule, queued \ {events[0]}, n - 1) /\ events[0] \in queued
  BY <1>1, <1>2, <1>4, RemovedOk
<1> QED BY <1>2, <1>3, <1>4, <1>5, FreeInv

LEMMA InsertInv ==
  ASSUME Heap!HeapAssumption, HeapInv, NEW x \in Items, NEW k \in HeapTimes, Heap!insertschedule(x, k)
  PROVE  HeapInv'
<1>1. PICK n \in Nat : HeapOk(TheHeap, nextschedule, queued, n)
  BY DEF HeapInv
<1>2. /\ events \in [0 .. n - 1 -> Items] /\ index \in [Items -> Int] /\ nextschedule \in [Items -> Int]
      /\ {events[j] : j \in 0 .. n - 1} = queued /\ Heap!heapsize = n
      /\ \A j \in 0 .. n - 1 : events[j] \in Items /\ events[j] \in queued /\ index[events[j]] = j
      /\ \A j \in 1 .. n - 1 :
           /\ Heap!Parent(j) \in 0 .. n - 1 /\ Heap!Parent(j) < j
           /\ nextschedule[events[Heap!Parent(j)]] <= nextschedule[events[j]]
  BY <1>1, TheHeapFacts
<1> DEFINE N == n + 1
           m == [nextschedule EXCEPT ![x] = k]
           e == [i \in 0 .. n |-> IF i = n THEN x ELSE events[i]]
           d == [index EXCEPT ![x] = n]
           g == [ev |-> e, ix |-> d]
           Q == queued \cup {x}
           t == TimesOf(g, m, N)
           f == Heap!FloatUp(g, m, n)
<1>3. x \notin queued /\ nextschedule' = m /\ queued' = Q /\ events' = f.ev /\ index' = f.ix
  BY <1>2 DEF Heap!insertschedule, Heap!Put
<1>4. m \in [Items -> Int] /\ m[x] = k /\ \A y \in Items : y # x => m[y] = nextschedule[y]
  BY <1>2 DEF Heap!HeapAssumption
<1>5. N \in Nat /\ n \in 0 .. N - 1 /\ 0 .. N - 1 = 0 .. n
  OBVIOUS
<1>6. e \in [0 .. N - 1 -> Items] /\ e[n] = x /\ \A i \in 0 .. n - 1 : e[i] = events[i]
  BY <1>2, <1>5
<1>7. d \in [Items -> Int] /\ d[x] = n /\ \A y \in Items : y # x => d[y] = index[y]
  BY <1>2
<1> HIDE DEF m, e, d
<1>8. \A i \in 0 .. N - 1 : i = n \/ i \in 0 .. n - 1
  BY <1>5
<1>9. \A i \in 0 .. n - 1 : events[i] # x
  BY <1>2, <1>3
<1>10. {e[i] : i \in 0 .. N - 1} = Q
  <2>1. \A i \in 0 .. N - 1 : e[i] \in Q
    BY <1>2, <1>6, <1>8
  <2>2. ASSUME NEW y \in Q PROVE \E i \in 0 .. N - 1 : e[i] = y
    <3>1. CASE y = x
      BY <1>5, <1>6, <3>1
    <3>2. CASE y # x
      <4>1. PICK i \in 0 .. n - 1 : y = events[i]
        BY <1>2, <3>2
      <4>2. i \in 0 .. N - 1
        OBVIOUS
      <4> QED BY <1>6, <4>1, <4>2
    <3> QED BY <3>1, <3>2
  <2> QED BY <2>1, <2>2
<1>11. \A i \in 0 .. N - 1 : d[e[i]] = i
  BY <1>2, <1>6, <1>7, <1>8, <1>9
<1>12. g \in Holding(N, Q)
  BY <1>6, <1>7, <1>10, <1>11 DEF Holding
<1>13. \A i \in 0 .. n - 1 : t[i] = nextschedule[events[i]]
  BY <1>2, <1>4, <1>5, <1>6, <1>9 DEF TimesOf
<1>14. UpReady(t, N, n)
  <2>1. ASSUME NEW j \in 1 .. N - 1, j # n PROVE t[Heap!Parent(j)] <= t[j]
    <3>1. j \in 1 .. n - 1 /\ j \in 0 .. n - 1
      BY <2>1
    <3> HIDE DEF t
    <3> QED BY <1>2, <1>13, <3>1
  <2>2. ASSUME NEW j \in 1 .. N - 1 PROVE Heap!Parent(j) # n
    <3>1. Heap!Parent(j) < j /\ j \in Nat \ {0} /\ j <= n /\ Heap!Parent(j) \in Nat
      BY ParentFacts
    <3> QED BY <3>1
  <2> QED BY <2>1, <2>2 DEF UpReady, Bridged
<1> HIDE DEF g, t, Q
<1>15. f \in Holding(N, Q) /\ InOrder(TimesOf(f, m, N), N)
  BY <1>4, <1>5, <1>12, <1>14, FloatRight DEF t
<1> HIDE DEF f
<1>16. f = [ev |-> f.ev, ix |-> f.ix]
  BY <1>15, <1>4, <1>5, KeptFacts
<1>17. HeapOk(f, m, Q, N)
  BY <1>4, <1>15 DEF HeapOk
<1>18. HeapOk([ev |-> events', ix |-> index'], nextschedule', queued', N)
  BY <1>3, <1>16, <1>17
<1> HIDE DEF N
<1>19. N \in Nat
  BY <1>5
<1> QED BY <1>18, <1>19 DEF HeapInv, TheHeap, HeapOk, InOrder, TimesOf, Holding

LEMMA HeapStart ==
  ASSUME Heap!Init
  PROVE  HeapInv
<1>1. /\ TheHeap = [ev |-> [i \in {} |-> 0], ix |-> [x \in Items |-> -1]]
      /\ nextschedule = [x \in Items |-> 0] /\ queued = {}
  BY DEF Heap!Init, TheHeap
<1>2. 0 .. 0 - 1 = {}
  OBVIOUS
<1>3. [i \in {} |-> 0] \in [0 .. 0 - 1 -> Items]
  BY <1>2
<1>4. TheHeap \in Holding(0, queued)
  BY <1>1, <1>2, <1>3 DEF Holding
<1>5. InOrder(TimesOf(TheHeap, nextschedule, 0), 0)
  BY DEF InOrder
<1>6. nextschedule \in [Items -> Int]
  BY <1>1
<1> QED BY <1>4, <1>5, <1>6 DEF HeapInv, HeapOk

LEMMA HeapStep ==
  ASSUME Heap!HeapAssumption, HeapInv, [Heap!Next]_Heap!vars
  PROVE  HeapInv'
<1>1. CASE UNCHANGED Heap!vars
  <2>1. TheHeap' = TheHeap /\ nextschedule' = nextschedule /\ queued' = queued
    BY <1>1 DEF Heap!vars, TheHeap
  <2> QED BY <2>1 DEF HeapInv, HeapOk
<1>2. CASE \E x \in Items, k \in HeapTimes : Heap!insertschedule(x, k)
  BY <1>2, InsertInv
<1>3. CASE \E x \in Items : Heap!schedule_remove(x)
  BY <1>3, RemoveInv
<1>4. CASE Heap!PopRoot
  BY <1>4, PopInv
<1> QED BY <1>1, <1>2, <1>3, <1>4 DEF Heap!Next

LEMMA InvHeapExact ==
  ASSUME HeapInv
  PROVE  Heap!HeapExact
<1>1. PICK n \in Nat : HeapOk(TheHeap, nextschedule, queued, n)
  BY DEF HeapInv
<1>2. /\ events \in [0 .. n - 1 -> Items] /\ Heap!heapsize = n
      /\ {events[i] : i \in 0 .. n - 1} = queued
      /\ \A i \in 0 .. n - 1 : events[i] \in queued /\ index[events[i]] = i
      /\ \A j \in 1 .. n - 1 : nextschedule[events[Heap!Parent(j)]] <= nextschedule[events[j]]
  BY <1>1, TheHeapFacts
<1>3. DOMAIN events = 0 .. n - 1
  BY <1>2
<1>4. Heap!Cardinality(queued) = n
  <2> DEFINE f == [i \in 0 .. n - 1 |-> events[i]]
  <2>1. f \in Bijection(0 .. n - 1, queued)
    <3>1. f \in [0 .. n - 1 -> queued] /\ \A i, j \in 0 .. n - 1 : f[i] = f[j] => i = j
      BY <1>2
    <3>2. \A y \in queued : \E i \in 0 .. n - 1 : f[i] = y
      BY <1>2
    <3> QED BY <3>1, <3>2 DEF Bijection, Injection, Surjection, IsInjective
  <2>2. ExistsBijection(0 .. n - 1, queued)
    BY <2>1 DEF ExistsBijection
  <2>3. IsFiniteSet(0 .. n - 1) /\ Cardinality(0 .. n - 1) = n
    BY FS_Interval
  <2>4. Cardinality(queued) = n
    BY <2>2, <2>3, FS_Bijection
  <2> QED BY <2>4 DEF Heap!Cardinality, Cardinality
<1> QED BY <1>2, <1>3, <1>4 DEF Heap!HeapExact

\* schedule_heapify(), insertschedule(), schedule_remove(): for any number of timers and any times, what
\* is queued is in the heap once and knows its place in it, and no timer is above an earlier one.
THEOREM HeapKeepsTimers ==
  ASSUME Heap!HeapAssumption
  PROVE  Heap!Spec => [](Heap!HeapExact /\ HeapExact)
<1>1. Heap!Init => HeapInv
  BY HeapStart
<1>2. HeapInv /\ [Heap!Next]_(Heap!vars) => HeapInv'
  BY HeapStep
<1>3. HeapInv => Heap!HeapExact /\ HeapExact
  BY InvHeapExact DEF HeapExact
<1> QED BY <1>1, <1>2, <1>3, PTL DEF Heap!Spec

-----------------------------------------------------------------------------
(* The hash of a channel's users. *)

HashWord == [numeric : HashNumerics, op : BOOLEAN]
TablesOf(s) == [0 .. s - 1 -> HashWord \cup {nouser}]
HashTables == UNION {TablesOf(s) : s \in Nat \ {0}}
WordsOf(t) == {t[j] : j \in DOMAIN t} \ {nouser}

\* Every word is at one of its own places, and no numeric has two.
InPlace(t) ==
  \A j \in DOMAIN t : t[j] # nouser =>
    \E i \in Hash!Depths : j = Hash!Place(t[j].numeric, Hash!hashsize(t), i)
OnceEach(t) ==
  \A j, k \in DOMAIN t : t[j] # nouser /\ t[k] # nouser /\ t[j].numeric = t[k].numeric => j = k
GoodTables == {t \in HashTables : InPlace(t) /\ OnceEach(t)}

\* The word that delnickfromchannel() holds is in the table, and is that of the user who leaves.
Held(t) ==
  lp # nouser =>
    /\ lp.freed = FALSE /\ lp.place \in DOMAIN t
    /\ t[lp.place] # nouser /\ t[lp.place].numeric = lp.numeric

HashInv ==
  /\ content \in GoodTables /\ members = WordsOf(content)
  /\ totalusers = Cardinality(members)
  /\ Held(content)

LEMMA HashCardinality == \A S : Hash!Cardinality(S) = Cardinality(S)
  BY DEF Hash!Cardinality, Cardinality

LEMMA TableFacts ==
  ASSUME NEW s \in Nat \ {0}, NEW t \in TablesOf(s)
  PROVE  /\ Hash!hashsize(t) = s /\ DOMAIN t = 0 .. s - 1 /\ t \in HashTables
         /\ \A j \in 0 .. s - 1 : t[j] \in HashWord \cup {nouser}
         /\ t = [j \in 0 .. s - 1 |-> t[j]]
<1>1. DOMAIN t = 0 .. s - 1 /\ t \in HashTables
  BY DEF TablesOf, HashTables
<1>2. Cardinality(0 .. s - 1) = s
  BY FS_Interval
<1> QED BY <1>1, <1>2, HashCardinality DEF TablesOf, Hash!hashsize

LEMMA PlaceInTable ==
  ASSUME NEW n \in Nat, NEW s \in Nat \ {0}, NEW i \in Nat
  PROVE  Hash!Place(n, s, i) \in 0 .. s - 1
<1> DEFINE hash2 == (n \div s) % s
           step == IF hash2 = 0 THEN 1 ELSE hash2
<1>1. n \div s \in Nat
  OBVIOUS
<1>2. hash2 \in Nat
  BY <1>1
<1>3. step \in Nat
  BY <1>2
<1>4. n % s \in Nat
  OBVIOUS
<1>5. Hash!Place(n, s, i) = ((n % s) + i * step) % s
  BY DEF Hash!Place
<1> HIDE DEF step
<1>6. i * step \in Nat
  BY <1>3
<1>7. \A a \in Nat : a % s \in 0 .. s - 1
  OBVIOUS
<1>8. (n % s) + i * step \in Nat
  BY <1>4, <1>6
<1> QED BY <1>5, <1>7, <1>8

\* The place that a word takes is free, and it is one of its own.
LEMMA FirstFree ==
  ASSUME Hash!HashAssumption, NEW s \in Nat \ {0}, NEW t \in TablesOf(s), NEW w \in HashWord, Hash!Fits(t, w)
  PROVE  \E i \in Hash!Depths :
           LET p == Hash!Place(w.numeric, s, i) IN
           p \in 0 .. s - 1 /\ t[p] = nouser /\ Hash!Added(t, w) = [t EXCEPT ![p] = w]
<1> DEFINE Free == Hash!FreeAt(t, w.numeric)
           i == Hash!Min(Free)
<1>1. Hash!hashsize(t) = s
  BY TableFacts
<1>2. Free \subseteq Hash!Depths /\ Free # {}
  BY DEF Hash!Fits, Hash!FreeAt
<1>3. Hash!Depths \subseteq Nat
  BY DEF Hash!Depths, Hash!HashAssumption
<1>4. i \in Free
  <2>1. \E x \in Free : \A y \in Free : x <= y
    BY <1>2, <1>3, LeastNat
  <2> QED BY <2>1 DEF Hash!Min
<1>5. w.numeric \in Nat
  BY DEF HashWord, Hash!HashAssumption
<1>6. Hash!Place(w.numeric, s, i) \in 0 .. s - 1
  BY <1>2, <1>3, <1>4, <1>5, PlaceInTable
<1>7. t[Hash!Place(w.numeric, s, i)] = nouser
  BY <1>1, <1>4 DEF Hash!FreeAt
<1>8. Hash!Added(t, w) = [t EXCEPT ![Hash!Place(w.numeric, s, i)] = w]
  BY <1>1 DEF Hash!Added
<1> QED BY <1>2, <1>4, <1>6, <1>7, <1>8

LEMMA AddedTable ==
  ASSUME Hash!HashAssumption, NEW s \in Nat \ {0}, NEW t \in TablesOf(s), NEW w \in HashWord
  PROVE  Hash!Added(t, w) \in TablesOf(s)
<1>1. CASE Hash!Fits(t, w)
  <2>1. PICK p \in 0 .. s - 1 : Hash!Added(t, w) = [t EXCEPT ![p] = w]
    BY <1>1, FirstFree
  <2> QED BY <2>1 DEF TablesOf
<1>2. CASE ~Hash!Fits(t, w)
  BY <1>2 DEF Hash!Added
<1> QED BY <1>1, <1>2

\* A numeric that is not in the table comes to be in it, once and at one of its places.
LEMMA AddedGood ==
  ASSUME Hash!HashAssumption, NEW s \in Nat \ {0}, NEW t \in TablesOf(s), t \in GoodTables,
         NEW w \in HashWord, Hash!Fits(t, w), \A v \in WordsOf(t) : v.numeric # w.numeric
  PROVE  Hash!Added(t, w) \in GoodTables /\ WordsOf(Hash!Added(t, w)) = WordsOf(t) \cup {w}
<1> DEFINE u == Hash!Added(t, w)
<1>1. PICK i \in Hash!Depths :
        LET p == Hash!Place(w.numeric, s, i) IN p \in 0 .. s - 1 /\ t[p] = nouser /\ u = [t EXCEPT ![p] = w]
  BY FirstFree
<1> DEFINE p == Hash!Place(w.numeric, s, i)
<1>2. p \in 0 .. s - 1 /\ t[p] = nouser /\ u = [t EXCEPT ![p] = w]
  BY <1>1
<1>3. u \in TablesOf(s)
  BY AddedTable
<1> HIDE DEF u, p
<1>4. /\ Hash!hashsize(t) = s /\ DOMAIN t = 0 .. s - 1
      /\ Hash!hashsize(u) = s /\ DOMAIN u = 0 .. s - 1 /\ u \in HashTables
  BY <1>3, TableFacts
<1>5. u[p] = w /\ \A j \in 0 .. s - 1 : j # p => u[j] = t[j]
  BY <1>2, <1>4
<1>6. w # nouser
  BY DEF HashWord, Hash!HashAssumption
<1>7. InPlace(t) /\ OnceEach(t)
  BY DEF GoodTables
<1>8. \A j \in 0 .. s - 1 : t[j] # nouser => t[j].numeric # w.numeric
  BY <1>4 DEF WordsOf
<1>9. InPlace(u)
  <2> SUFFICES ASSUME NEW j \in 0 .. s - 1, u[j] # nouser
               PROVE  \E k \in Hash!Depths : j = Hash!Place(u[j].numeric, s, k)
    BY <1>4 DEF InPlace
  <2>1. CASE j = p
    BY <2>1, <1>5 DEF p
  <2>2. CASE j # p
    BY <2>2, <1>4, <1>5, <1>7 DEF InPlace
  <2> QED BY <2>1, <2>2
<1>10. OnceEach(u)
  BY <1>4, <1>5, <1>7, <1>8 DEF OnceEach
<1>11. WordsOf(u) = WordsOf(t) \cup {w}
  BY <1>2, <1>4, <1>5, <1>6 DEF WordsOf
<1> QED BY <1>4, <1>9, <1>10, <1>11 DEF GoodTables, u

LEMMA SizedGood ==
  ASSUME NEW s \in Nat \ {0}
  PROVE  Hash!Sized(s) \in TablesOf(s) /\ Hash!Sized(s) \in GoodTables /\ WordsOf(Hash!Sized(s)) = {}
<1>1. Hash!Sized(s) = [i \in 0 .. s - 1 |-> nouser]
  BY DEF Hash!Sized
<1>2. Hash!Sized(s) \in TablesOf(s)
  BY <1>1 DEF TablesOf
<1>3. Hash!Sized(s) \in HashTables
  BY <1>2, TableFacts
<1> QED BY <1>1, <1>2, <1>3 DEF GoodTables, InPlace, OnceEach, WordsOf

\* The copies of a table, one for each number of words.
LEMMA CopiesFacts ==
  ASSUME Hash!HashAssumption, NEW n \in Nat \ {0}, NEW t \in TablesOf(n), NEW s \in Nat \ {0}
  PROVE  /\ Hash!Copies(t, s) \in [0 .. n -> TablesOf(s)]
         /\ Hash!Copies(t, s)[0] = Hash!Sized(s)
         /\ \A k \in 1 .. n : Hash!Copies(t, s)[k] =
              IF t[k - 1] = nouser THEN Hash!Copies(t, s)[k - 1]
              ELSE Hash!Added(Hash!Copies(t, s)[k - 1], t[k - 1])
<1> DEFINE T == TablesOf(s)
           b == Hash!Sized(s)
           F == [x \in (1 .. n) \X T |-> IF t[x[1] - 1] = nouser THEN x[2] ELSE Hash!Added(x[2], t[x[1] - 1])]
           Is(f) == f = [k \in 0 .. n |-> IF k = 0 THEN b
                           ELSE IF t[k - 1] = nouser THEN f[k - 1] ELSE Hash!Added(f[k - 1], t[k - 1])]
           c == Hash!Copies(t, s)
<1>1. Hash!hashsize(t) = n /\ \A j \in 0 .. n - 1 : t[j] \in HashWord \cup {nouser}
  BY TableFacts
<1>2. b \in T
  BY SizedGood
<1>3. F \in [(1 .. n) \X T -> T]
  <2> SUFFICES ASSUME NEW k \in 1 .. n, NEW u \in T
               PROVE  (IF t[k - 1] = nouser THEN u ELSE Hash!Added(u, t[k - 1])) \in T
    OBVIOUS
  <2>1. k - 1 \in 0 .. n - 1
    OBVIOUS
  <2>2. t[k - 1] # nouser => t[k - 1] \in HashWord
    BY <1>1, <2>1
  <2> QED BY <2>2, AddedTable
<1>4. \A k \in 1 .. n, u \in T : F[<<k, u>>] = IF t[k - 1] = nouser THEN u ELSE Hash!Added(u, t[k - 1])
  OBVIOUS
<1> HIDE DEF F, b, T
<1>5. PICK f \in [0 .. n -> T] : Chained(f, n, b, F)
  <2>1. n \in Nat
    OBVIOUS
  <2> QED BY <1>2, <1>3, <2>1, Iterates
<1>6. Is(f)
  <2>1. \A k \in 1 .. n : f[k - 1] \in T
    BY <1>5
  <2>2. \A k \in 1 .. n :
          F[<<k, f[k - 1]>>] = IF t[k - 1] = nouser THEN f[k - 1] ELSE Hash!Added(f[k - 1], t[k - 1])
    BY <1>4, <2>1
  <2>3. \A k \in 1 .. n :
          f[k] = IF t[k - 1] = nouser THEN f[k - 1] ELSE Hash!Added(f[k - 1], t[k - 1])
    BY <1>5, <2>2 DEF Chained
  <2>4. f = [k \in 0 .. n |-> f[k]] /\ \A k \in 0 .. n : k # 0 => k \in 1 .. n
    BY <1>5
  <2>5. \A k \in 0 .. n : f[k] = IF k = 0 THEN b
          ELSE IF t[k - 1] = nouser THEN f[k - 1] ELSE Hash!Added(f[k - 1], t[k - 1])
    BY <1>5, <2>3, <2>4 DEF Chained
  <2> QED BY <2>4, <2>5
<1>7. c = CHOOSE g : Is(g)
  BY <1>1 DEF Hash!Copies, b
<1>8. Is(c)
  <2> HIDE DEF Is, c
  <2> QED BY <1>6, <1>7
<1> HIDE DEF c
<1>9. \A k \in 1 .. n : c[k] = IF t[k - 1] = nouser THEN c[k - 1] ELSE Hash!Added(c[k - 1], t[k - 1])
  BY <1>8
<1>10. c = f
  <2> DEFINE P == {k \in 0 .. n : c[k] = f[k]}
  <2>1. 0 \in P
    BY <1>6, <1>8
  <2>2. ASSUME NEW k \in 1 .. n, k - 1 \in P PROVE k \in P
    <3>1. c[k - 1] = f[k - 1]
      BY <2>2
    <3>2. f[k] = IF t[k - 1] = nouser THEN f[k - 1] ELSE Hash!Added(f[k - 1], t[k - 1])
      BY <1>6
    <3> QED BY <1>9, <3>1, <3>2
  <2>3. \A k \in 0 .. n : k \in P
    <3> HIDE DEF P
    <3> QED BY <2>1, <2>2, NumberByNumber
  <2>4. \A k \in 0 .. n : c[k] = f[k]
    BY <2>3
  <2> HIDE DEF P
  <2>5. DOMAIN c = 0 .. n /\ c = [k \in 0 .. n |-> c[k]] /\ f = [k \in 0 .. n |-> f[k]]
    BY <1>5, <1>8
  <2> QED BY <2>4, <2>5
<1>11. c[0] = b
  BY <1>8
<1> QED BY <1>5, <1>9, <1>10, <1>11 DEF c, b, T

\* When every word fits, what is copied is what was there.
LEMMA CopyGood ==
  ASSUME Hash!HashAssumption, NEW n \in Nat \ {0}, NEW t \in TablesOf(n), t \in GoodTables,
         NEW s \in Nat \ {0}, Hash!Crams(t, Hash!Copies(t, s))
  PROVE  /\ Hash!Copies(t, s)[n] \in GoodTables
         /\ WordsOf(Hash!Copies(t, s)[n]) = WordsOf(t)
<1> DEFINE c == Hash!Copies(t, s)
           First(k) == {t[j] : j \in 0 .. k - 1} \ {nouser}
           P == {k \in 0 .. n : c[k] \in GoodTables /\ WordsOf(c[k]) = First(k)}
<1>1. /\ c \in [0 .. n -> TablesOf(s)] /\ c[0] = Hash!Sized(s)
      /\ \A k \in 1 .. n : c[k] = IF t[k - 1] = nouser THEN c[k - 1] ELSE Hash!Added(c[k - 1], t[k - 1])
  BY CopiesFacts
<1>2. DOMAIN t = 0 .. n - 1 /\ \A j \in 0 .. n - 1 : t[j] \in HashWord \cup {nouser}
  BY TableFacts
<1>3. \A j \in 0 .. n - 1 : t[j] # nouser => Hash!Fits(c[j], t[j])
  BY <1>2 DEF Hash!Crams
<1> HIDE DEF c
<1>4. 0 \in P
  <2>1. First(0) = {}
    OBVIOUS
  <2> QED BY <1>1, <2>1, SizedGood
<1>5. ASSUME NEW k \in 1 .. n, k - 1 \in P PROVE k \in P
  <2> DEFINE w == t[k - 1]
  <2>1. k - 1 \in 0 .. n - 1 /\ k - 1 \in 0 .. n
    OBVIOUS
  <2>2. c[k - 1] \in GoodTables /\ WordsOf(c[k - 1]) = First(k - 1) /\ c[k - 1] \in TablesOf(s)
    BY <1>1, <1>5, <2>1
  <2>3. First(k) = (First(k - 1) \cup {w}) \ {nouser}
    <3>1. 0 .. k - 1 = (0 .. (k - 1) - 1) \cup {k - 1}
      OBVIOUS
    <3>2. {t[j] : j \in 0 .. k - 1} = {t[j] : j \in 0 .. (k - 1) - 1} \cup {t[k - 1]}
      BY <3>1
    <3> QED BY <3>2
  <2>4. nouser \notin First(k - 1)
    OBVIOUS
  <2>5. CASE w = nouser
    <3>1. c[k] = c[k - 1] /\ First(k) = First(k - 1)
      BY <1>1, <2>3, <2>4, <2>5
    <3> QED BY <2>2, <3>1
  <2>6. CASE w # nouser
    <3>1. w \in HashWord /\ Hash!Fits(c[k - 1], w) /\ c[k] = Hash!Added(c[k - 1], w)
      BY <1>1, <1>2, <1>3, <2>1, <2>6
    <3>2. ASSUME NEW v \in WordsOf(c[k - 1]) PROVE v.numeric # w.numeric
      <4>1. PICK j \in 0 .. (k - 1) - 1 : v = t[j] /\ v # nouser
        BY <2>2, <3>2
      <4>2. j \in DOMAIN t /\ k - 1 \in DOMAIN t /\ j # k - 1
        BY <1>2, <2>1
      <4> QED BY <2>6, <4>1, <4>2 DEF GoodTables, OnceEach
    <3>3. c[k] \in GoodTables /\ WordsOf(c[k]) = WordsOf(c[k - 1]) \cup {w}
      BY <2>2, <3>1, <3>2, AddedGood
    <3>4. First(k) = First(k - 1) \cup {w}
      BY <2>3, <2>4, <2>6
    <3> QED BY <2>2, <3>3, <3>4
  <2> QED BY <2>5, <2>6
<1>6. n \in P
  <2> HIDE DEF P
  <2> QED BY <1>4, <1>5, NumberByNumber
<1>7. First(n) = WordsOf(t)
  BY <1>2 DEF WordsOf
<1> QED BY <1>6, <1>7 DEF c

LEMMA NewSizePositive ==
  ASSUME NEW s \in Nat \ {0}, NEW used
  PROVE  Hash!NewSize(s, used) \in Nat \ {0}
<1> DEFINE n == (s * 3) \div 2
           odd == IF n % 2 = 0 THEN n + 1 ELSE n
<1>1. n \in Nat
  OBVIOUS
<1> HIDE DEF n
<1>2. odd \in Nat
  BY <1>1
<1> HIDE DEF odd
<1>3. (IF odd <= s THEN odd + 1 ELSE odd) \in Nat \ {0}
  BY <1>2
<1> QED BY <1>3 DEF Hash!NewSize, n, odd

LEMMA TableSize ==
  ASSUME NEW t \in HashTables
  PROVE  \E n \in Nat \ {0} : t \in TablesOf(n)
  BY DEF HashTables

LEMMA RehashGood ==
  ASSUME Hash!HashAssumption, NEW t \in GoodTables, NEW u \in Hash!rehashchannel(t)
  PROVE  u \in GoodTables /\ WordsOf(u) = WordsOf(t)
<1> DEFINE first == Hash!NewSize(Hash!hashsize(t), Hash!Used(t))
<1>1. PICK n \in Nat \ {0} : t \in TablesOf(n)
  BY TableSize DEF GoodTables
<1>2. Hash!hashsize(t) = n
  BY <1>1, TableFacts
<1>3. first \in Nat \ {0}
  BY <1>2, NewSizePositive
<1>4. PICK k \in 0 .. MaxGrowth :
        Hash!Crams(t, Hash!Copies(t, first + 2 * k)) /\ u = Hash!Copies(t, first + 2 * k)[Hash!hashsize(t)]
  BY DEF Hash!rehashchannel
<1> HIDE DEF first
<1>5. k \in Nat
  BY <1>4 DEF Hash!HashAssumption
<1>6. first + 2 * k \in Nat \ {0}
  BY <1>3, <1>5
<1> QED BY <1>1, <1>2, <1>4, <1>6, CopyGood

LEMMA GrownGood ==
  ASSUME Hash!HashAssumption, NEW t \in GoodTables, NEW w, NEW u \in Hash!Grown(t, w)
  PROVE  u \in GoodTables /\ WordsOf(u) = WordsOf(t) /\ Hash!Fits(u, w)
<1> DEFINE S == {v \in GoodTables : WordsOf(v) = WordsOf(t)}
           N == MaxGrowth
           SS == SUBSET S
           b == {t}
           Next1(X) == UNION {IF Hash!Fits(v, w) THEN {v} ELSE Hash!rehashchannel(v) : v \in X}
           F == [x \in (1 .. N) \X SS |-> Next1(x[2])]
           Is(f) == f = [k \in 0 .. N |-> IF k = 0 THEN b ELSE Next1(f[k - 1])]
           after == CHOOSE f : Is(f)
<1>0. N \in Nat
  BY DEF Hash!HashAssumption
<1>1. b \in SS
  OBVIOUS
<1>2. ASSUME NEW X \in SS PROVE Next1(X) \in SS
  <2> SUFFICES ASSUME NEW v \in X, NEW y \in (IF Hash!Fits(v, w) THEN {v} ELSE Hash!rehashchannel(v))
               PROVE  y \in S
    OBVIOUS
  <2>1. v \in GoodTables /\ WordsOf(v) = WordsOf(t)
    BY <1>2
  <2>2. CASE Hash!Fits(v, w)
    BY <2>1, <2>2
  <2>3. CASE ~Hash!Fits(v, w)
    BY <2>1, <2>3, RehashGood
  <2> QED BY <2>2, <2>3
<1>3. u \in after[N] /\ Hash!Fits(u, w)
  BY DEF Hash!Grown
<1> HIDE DEF S, SS, b, N, Next1
<1>4. F \in [(1 .. N) \X SS -> SS] /\ \A k \in 1 .. N, X \in SS : F[<<k, X>>] = Next1(X)
  BY <1>2
<1> HIDE DEF F
<1>5. PICK f \in [0 .. N -> SS] : Chained(f, N, b, F)
  BY <1>0, <1>1, <1>4, Iterates
<1>6. Is(f)
  <2>1. \A k \in 1 .. N : f[k - 1] \in SS
    BY <1>0, <1>5
  <2>2. \A k \in 1 .. N : F[<<k, f[k - 1]>>] = Next1(f[k - 1])
    BY <1>4, <2>1
  <2>3. \A k \in 1 .. N : f[k] = Next1(f[k - 1])
    BY <1>5, <2>2 DEF Chained
  <2>4. f = [k \in 0 .. N |-> f[k]] /\ \A k \in 0 .. N : k # 0 => k \in 1 .. N
    BY <1>0, <1>5
  <2>5. \A k \in 0 .. N : f[k] = IF k = 0 THEN b ELSE Next1(f[k - 1])
    BY <1>5, <2>3, <2>4 DEF Chained
  <2> QED BY <2>4, <2>5
<1>7. Is(after)
  <2> HIDE DEF Is
  <2> QED BY <1>6
<1> HIDE DEF after
<1> DEFINE P == {k \in 0 .. N : after[k] \in SS}
<1>8. 0 \in P
  BY <1>0, <1>1, <1>7
<1>9. ASSUME NEW k \in 1 .. N, k - 1 \in P PROVE k \in P
  <2>1. after[k] = Next1(after[k - 1])
    BY <1>0, <1>7
  <2>2. after[k - 1] \in SS
    BY <1>9
  <2> QED BY <1>2, <2>1, <2>2
<1>10. N \in P
  <2> HIDE DEF P
  <2> QED BY <1>0, <1>8, <1>9, NumberByNumber
<1> QED BY <1>3, <1>10 DEF S, SS

\* A search finds the word of a numeric, wherever it is.
LEMMA FoundIs ==
  ASSUME Hash!HashAssumption, NEW t \in GoodTables, NEW n \in HashNumerics
  PROVE  Hash!Found(t, n) = {j \in DOMAIN t : t[j] # nouser /\ t[j].numeric = n}
<1>1. PICK s \in Nat \ {0} : t \in TablesOf(s)
  BY TableSize DEF GoodTables
<1>2. Hash!hashsize(t) = s /\ DOMAIN t = 0 .. s - 1
  BY <1>1, TableFacts
<1>3. ASSUME NEW i \in Hash!Depths PROVE Hash!Place(n, s, i) \in 0 .. s - 1
  <2>1. n \in Nat /\ i \in Nat
    BY <1>3 DEF Hash!Depths, Hash!HashAssumption
  <2> QED BY <2>1, PlaceInTable
<1>4. ASSUME NEW j \in 0 .. s - 1, t[j] # nouser, t[j].numeric = n
      PROVE  \E i \in Hash!Depths : j = Hash!Place(n, s, i)
  BY <1>2, <1>4 DEF GoodTables, InPlace
<1>5. Hash!Found(t, n) = {Hash!Place(n, s, i) : i \in {j \in Hash!Depths :
        t[Hash!Place(n, s, j)] # nouser /\ t[Hash!Place(n, s, j)].numeric = n}}
  BY <1>2 DEF Hash!Found
<1> QED BY <1>2, <1>3, <1>4, <1>5

\* The words are different users, finitely many.
LEMMA WordsFacts ==
  ASSUME NEW t \in GoodTables
  PROVE  /\ IsFiniteSet(WordsOf(t)) /\ WordsOf(t) \subseteq HashWord
         /\ \A j \in DOMAIN t : t[j] # nouser => t[j] \in WordsOf(t)
         /\ \A v, w \in WordsOf(t) : v.numeric = w.numeric => v = w
<1>1. PICK s \in Nat \ {0} : t \in TablesOf(s)
  BY TableSize DEF GoodTables
<1>2. DOMAIN t = 0 .. s - 1 /\ \A j \in 0 .. s - 1 : t[j] \in HashWord \cup {nouser}
  BY <1>1, TableFacts
<1>3. IsFiniteSet(0 .. s - 1)
  BY FS_Interval
<1>4. IsFiniteSet({t[j] : j \in 0 .. s - 1})
  <2> DEFINE f == [j \in 0 .. s - 1 |-> t[j]]
  <2>1. f \in Surjection(0 .. s - 1, {t[j] : j \in 0 .. s - 1})
    BY DEF Surjection
  <2> QED BY <1>3, <2>1, FS_Surjection
<1>5. IsFiniteSet(WordsOf(t))
  BY <1>2, <1>4, FS_Difference DEF WordsOf
<1> QED BY <1>2, <1>5 DEF WordsOf, GoodTables, OnceEach

LEMMA HashStart ==
  ASSUME Hash!HashAssumption, Hash!Init
  PROVE  HashInv
<1>1. content \in GoodTables /\ WordsOf(content) = {}
  BY SizedGood DEF Hash!Init
<1>2. Cardinality({}) = 0
  BY FS_EmptySet
<1> QED BY <1>1, <1>2 DEF Hash!Init, HashInv, Held

LEMMA AddNickInv ==
  ASSUME Hash!HashAssumption, HashInv, NEW n \in HashNumerics, Hash!addnicktochannel(n)
  PROVE  HashInv'
<1> DEFINE w == Hash!Word(n, FALSE)
<1>1. PICK t \in Hash!Grown(content, w) :
        /\ content' = Hash!Added(t, w)
        /\ lp' = IF lp # nouser /\ Hash!hashsize(t) # Hash!hashsize(content)
              THEN [lp EXCEPT !.freed = TRUE] ELSE lp
  BY DEF Hash!addnicktochannel
<1>2. lp = nouser /\ Hash!Found(content, n) = {}
      /\ totalusers' = totalusers + 1 /\ members' = members \cup {w}
  BY DEF Hash!addnicktochannel
<1>3. w = [numeric |-> n, op |-> FALSE] /\ w \in HashWord /\ w.numeric = n
  BY DEF Hash!Word, HashWord
<1> HIDE DEF w
<1>4. content \in GoodTables /\ members = WordsOf(content) /\ totalusers = Cardinality(members)
  BY DEF HashInv
<1>5. t \in GoodTables /\ WordsOf(t) = members /\ Hash!Fits(t, w)
  BY <1>1, <1>4, GrownGood
<1>6. \A v \in members : v.numeric # n
  BY <1>2, <1>4, FoundIs DEF WordsOf
<1>7. PICK s \in Nat \ {0} : t \in TablesOf(s)
  BY <1>5, TableSize DEF GoodTables
<1>8. content' \in GoodTables /\ WordsOf(content') = members \cup {w}
  BY <1>1, <1>3, <1>5, <1>6, <1>7, AddedGood
<1>9. w \notin members
  BY <1>3, <1>6
<1>10. IsFiniteSet(members)
  BY <1>4, WordsFacts
<1>11. Cardinality(members \cup {w}) = totalusers + 1
  BY <1>4, <1>9, <1>10, FS_AddElement
<1>12. lp' = nouser
  BY <1>1, <1>2
<1>13. WordsOf(content)' = WordsOf(content')
  BY DEF WordsOf
<1> QED BY <1>2, <1>8, <1>11, <1>12, <1>13 DEF HashInv, Held

LEMMA DelNickInv ==
  ASSUME Hash!HashAssumption, HashInv, NEW w \in members, Hash!delnickfromchannel(w)
  PROVE  HashInv'
<1>1. content \in GoodTables /\ members = WordsOf(content)
  BY DEF HashInv
<1>2. w.numeric \in HashNumerics
  BY <1>1, WordsFacts DEF HashWord
<1>3. PICK j \in Hash!Found(content, w.numeric) : lp' = [numeric |-> w.numeric, place |-> j, freed |-> FALSE]
  BY DEF Hash!delnickfromchannel
<1>4. UNCHANGED <<content, totalusers, members>>
  BY DEF Hash!delnickfromchannel
<1>5. j \in DOMAIN content /\ content[j] # nouser /\ content[j].numeric = w.numeric
  BY <1>1, <1>2, <1>3, FoundIs
<1>6. lp'.freed = FALSE /\ lp'.place = j /\ lp'.numeric = w.numeric
  BY <1>3
<1>7. GoodTables' = GoodTables /\ WordsOf(content)' = WordsOf(content)
  BY <1>4 DEF GoodTables, HashTables, TablesOf, HashWord, InPlace, OnceEach, WordsOf
<1> QED BY <1>4, <1>5, <1>6, <1>7 DEF HashInv, Held

\* A table stays good when a word goes, and when the flag of a word changes.
LEMMA FreedGood ==
  ASSUME NEW t \in GoodTables, NEW p \in DOMAIN t, t[p] # nouser
  PROVE  /\ [t EXCEPT ![p] = nouser] \in GoodTables
         /\ WordsOf([t EXCEPT ![p] = nouser]) = WordsOf(t) \ {t[p]}
<1> DEFINE u == [t EXCEPT ![p] = nouser]
<1>1. PICK s \in Nat \ {0} : t \in TablesOf(s)
  BY TableSize DEF GoodTables
<1>2. u \in TablesOf(s)
  BY <1>1 DEF TablesOf
<1>3. /\ Hash!hashsize(t) = s /\ DOMAIN t = 0 .. s - 1
      /\ Hash!hashsize(u) = s /\ DOMAIN u = 0 .. s - 1 /\ u \in HashTables
  BY <1>1, <1>2, TableFacts
<1>4. u[p] = nouser /\ \A j \in 0 .. s - 1 : j # p => u[j] = t[j]
  BY <1>3
<1> HIDE DEF u
<1>5. InPlace(t) /\ OnceEach(t)
  BY DEF GoodTables
<1>6. InPlace(u)
  BY <1>3, <1>4, <1>5 DEF InPlace
<1>7. OnceEach(u)
  BY <1>3, <1>4, <1>5 DEF OnceEach
<1>8. \A j \in 0 .. s - 1 : j # p /\ t[j] # nouser => t[j] # t[p]
  BY <1>3, <1>5 DEF OnceEach
<1>9. WordsOf(u) = WordsOf(t) \ {t[p]}
  BY <1>3, <1>4, <1>8 DEF WordsOf
<1> QED BY <1>3, <1>6, <1>7, <1>9 DEF GoodTables, u

LEMMA FlaggedGood ==
  ASSUME Hash!HashAssumption, NEW t \in GoodTables, NEW p \in DOMAIN t, t[p] # nouser,
         NEW w \in HashWord, w.numeric = t[p].numeric
  PROVE  /\ [t EXCEPT ![p] = w] \in GoodTables
         /\ WordsOf([t EXCEPT ![p] = w]) = (WordsOf(t) \ {t[p]}) \cup {w}
<1> DEFINE u == [t EXCEPT ![p] = w]
<1>1. PICK s \in Nat \ {0} : t \in TablesOf(s)
  BY TableSize DEF GoodTables
<1>2. u \in TablesOf(s)
  BY <1>1 DEF TablesOf
<1>3. /\ Hash!hashsize(t) = s /\ DOMAIN t = 0 .. s - 1
      /\ Hash!hashsize(u) = s /\ DOMAIN u = 0 .. s - 1 /\ u \in HashTables
  BY <1>1, <1>2, TableFacts
<1>4. u[p] = w /\ \A j \in 0 .. s - 1 : j # p => u[j] = t[j]
  BY <1>3
<1>5. w # nouser
  BY DEF HashWord, Hash!HashAssumption
<1> HIDE DEF u
<1>6. InPlace(t) /\ OnceEach(t)
  BY DEF GoodTables
<1>7. \A j \in 0 .. s - 1 : u[j] # nouser <=> t[j] # nouser
  BY <1>3, <1>4, <1>5
<1>8. \A j \in 0 .. s - 1 : u[j].numeric = t[j].numeric
  BY <1>3, <1>4
<1>9. InPlace(u)
  BY <1>3, <1>6, <1>7, <1>8 DEF InPlace
<1>10. OnceEach(u)
  BY <1>3, <1>6, <1>7, <1>8 DEF OnceEach
<1>11. \A j \in 0 .. s - 1 : j # p /\ t[j] # nouser => t[j] # t[p]
  BY <1>3, <1>6 DEF OnceEach
<1>12. WordsOf(u) = (WordsOf(t) \ {t[p]}) \cup {w}
  BY <1>3, <1>4, <1>5, <1>11 DEF WordsOf
<1> QED BY <1>3, <1>9, <1>10, <1>12 DEF GoodTables, u

LEMMA AfterLostNickInv ==
  ASSUME HashInv, Hash!AfterLostNick
  PROVE  HashInv'
<1> DEFINE w == content[lp.place]
<1>1. /\ content \in GoodTables /\ members = WordsOf(content) /\ totalusers = Cardinality(members)
      /\ lp.freed = FALSE /\ lp.place \in DOMAIN content /\ w # nouser /\ w.numeric = lp.numeric
  BY DEF HashInv, Held, Hash!AfterLostNick
<1>2. /\ content' = [content EXCEPT ![lp.place] = nouser]
      /\ totalusers' = totalusers - 1 /\ members' = {v \in members : v.numeric # lp.numeric} /\ lp' = nouser
  BY <1>1 DEF Hash!AfterLostNick
<1>3. content' \in GoodTables /\ WordsOf(content') = members \ {w}
  BY <1>1, <1>2, FreedGood
<1>4. w \in members /\ IsFiniteSet(members) /\ \A v \in members : v.numeric = w.numeric => v = w
  BY <1>1, WordsFacts
<1> HIDE DEF w
<1>5. members' = members \ {w}
  BY <1>1, <1>2, <1>4
<1>6. Cardinality(members') = totalusers'
  BY <1>1, <1>2, <1>4, <1>5, FS_RemoveElement
<1>7. WordsOf(content)' = WordsOf(content')
  BY DEF WordsOf
<1> QED BY <1>2, <1>3, <1>5, <1>6, <1>7 DEF HashInv, Held

LEMMA SetOpInv ==
  ASSUME Hash!HashAssumption, HashInv, NEW w \in members, Hash!SetOp(w)
  PROVE  HashInv'
<1> DEFINE v == Hash!Word(w.numeric, ~w.op)
<1>1. content \in GoodTables /\ members = WordsOf(content) /\ totalusers = Cardinality(members)
        /\ Held(content)
  BY DEF HashInv
<1>2. w \in HashWord
  BY <1>1, WordsFacts
<1>3. v \in HashWord /\ v.numeric = w.numeric /\ v # w
  BY <1>2 DEF Hash!Word, HashWord
<1>4. PICK j \in Hash!Found(content, w.numeric) : content' = [content EXCEPT ![j].op = ~@]
  BY DEF Hash!SetOp
<1>5. members' = (members \ {w}) \cup {v} /\ UNCHANGED <<totalusers, lp>>
  BY DEF Hash!SetOp
<1>6. j \in DOMAIN content /\ content[j] # nouser /\ content[j].numeric = w.numeric
  BY <1>1, <1>2, <1>4, FoundIs DEF HashWord
<1>7. content[j] = w
  BY <1>1, <1>6, WordsFacts
<1>8. [w EXCEPT !.op = ~w.op] = v
  BY <1>2 DEF HashWord, Hash!Word
<1>9. content' = [content EXCEPT ![j] = v]
  BY <1>4, <1>7, <1>8
<1> HIDE DEF v
<1>10. content' \in GoodTables /\ WordsOf(content') = (members \ {w}) \cup {v}
  BY <1>1, <1>3, <1>6, <1>7, <1>9, FlaggedGood
<1>11. v \notin members /\ IsFiniteSet(members)
  BY <1>1, <1>3, WordsFacts
<1>12. Cardinality((members \ {w}) \cup {v}) = Cardinality(members)
  <2>1. Cardinality(members \ {w}) = Cardinality(members) - 1 /\ IsFiniteSet(members \ {w})
    BY <1>11, FS_RemoveElement
  <2>2. Cardinality((members \ {w}) \cup {v}) = Cardinality(members \ {w}) + 1
    BY <1>11, <2>1, FS_AddElement
  <2> QED BY <1>11, <2>1, <2>2, FS_CardinalityType
<1>13. Held(content')
  <2>1. DOMAIN content' = DOMAIN content /\ content'[j] = v /\ v # nouser
    BY <1>3, <1>6, <1>9 DEF HashWord, Hash!HashAssumption
  <2>2. \A k \in DOMAIN content : k # j => content'[k] = content[k]
    BY <1>9
  <2> QED BY <1>1, <1>3, <1>6, <2>1, <2>2 DEF Held
<1>14. WordsOf(content)' = WordsOf(content') /\ Held(content)' = Held(content')
  BY <1>5 DEF WordsOf, Held
<1> QED BY <1>1, <1>5, <1>10, <1>12, <1>13, <1>14 DEF HashInv

LEMMA HashStep ==
  ASSUME Hash!HashAssumption, HashInv, [Hash!Next]_Hash!vars
  PROVE  HashInv'
<1>1. CASE UNCHANGED Hash!vars
  <2>1. UNCHANGED <<content, totalusers, lp, members>>
    BY <1>1 DEF Hash!vars
  <2>2. WordsOf(content)' = WordsOf(content) /\ Held(content)' = Held(content)
    BY <2>1 DEF WordsOf, Held
  <2> QED BY <2>1, <2>2 DEF HashInv
<1>2. CASE Hash!Next
  <2>1. CASE \E n \in HashNumerics : Hash!addnicktochannel(n)
    BY <2>1, AddNickInv
  <2>2. CASE \E w \in members : Hash!delnickfromchannel(w)
    BY <2>2, DelNickInv
  <2>3. CASE \E w \in members : Hash!SetOp(w)
    BY <2>3, SetOpInv
  <2>4. CASE Hash!AfterLostNick
    BY <2>4, AfterLostNickInv
  <2> QED BY <1>2, <2>1, <2>2, <2>3, <2>4 DEF Hash!Next
<1> QED BY <1>1, <1>2

LEMMA InvHashExact ==
  ASSUME Hash!HashAssumption, HashInv
  PROVE  Hash!HashExact
<1>1. content \in GoodTables /\ members = WordsOf(content) /\ totalusers = Cardinality(members)
  BY DEF HashInv
<1>2. ASSUME NEW n \in HashNumerics
      PROVE  {content[j] : j \in Hash!Found(content, n)} = {w \in members : w.numeric = n}
  <2>1. Hash!Found(content, n) = {j \in DOMAIN content : content[j] # nouser /\ content[j].numeric = n}
    BY <1>1, FoundIs
  <2> QED BY <1>1, <2>1 DEF WordsOf
<1> QED BY <1>1, <1>2, HashCardinality DEF Hash!HashExact, WordsOf

\* addnumerictochanuserhash(), rehashchannel(), getnumerichandlefromchanhash(): for any numerics, any
\* depth of the search and any number of rehashes, the users on a channel are found in its hash, each
\* once and with his flag, nobody else is, and totalusers is their number.
THEOREM HashFindsUsers ==
  ASSUME Hash!HashAssumption
  PROVE  Hash!Spec => [](Hash!HashExact /\ HashExact)
<1>1. Hash!Init => HashInv
  BY HashStart
<1>2. HashInv /\ [Hash!Next]_(Hash!vars) => HashInv'
  BY HashStep
<1>3. HashInv => Hash!HashExact /\ HashExact
  BY InvHashExact DEF HashExact
<1> QED BY <1>1, <1>2, <1>3, PTL DEF Hash!Spec

-----------------------------------------------------------------------------
(* Lists of bans. *)

\* Bans as newserv keeps them: they stay in the list until they expire.
Bans ==
  {g \in [mask : GlineMasks, active : BOOLEAN, destroyed : {FALSE}, expire : Int, lastmod : Nat, lifetime :
        Int] :
    g.lifetime = g.expire}

\* Lists with one ban for a mask at most; the bans of a list, and those for a mask.
BanLists == {l \in Seq(Bans) : \A i, j \in DOMAIN l : l[i].mask = l[j].mask => i = j}
InList(l) == {l[i] : i \in DOMAIN l}
Of(l, m) == {g \in InList(l) : g.mask = m}

LEMMA ListFacts ==
  ASSUME NEW l \in BanLists
  PROVE  /\ l \in Seq(Bans) /\ Len(l) \in Nat /\ DOMAIN l = 1 .. Len(l)
         /\ \A i \in 1 .. Len(l) : l[i] \in Bans /\ l[i] \in InList(l)
         /\ InList(l) \subseteq Bans
         /\ \A i, j \in 1 .. Len(l) : l[i].mask = l[j].mask => i = j
         /\ \A g, h \in InList(l) : g.mask = h.mask => g = h
<1>1. l \in Seq(Bans) /\ \A i, j \in DOMAIN l : l[i].mask = l[j].mask => i = j
  BY DEF BanLists
<1>2. Len(l) \in Nat /\ DOMAIN l = 1 .. Len(l) /\ \A i \in 1 .. Len(l) : l[i] \in Bans
  BY <1>1
<1> QED BY <1>1, <1>2 DEF InList

LEMMA JoinedLists ==
  ASSUME NEW a \in BanLists, NEW b \in BanLists,
         \A g \in InList(a), h \in InList(b) : g.mask # h.mask
  PROVE  a \o b \in BanLists /\ InList(a \o b) = InList(a) \cup InList(b)
<1> DEFINE c == a \o b
           n == Len(a)
<1>1. /\ a \in Seq(Bans) /\ b \in Seq(Bans) /\ n \in Nat /\ Len(b) \in Nat
      /\ DOMAIN a = 1 .. n /\ DOMAIN b = 1 .. Len(b)
      /\ \A i \in 1 .. n : a[i] \in InList(a)
      /\ \A i \in 1 .. Len(b) : b[i] \in InList(b)
      /\ \A i, j \in 1 .. n : a[i].mask = a[j].mask => i = j
      /\ \A i, j \in 1 .. Len(b) : b[i].mask = b[j].mask => i = j
  BY ListFacts
<1>2. /\ c \in Seq(Bans) /\ Len(c) = n + Len(b)
      /\ \A i \in 1 .. n + Len(b) : c[i] = IF i <= n THEN a[i] ELSE b[i - n]
  BY <1>1
<1>3. DOMAIN c = 1 .. n + Len(b)
  BY <1>2
<1> HIDE DEF c, n
<1>4. \A i \in 1 .. n + Len(b) : (i <= n /\ i \in 1 .. n) \/ (i > n /\ i - n \in 1 .. Len(b))
  BY <1>1
<1>5. ASSUME NEW i \in 1 .. n + Len(b), NEW j \in 1 .. n + Len(b), c[i].mask = c[j].mask
      PROVE  i = j
  <2>1. CASE i <= n /\ j <= n
    BY <1>1, <1>2, <1>4, <1>5, <2>1
  <2>2. CASE i > n /\ j > n
    <3>1. i - n \in 1 .. Len(b) /\ j - n \in 1 .. Len(b) /\ c[i] = b[i - n] /\ c[j] = b[j - n]
      BY <1>1, <1>2, <1>4, <2>2
    <3>2. i - n = j - n
      BY <1>1, <1>5, <3>1
    <3> QED BY <1>1, <3>2
  <2>3. CASE i <= n /\ j > n
    <3>1. c[i] \in InList(a) /\ c[j] \in InList(b)
      BY <1>1, <1>2, <1>4, <2>3
    <3> QED BY <1>5, <3>1
  <2>4. CASE i > n /\ j <= n
    <3>1. c[i] \in InList(b) /\ c[j] \in InList(a)
      BY <1>1, <1>2, <1>4, <2>4
    <3> QED BY <1>5, <3>1
  <2> QED BY <1>1, <2>1, <2>2, <2>3, <2>4
<1>6. InList(c) = InList(a) \cup InList(b)
  <2>1. \A i \in 1 .. n + Len(b) : c[i] \in InList(a) \cup InList(b)
    BY <1>1, <1>2, <1>4
  <2>2. \A i \in 1 .. n : i \in 1 .. n + Len(b) /\ c[i] = a[i]
    BY <1>1, <1>2
  <2>3. \A i \in 1 .. Len(b) : n + i \in 1 .. n + Len(b) /\ c[n + i] = b[i]
    <3> TAKE i \in 1 .. Len(b)
    <3>1. n + i \in 1 .. n + Len(b) /\ ~(n + i <= n) /\ (n + i) - n = i
      BY <1>1
    <3> QED BY <1>2, <3>1
  <2>4. InList(c) \subseteq InList(a) \cup InList(b)
    BY <1>3, <2>1 DEF InList
  <2>5. InList(a) \subseteq InList(c)
    BY <1>1, <1>3, <2>2 DEF InList
  <2>6. InList(b) \subseteq InList(c)
    <3>1. \A i \in 1 .. Len(b) : b[i] \in InList(c)
      BY <1>3, <2>3 DEF InList
    <3> QED BY <1>1, <3>1 DEF InList
  <2> QED BY <2>4, <2>5, <2>6
<1>7. c \in BanLists
  BY <1>2, <1>3, <1>5 DEF BanLists
<1> QED BY <1>6, <1>7 DEF c

LEMMA RestOfList ==
  ASSUME NEW S, NEW l \in Seq(S), NEW i \in 0 .. Len(l)
  PROVE  /\ SubSeq(l, i + 1, Len(l)) \in Seq(S) /\ Len(SubSeq(l, i + 1, Len(l))) = Len(l) - i
         /\ \A j \in 1 .. Len(l) - i : SubSeq(l, i + 1, Len(l))[j] = l[i + j]
<1>1. Len(l) \in Nat /\ i \in Nat /\ i <= Len(l)
  OBVIOUS
<1>2. SubSeq(l, i + 1, Len(l)) \in Seq(S)
  BY <1>1
<1>3. Len(SubSeq(l, i + 1, Len(l))) = Len(l) - i
  <2>1. CASE i = Len(l)
    BY <1>1, <2>1
  <2>2. CASE i < Len(l)
    <3>1. i + 1 <= Len(l) /\ i + 1 \in Nat
      BY <1>1, <2>2
    <3>2. Len(SubSeq(l, i + 1, Len(l))) = Len(l) - (i + 1) + 1
      BY <1>1, <3>1
    <3> QED BY <1>1, <3>2
  <2> QED BY <1>1, <2>1, <2>2
<1>4. ASSUME NEW j \in 1 .. Len(l) - i PROVE SubSeq(l, i + 1, Len(l))[j] = l[i + j]
  <2>1. j \in 1 .. Len(l) - (i + 1) + 1 /\ (i + 1) + j - 1 = i + j
    BY <1>1
  <2>2. SubSeq(l, i + 1, Len(l))[j] = l[(i + 1) + j - 1]
    BY <1>1, <2>1
  <2> QED BY <2>1, <2>2
<1> QED BY <1>2, <1>3, <1>4

LEMMA CutList ==
  ASSUME NEW l \in BanLists, NEW i \in 0 .. Len(l)
  PROVE  /\ SubSeq(l, 1, i) \in BanLists /\ SubSeq(l, i + 1, Len(l)) \in BanLists
         /\ InList(SubSeq(l, 1, i)) = {l[j] : j \in 1 .. i}
         /\ InList(SubSeq(l, i + 1, Len(l))) = {l[j] : j \in i + 1 .. Len(l)}
<1> DEFINE a == SubSeq(l, 1, i)
           b == SubSeq(l, i + 1, Len(l))
           n == Len(l)
<1>1. /\ l \in Seq(Bans) /\ n \in Nat /\ DOMAIN l = 1 .. n
      /\ \A j, k \in 1 .. n : l[j].mask = l[k].mask => j = k
  BY ListFacts
<1>2. a \in Seq(Bans) /\ Len(a) = i /\ \A j \in 1 .. i : a[j] = l[j]
  BY <1>1
<1>3. b \in Seq(Bans) /\ Len(b) = n - i /\ \A j \in 1 .. n - i : b[j] = l[i + j]
  BY <1>1, RestOfList
<1> HIDE DEF a, b
<1>4. i \in Nat /\ i <= n /\ DOMAIN a = 1 .. i /\ DOMAIN b = 1 .. n - i
  <2>1. i \in Nat /\ i <= n /\ n - i \in Nat
    BY <1>1
  <2>2. DOMAIN a = 1 .. Len(a) /\ DOMAIN b = 1 .. Len(b)
    BY <1>2, <1>3
  <2> QED BY <1>2, <1>3, <2>1, <2>2
<1> HIDE DEF n
<1>5. a \in BanLists
  BY <1>1, <1>2, <1>4 DEF BanLists
<1>6. b \in BanLists
  <2>1. ASSUME NEW j \in 1 .. n - i, NEW k \in 1 .. n - i, b[j].mask = b[k].mask PROVE j = k
    <3>1. i + j \in 1 .. n /\ i + k \in 1 .. n
      BY <1>1, <1>4
    <3>2. i + j = i + k
      BY <1>1, <1>3, <2>1, <3>1
    <3> QED BY <1>4, <3>2
  <2> QED BY <1>3, <1>4, <2>1 DEF BanLists
<1>7. InList(a) = {l[j] : j \in 1 .. i}
  BY <1>2, <1>4 DEF InList
<1>8. InList(b) = {l[j] : j \in i + 1 .. n}
  <2>1. \A j \in 1 .. n - i : i + j \in i + 1 .. n
    BY <1>1, <1>4
  <2>2. \A j \in i + 1 .. n : j - i \in 1 .. n - i /\ i + (j - i) = j
    BY <1>1, <1>4
  <2>3. InList(b) = {b[j] : j \in 1 .. n - i}
    BY <1>4 DEF InList
  <2>4. {b[j] : j \in 1 .. n - i} \subseteq {l[j] : j \in i + 1 .. n}
    BY <1>3, <2>1
  <2>5. ASSUME NEW j \in i + 1 .. n PROVE l[j] \in {b[o] : o \in 1 .. n - i}
    <3>1. b[j - i] = l[j]
      BY <1>3, <2>2
    <3> QED BY <2>2, <3>1
  <2> QED BY <2>3, <2>4, <2>5
<1> QED BY <1>5, <1>6, <1>7, <1>8 DEF a, b, n

LEMMA NoList == <<>> \in BanLists /\ InList(<<>>) = {}
  BY DEF BanLists, InList

LEMMA SingleList ==
  ASSUME NEW g \in Bans
  PROVE  <<g>> \in BanLists /\ InList(<<g>>) = {g}
<1>1. <<g>> \in Seq(Bans) /\ DOMAIN <<g>> = {1} /\ <<g>>[1] = g
  OBVIOUS
<1> QED BY <1>1 DEF BanLists, InList

\* A ban of a new mask is put in front, or at the end.
LEMMA PutFirst ==
  ASSUME NEW l \in BanLists, NEW g \in Bans, Of(l, g.mask) = {}
  PROVE  /\ <<g>> \o l \in BanLists /\ Of(<<g>> \o l, g.mask) = {g}
         /\ \A m : m # g.mask => Of(<<g>> \o l, m) = Of(l, m)
<1>1. \A h \in InList(l) : h.mask # g.mask
  BY DEF Of
<1>2. <<g>> \o l \in BanLists /\ InList(<<g>> \o l) = {g} \cup InList(l)
  BY <1>1, SingleList, JoinedLists
<1> QED BY <1>1, <1>2 DEF Of

LEMMA PutLast ==
  ASSUME NEW l \in BanLists, NEW g \in Bans, \A h \in InList(l) : h.mask # g.mask
  PROVE  Append(l, g) \in BanLists /\ InList(Append(l, g)) = InList(l) \cup {g}
<1>1. l \o <<g>> \in BanLists /\ InList(l \o <<g>>) = InList(l) \cup {g}
  BY SingleList, JoinedLists
<1>2. Append(l, g) = l \o <<g>>
  BY ListFacts
<1> QED BY <1>1, <1>2

LEMMA ReplacedIn ==
  ASSUME NEW l \in BanLists, NEW i \in 1 .. Len(l), NEW g \in Bans, g.mask = l[i].mask
  PROVE  /\ [l EXCEPT ![i] = g] \in BanLists /\ Of([l EXCEPT ![i] = g], g.mask) = {g}
         /\ \A m : m # g.mask => Of([l EXCEPT ![i] = g], m) = Of(l, m)
<1> DEFINE k == [l EXCEPT ![i] = g]
           n == Len(l)
<1>1. /\ l \in Seq(Bans) /\ n \in Nat /\ DOMAIN l = 1 .. n
      /\ \A j, o \in 1 .. n : l[j].mask = l[o].mask => j = o
  BY ListFacts
<1>2. k \in Seq(Bans) /\ DOMAIN k = 1 .. n /\ k[i] = g /\ \A j \in 1 .. n : j # i => k[j] = l[j]
  BY <1>1
<1> HIDE DEF k, n
<1>3. \A j \in 1 .. n : k[j].mask = l[j].mask
  BY <1>2
<1>4. k \in BanLists
  BY <1>1, <1>2, <1>3 DEF BanLists
<1>5. Of(k, g.mask) = {g}
  <2>1. \A j \in 1 .. n : k[j].mask = g.mask => j = i
    BY <1>1, <1>3 DEF n
  <2> QED BY <1>2, <2>1 DEF Of, InList, n
<1>6. ASSUME NEW m, m # g.mask PROVE Of(k, m) = Of(l, m)
  BY <1>1, <1>2, <1>6 DEF Of, InList
<1> QED BY <1>4, <1>5, <1>6 DEF k

LEMMA RemovedFrom ==
  ASSUME NEW l \in BanLists, NEW i \in 1 .. Len(l)
  PROVE  /\ Gline!RemoveAt(l, i) \in BanLists /\ Of(Gline!RemoveAt(l, i), l[i].mask) = {}
         /\ \A m : m # l[i].mask => Of(Gline!RemoveAt(l, i), m) = Of(l, m)
<1> DEFINE n == Len(l)
           a == SubSeq(l, 1, i - 1)
           b == SubSeq(l, i + 1, n)
<1>1. /\ n \in Nat /\ DOMAIN l = 1 .. n
      /\ \A j, o \in 1 .. n : l[j].mask = l[o].mask => j = o
  BY ListFacts
<1>2. a \in BanLists /\ InList(a) = {l[j] : j \in 1 .. i - 1}
  <2>1. i - 1 \in 0 .. Len(l)
    BY <1>1
  <2> QED BY <2>1, CutList
<1>3. b \in BanLists /\ InList(b) = {l[j] : j \in i + 1 .. n}
  <2>1. i \in 0 .. Len(l)
    BY <1>1
  <2> QED BY <2>1, CutList
<1>4. Gline!RemoveAt(l, i) = a \o b
  BY DEF Gline!RemoveAt
<1> HIDE DEF a, b, n
<1>5. \A g \in InList(a), h \in InList(b) : g.mask # h.mask
  <2>1. \A j \in 1 .. i - 1, o \in i + 1 .. n : j \in 1 .. n /\ o \in 1 .. n /\ j # o
    BY <1>1 DEF n
  <2> QED BY <1>1, <1>2, <1>3, <2>1
<1>6. a \o b \in BanLists /\ InList(a \o b) = InList(a) \cup InList(b)
  BY <1>2, <1>3, <1>5, JoinedLists
<1>7. InList(a) \cup InList(b) = {l[j] : j \in 1 .. n \ {i}}
  <2>1. 1 .. n \ {i} = (1 .. i - 1) \cup (i + 1 .. n)
    BY <1>1 DEF n
  <2> QED BY <1>2, <1>3, <2>1
<1>8. i \in 1 .. n
  BY DEF n
<1>9. ASSUME NEW m PROVE Of(a \o b, m) = {g \in Of(l, m) : m # l[i].mask}
  BY <1>1, <1>6, <1>7, <1>8 DEF Of, InList
<1> QED BY <1>4, <1>6, <1>9

-----------------------------------------------------------------------------
(* The operations on a list of bans. *)

\* Bans that are not over at time t.
Lasting(S, t) == {g \in S : g.lifetime > t}

LEMMA SweptList ==
  ASSUME now \in Nat, NEW l \in BanLists
  PROVE  Gline!Swept(l) \in BanLists /\ InList(Gline!Swept(l)) = Lasting(InList(l), now)
<1> DEFINE n == Len(l)
           T == Seq(Bans)
           One(k, s) == IF l[k].lifetime <= now THEN s
                        ELSE Append(s, [l[k] EXCEPT !.active = @ /\ l[k].expire > now])
           F == [x \in (1 .. n) \X T |-> One(x[1], x[2])]
           Is(f) == f = [k \in 0 .. n |-> IF k = 0 THEN <<>> ELSE One(k, f[k - 1])]
           swept == CHOOSE f : Is(f)
           Front(k) == {l[j] : j \in 1 .. k}
<1>1. /\ n \in Nat /\ DOMAIN l = 1 .. n /\ \A k \in 1 .. n : l[k] \in Bans
      /\ \A j, k \in 1 .. n : l[j].mask = l[k].mask => j = k
  BY ListFacts
<1>2. Gline!Swept(l) = swept[n]
  BY DEF Gline!Swept
<1>3. ASSUME NEW k \in 1 .. n, l[k].lifetime > now
      PROVE  [l[k] EXCEPT !.active = @ /\ l[k].expire > now] = l[k]
  BY <1>1, <1>3 DEF Bans
<1>4. ASSUME NEW k \in 1 .. n, NEW s
      PROVE  One(k, s) = IF l[k].lifetime > now THEN Append(s, l[k]) ELSE s
  <2>1. l[k].lifetime \in Int
    BY <1>1 DEF Bans
  <2> QED BY <1>3, <2>1
<1> HIDE DEF One
<1>5. ASSUME NEW k \in 1 .. n, NEW s \in T
      PROVE  One(k, s) \in T
  <2>1. l[k] \in Bans
    BY <1>1
  <2>2. Append(s, l[k]) \in T
    BY <2>1
  <2> QED BY <1>4, <2>2
<1>6. F \in [(1 .. n) \X T -> T] /\ \A k \in 1 .. n, s \in T : F[<<k, s>>] = One(k, s)
  BY <1>5
<1>7. <<>> \in T
  OBVIOUS
<1> HIDE DEF F, T
<1>8. PICK f \in [0 .. n -> T] : Chained(f, n, <<>>, F)
  BY <1>1, <1>6, <1>7, Iterates
<1>9. Is(f)
  <2>1. f = [k \in 0 .. n |-> f[k]] /\ \A k \in 0 .. n : k # 0 => k \in 1 .. n
    BY <1>8
  <2>2. \A k \in 1 .. n : f[k - 1] \in T
    BY <1>8
  <2>3. \A k \in 1 .. n : f[k] = One(k, f[k - 1])
    BY <1>6, <1>8, <2>2 DEF Chained
  <2>4. \A k \in 0 .. n : f[k] = IF k = 0 THEN <<>> ELSE One(k, f[k - 1])
    BY <1>8, <2>1, <2>3 DEF Chained
  <2> QED BY <2>1, <2>4
<1>10. Is(swept)
  <2> HIDE DEF Is
  <2> QED BY <1>9
<1> HIDE DEF swept
<1>11. swept[0] = <<>> /\ \A k \in 1 .. n : swept[k] = One(k, swept[k - 1])
  BY <1>1, <1>10
<1> HIDE DEF Is
<1> DEFINE P == {k \in 0 .. n : swept[k] \in BanLists /\ InList(swept[k]) = Lasting(Front(k), now)}
<1>12. 0 \in P
  <2>1. Front(0) = {}
    OBVIOUS
  <2> QED BY <1>1, <1>11, <2>1, NoList DEF Lasting
<1>13. ASSUME NEW k \in 1 .. n, k - 1 \in P PROVE k \in P
  <2> DEFINE s == swept[k - 1]
  <2>1. s \in BanLists /\ InList(s) = Lasting(Front(k - 1), now) /\ swept[k] = One(k, s)
    BY <1>11, <1>13
  <2>2. Front(k) = Front(k - 1) \cup {l[k]}
    BY <1>1
  <2>3. \A g \in Front(k - 1) : g.mask # l[k].mask
    BY <1>1
  <2> HIDE DEF s, Front
  <2>4. CASE l[k].lifetime > now
    <3>1. \A g \in InList(s) : g.mask # l[k].mask
      BY <2>1, <2>3 DEF Lasting
    <3>2. swept[k] = Append(s, l[k])
      BY <1>4, <2>1, <2>4
    <3>3. swept[k] \in BanLists /\ InList(swept[k]) = InList(s) \cup {l[k]}
      BY <1>1, <2>1, <3>1, <3>2, PutLast
    <3> QED BY <2>1, <2>2, <2>4, <3>3 DEF Lasting
  <2>5. CASE ~(l[k].lifetime > now)
    <3>1. swept[k] = s
      BY <1>4, <2>1, <2>5
    <3> QED BY <2>1, <2>2, <2>5, <3>1 DEF Lasting
  <2> QED BY <2>4, <2>5
<1>14. n \in P
  <2> HIDE DEF P
  <2>1. \A k \in 0 .. n : k \in P
    BY <1>1, <1>12, <1>13, NumberByNumber
  <2> QED BY <1>1, <2>1
<1>15. InList(l) = Front(n)
  BY <1>1 DEF InList
<1> QED BY <1>2, <1>14, <1>15

LEMMA LeastHit ==
  ASSUME NEW H, H \subseteq Nat, H # {}
  PROVE  Gline!Min(H) \in H /\ \A k \in H : Gline!Min(H) <= k
<1>1. \E x \in H : \A y \in H : x <= y
  BY LeastNat
<1> QED BY <1>1 DEF Gline!Min

\* The ban of a mask that is looked for, if it is there.
AtIs(l, m, i) ==
  \/ i = 0 /\ Of(l, m) = {}
  \/ i \in 1 .. Len(l) /\ l[i].mask = m /\ Of(l, m) = {l[i]}

LEMMA AtFacts ==
  ASSUME NEW l \in BanLists, NEW m
  PROVE  AtIs(l, m, Gline!At(l, m))
<1> DEFINE H == {j \in 1 .. Len(l) : l[j].mask = m}
           i == Gline!At(l, m)
<1>1. i = IF H # {} THEN Gline!Min(H) ELSE 0
  BY DEF Gline!At, Gline!SelectInSeq
<1>2. /\ Len(l) \in Nat /\ DOMAIN l = 1 .. Len(l)
      /\ \A j, k \in 1 .. Len(l) : l[j].mask = l[k].mask => j = k
  BY ListFacts
<1>3. CASE H = {}
  BY <1>1, <1>2, <1>3 DEF Of, InList, AtIs
<1>4. CASE H # {}
  <2>1. i \in H
    BY <1>1, <1>2, <1>4, LeastHit
  <2>2. i \in 1 .. Len(l) /\ l[i].mask = m
    BY <2>1
  <2>3. Of(l, m) = {l[i]}
    BY <1>2, <2>2 DEF Of, InList
  <2> QED BY <2>2, <2>3 DEF AtIs
<1> QED BY <1>3, <1>4

\* The bans of a mask that are not over at time t.
Standing(l, m, t) == Lasting(Of(l, m), t)

\* findgline() takes from the list only what is over, and all of it for the mask that it looks for.
LEMMA FoundList ==
  ASSUME now \in Nat, NEW l \in BanLists, NEW m
  PROVE  /\ Gline!findgline(l, m) \in BanLists
         /\ \A o : Standing(Gline!findgline(l, m), o, now) = Standing(l, o, now)
         /\ Of(Gline!findgline(l, m), m) = Standing(l, m, now)
<1> DEFINE H == {i \in DOMAIN l : l[i].mask = m /\ l[i].lifetime > now}
           n == Len(l)
           last == IF H = {} THEN n ELSE Gline!Min(H)
           a == SubSeq(l, 1, last)
           b == SubSeq(l, last + 1, n)
           c == Gline!Swept(a)
           r == Gline!findgline(l, m)
<1>1. r = c \o b
  BY DEF Gline!findgline
<1>2. /\ n \in Nat /\ DOMAIN l = 1 .. n
      /\ \A j, k \in 1 .. n : l[j].mask = l[k].mask => j = k
  BY ListFacts
<1>3. last \in 0 .. n /\ \A j \in last + 1 .. n : l[j].mask # m
  <2>1. CASE H = {}
    BY <1>2, <2>1
  <2>2. CASE H # {}
    <3>1. last \in H
      BY <1>2, <2>2, LeastHit
    <3>2. last \in 1 .. n /\ l[last].mask = m
      BY <1>2, <3>1
    <3>3. \A j \in last + 1 .. n : l[j].mask # m
      BY <1>2, <3>2
    <3> QED BY <3>2, <3>3
  <2> QED BY <2>1, <2>2
<1> HIDE DEF last, H
<1>4. /\ a \in BanLists /\ InList(a) = {l[j] : j \in 1 .. last}
      /\ b \in BanLists /\ InList(b) = {l[j] : j \in last + 1 .. n}
  BY <1>3, CutList
<1> HIDE DEF a, b, n
<1>5. c \in BanLists /\ InList(c) = Lasting(InList(a), now)
  BY <1>4, SweptList
<1> HIDE DEF c, r
<1>6. \A g \in InList(a), h \in InList(b) : g.mask # h.mask
  <2>1. \A j \in 1 .. last, k \in last + 1 .. n : j \in 1 .. n /\ k \in 1 .. n /\ j # k
    BY <1>2, <1>3
  <2> QED BY <1>2, <1>4, <2>1
<1>7. r \in BanLists /\ InList(r) = InList(c) \cup InList(b)
  <2>1. \A g \in InList(c), h \in InList(b) : g.mask # h.mask
    BY <1>5, <1>6 DEF Lasting
  <2> QED BY <1>1, <1>4, <1>5, <2>1, JoinedLists
<1>8. InList(l) = InList(a) \cup InList(b)
  <2>1. 1 .. n = (1 .. last) \cup (last + 1 .. n)
    BY <1>2, <1>3
  <2> QED BY <1>2, <1>4, <2>1 DEF InList
<1>9. \A h \in InList(b) : h.mask # m
  BY <1>3, <1>4
<1>10. Of(r, m) = Standing(l, m, now)
  BY <1>5, <1>7, <1>8, <1>9 DEF Of, Standing, Lasting
<1>11. ASSUME NEW o PROVE Standing(r, o, now) = Standing(l, o, now)
  BY <1>5, <1>7, <1>8 DEF Of, Standing, Lasting
<1> QED BY <1>7, <1>10, <1>11 DEF r

\* A change of the list that leaves the bans of other masks alone, but for what is over.
Becomes(l, r, m, t, G) ==
  /\ r \in BanLists /\ Standing(r, m, t) = G
  /\ \A o : o # m => Standing(r, o, t) = Standing(l, o, t)

LEMMA LiveFacts ==
  ASSUME NEW l \in BanLists, NEW m, NEW t
  PROVE  /\ \A g \in Standing(l, m, t) : g \in Bans /\ g.mask = m /\ g.lifetime > t
         /\ \A g, h \in Standing(l, m, t) : g = h
  BY ListFacts DEF Standing, Lasting, Of

\* A ban that is found.
LEMMA AtFound ==
  ASSUME NEW l \in BanLists, NEW m, NEW t, NEW r \in BanLists, Of(r, m) = Standing(l, m, t)
  PROVE  LET i == Gline!At(r, m) IN
           \/ i = 0 /\ Standing(l, m, t) = {}
           \/ i \in 1 .. Len(r) /\ r[i] \in Bans /\ r[i].mask = m /\ Standing(l, m, t) = {r[i]}
<1>1. AtIs(r, m, Gline!At(r, m))
  BY AtFacts
<1> QED BY <1>1, ListFacts DEF AtIs

LEMMA PutFirstLive ==
  ASSUME NEW l \in BanLists, NEW t \in Int, NEW g \in Bans, g.lifetime > t, Of(l, g.mask) = {}
  PROVE  Becomes(l, <<g>> \o l, g.mask, t, {g})
<1>1. /\ <<g>> \o l \in BanLists /\ Of(<<g>> \o l, g.mask) = {g}
      /\ \A m : m # g.mask => Of(<<g>> \o l, m) = Of(l, m)
  BY PutFirst
<1> QED BY <1>1 DEF Becomes, Standing, Lasting

LEMMA ReplacedLive ==
  ASSUME NEW l \in BanLists, NEW t \in Int, NEW i \in 1 .. Len(l), NEW g \in Bans,
         g.mask = l[i].mask, g.lifetime > t
  PROVE  Becomes(l, [l EXCEPT ![i] = g], g.mask, t, {g})
<1>1. /\ [l EXCEPT ![i] = g] \in BanLists /\ Of([l EXCEPT ![i] = g], g.mask) = {g}
      /\ \A m : m # g.mask => Of([l EXCEPT ![i] = g], m) = Of(l, m)
  BY ReplacedIn
<1> QED BY <1>1 DEF Becomes, Standing, Lasting

LEMMA RemovedLive ==
  ASSUME NEW l \in BanLists, NEW t, NEW i \in 1 .. Len(l)
  PROVE  Becomes(l, Gline!RemoveAt(l, i), l[i].mask, t, {})
<1>1. /\ Gline!RemoveAt(l, i) \in BanLists /\ Of(Gline!RemoveAt(l, i), l[i].mask) = {}
      /\ \A m : m # l[i].mask => Of(Gline!RemoveAt(l, i), m) = Of(l, m)
  BY RemovedFrom
<1> QED BY <1>1 DEF Becomes, Standing, Lasting

LEMMA BecomesAgain ==
  ASSUME NEW l, NEW k, NEW r, NEW m, NEW t, NEW G,
         \A o : Standing(k, o, t) = Standing(l, o, t), Becomes(k, r, m, t, G)
  PROVE  Becomes(l, r, m, t, G)
  BY DEF Becomes

\* Activating and deactivating a ban, and committing one.
LEMMA ChangedBan ==
  ASSUME now \in Nat, NEW g \in Bans, NEW time \in Nat
  PROVE  /\ Gline!Lastmod(g, time) \in Nat
         /\ Gline!gline_activate(g, time) = [g EXCEPT !.active = TRUE, !.lastmod = Gline!Lastmod(g, time)]
         /\ Gline!gline_activate(g, time) \in Bans
         /\ Gline!gline_activate(g, time).mask = g.mask
         /\ Gline!gline_activate(g, time).expire = g.expire
         /\ Gline!gline_activate(g, time).lifetime = g.lifetime
         /\ Gline!gline_deactivate(g, time) \in Bans
         /\ Gline!gline_deactivate(g, time).mask = g.mask
         /\ Gline!gline_deactivate(g, time).expire = g.expire
         /\ Gline!gline_deactivate(g, time).lifetime = g.lifetime
<1>1. Gline!Lastmod(g, time) \in Nat
  BY DEF Gline!Lastmod, Bans
<1> QED BY <1>1 DEF Gline!gline_activate, Gline!gline_deactivate, Bans

Committed(h, g) ==
  IF g.active /\ ~h.active THEN Gline!gline_activate(h, 0)
  ELSE IF ~g.active /\ h.active THEN Gline!gline_deactivate(h, 0) ELSE h

LEMMA CommittedList ==
  ASSUME now \in Nat, NEW l \in BanLists, NEW g \in Bans, g.lifetime > now
  PROVE  LET F == Standing(l, g.mask, now)
         IN  Becomes(l, Gline!glinebufcommit(l, g), g.mask, now, IF F = {} THEN {g} ELSE {Committed(h, g) :
               h \in F})
<1> DEFINE m == g.mask
           F == Standing(l, m, now)
           k == Gline!findgline(l, m)
           i == Gline!At(k, m)
           r == Gline!glinebufcommit(l, g)
<1>1. k \in BanLists /\ Of(k, m) = F /\ \A o : Standing(k, o, now) = Standing(l, o, now)
  BY FoundList
<1>2. \/ i = 0 /\ F = {}
      \/ i \in 1 .. Len(k) /\ k[i] \in Bans /\ k[i].mask = m /\ F = {k[i]}
  BY <1>1, AtFound
<1>3. r = IF i = 0 THEN <<g>> \o k ELSE [k EXCEPT ![i] = Committed(k[i], g)]
  <2>1. CASE i = 0
    BY <2>1 DEF Gline!glinebufcommit
  <2>2. CASE i # 0
    <3>1. i \in 1 .. Len(k) /\ i \in DOMAIN k
      BY <1>1, <1>2, <2>2, ListFacts
    <3> QED BY <2>2, <3>1 DEF Gline!glinebufcommit, Committed
  <2> QED BY <2>1, <2>2
<1> HIDE DEF k, i, r, F
<1>4. CASE i = 0
  <2>1. F = {}
    <3>1. Len(k) \in Nat
      BY <1>1, ListFacts
    <3> QED BY <1>2, <1>4, <3>1
  <2>2. Becomes(k, r, m, now, {g})
    <3>1. now \in Int /\ Of(k, g.mask) = {}
      BY <1>1, <2>1
    <3>2. Becomes(k, <<g>> \o k, g.mask, now, {g})
      BY <1>1, <3>1, PutFirstLive
    <3> QED BY <1>3, <1>4, <3>2
  <2> QED BY <1>1, <2>1, <2>2, BecomesAgain DEF F, r
<1>5. CASE i # 0
  <2>1. i \in 1 .. Len(k) /\ k[i] \in Bans /\ k[i].mask = m /\ F = {k[i]}
    BY <1>2, <1>5
  <2>2. k[i].lifetime > now
    BY <2>1, LiveFacts DEF F
  <2>3. /\ Committed(k[i], g) \in Bans /\ Committed(k[i], g).mask = m
        /\ Committed(k[i], g).lifetime > now
    <3> DEFINE h == k[i]
    <3>1. h \in Bans /\ h.mask = m /\ h.lifetime > now /\ h.mask = m
      BY <2>1, <2>2
    <3> HIDE DEF h
    <3>2. Gline!gline_activate(h, 0).mask = m /\ Gline!gline_activate(h, 0).lifetime = h.lifetime
      BY <3>1, ChangedBan
    <3>3. /\ Gline!gline_activate(h, 0) \in Bans /\ Gline!gline_deactivate(h, 0) \in Bans
          /\ Gline!gline_deactivate(h, 0).mask = m /\ Gline!gline_deactivate(h, 0).lifetime = h.lifetime
      BY <3>1, ChangedBan
    <3>4. /\ Committed(h, g) \in Bans /\ Committed(h, g).mask = m
          /\ Committed(h, g).lifetime > now
      BY <3>1, <3>2, <3>3 DEF Committed
    <3> QED BY <3>4 DEF h
  <2>4. Becomes(k, r, m, now, {Committed(k[i], g)})
    <3> DEFINE h == Committed(k[i], g)
    <3>1. h \in Bans /\ h.mask = m /\ h.mask = k[i].mask /\ h.lifetime > now /\ now \in Int
      BY <2>1, <2>3
    <3> HIDE DEF h
    <3>2. Becomes(k, [k EXCEPT ![i] = h], h.mask, now, {h})
      BY <1>1, <2>1, <3>1, ReplacedLive
    <3> QED BY <1>3, <1>5, <3>1, <3>2 DEF h
  <2>5. {Committed(k[i], g)} = IF F = {} THEN {g} ELSE {Committed(h, g) : h \in F}
    BY <2>1
  <2> QED BY <1>1, <2>4, <2>5, BecomesAgain DEF F, r
<1> QED BY <1>4, <1>5

\* Lines at time t, the ban that a line makes, and what it makes of the bans F of its mask.
Lines(t) ==
  {line \in [op : {"+", "-", "%-", "remove"}, mask : GlineMasks, duration : Nat \ {0}, lastmod : Nat] :
    line.lastmod <= t + line.duration}

BanOf(line, t) ==
  [mask |-> line.mask, active |-> TRUE, destroyed |-> FALSE,
   expire |-> t + line.duration, lastmod |-> line.lastmod, lifetime |-> t + line.duration]

Heard(F, line, t) ==
  IF line.op = "+"
  THEN IF \E g \in F : g.lastmod >= line.lastmod THEN {[g EXCEPT !.active = TRUE] : g \in F}
        ELSE {BanOf(line, t)}
  ELSE IF line.op = "-"
  THEN IF F = {} THEN {[BanOf(line, t) EXCEPT !.active = FALSE]}
       ELSE {[g EXCEPT !.active = FALSE, !.lastmod = line.lastmod] : g \in F}
  ELSE {}

\* Only a ban that is not U-lined is taken back.
Hears(F, G, line, t) ==
  /\ line.op = "-" => line.lastmod # 0 /\ \A g \in F : g.lastmod # 0
  /\ line.op = "%-" => F # {} /\ \A g \in F : g.lastmod # 0
  /\ G = Heard(F, line, t)

LEMMA SameBan ==
  ASSUME NEW g \in Bans, NEW h \in Bans,
         g.mask = h.mask, g.active = h.active, g.expire = h.expire, g.lastmod = h.lastmod
  PROVE  g = h
<1>1. /\ g = [mask |-> g.mask, active |-> g.active, destroyed |-> FALSE,
               expire |-> g.expire, lastmod |-> g.lastmod, lifetime |-> g.expire]
      /\ h = [mask |-> h.mask, active |-> h.active, destroyed |-> FALSE,
               expire |-> h.expire, lastmod |-> h.lastmod, lifetime |-> h.expire]
  BY DEF Bans
<1> QED BY <1>1

LEMMA NewBan ==
  ASSUME NEW t \in Nat, NEW line \in Lines(t)
  PROVE  /\ BanOf(line, t) \in Bans /\ BanOf(line, t).mask = line.mask /\ BanOf(line, t).lifetime > t
         /\ [BanOf(line, t) EXCEPT !.active = FALSE] \in Bans
         /\ BanOf(line, t) = Gline!NewGline(line.mask, t + line.duration, line.lastmod, t + line.duration)
         /\ Gline!Larger(line.lastmod, t + line.duration) = t + line.duration
<1>1. /\ line.mask \in GlineMasks /\ line.duration \in Nat /\ line.duration > 0 /\ line.lastmod \in Nat
      /\ line.lastmod <= t + line.duration
  BY DEF Lines
<1>2. Gline!Larger(line.lastmod, t + line.duration) = t + line.duration
  BY <1>1 DEF Gline!Larger
<1> DEFINE e == t + line.duration
<1>3. e \in Int /\ e > t
  BY <1>1
<1>4. BanOf(line, t) = [mask |-> line.mask, active |-> TRUE, destroyed |-> FALSE,
                       expire |-> e, lastmod |-> line.lastmod, lifetime |-> e]
  BY DEF BanOf
<1> HIDE DEF e
<1>5. BanOf(line, t) \in Bans /\ BanOf(line, t).mask = line.mask /\ BanOf(line, t).lifetime = e
  BY <1>1, <1>3, <1>4 DEF Bans
<1>6. [BanOf(line, t) EXCEPT !.active = FALSE] \in Bans
  BY <1>5 DEF Bans
<1>7. BanOf(line, t) = Gline!NewGline(line.mask, e, line.lastmod, e)
  BY <1>4 DEF Gline!NewGline
<1> QED BY <1>2, <1>3, <1>5, <1>6, <1>7 DEF e

LEMMA ActivatedList ==
  ASSUME now \in Nat, NEW l \in BanLists, NEW line \in Lines(now), line.op = "+"
  PROVE  Becomes(l, Gline!Activated(l, line), line.mask, now, Heard(Standing(l, line.mask, now), line, now))
<1> DEFINE m == line.mask
           F == Standing(l, m, now)
           k == Gline!findgline(l, m)
           i == Gline!At(k, m)
           r == Gline!Activated(l, line)
           g == BanOf(line, now)
           again == [k[i] EXCEPT !.active = TRUE]
<1>1. /\ line.lastmod \in Nat
      /\ g \in Bans /\ g.mask = m /\ g.lifetime > now
      /\ g = Gline!NewGline(m, now + line.duration, line.lastmod, now + line.duration)
      /\ Gline!Larger(line.lastmod, now + line.duration) = now + line.duration
  BY NewBan DEF Lines
<1>2. k \in BanLists /\ Of(k, m) = F /\ \A o : Standing(k, o, now) = Standing(l, o, now)
  BY FoundList
<1>3. \/ i = 0 /\ F = {}
      \/ i \in 1 .. Len(k) /\ k[i] \in Bans /\ k[i].mask = m /\ F = {k[i]}
  BY <1>2, AtFound
<1>4. Len(k) \in Nat /\ DOMAIN k = 1 .. Len(k) /\ k \in Seq(Bans)
  BY <1>2, ListFacts
<1>5. CASE i = 0
  <2>1. r = Gline!glinebufcommit(k, g)
    BY <1>1, <1>5 DEF Gline!Activated
  <2>2. F = {} /\ Standing(k, m, now) = {}
    BY <1>2, <1>3, <1>4, <1>5
  <2> HIDE DEF k, i, r, g, F, m
  <2>3. Becomes(k, r, m, now, {g})
    BY <1>1, <1>2, <2>1, <2>2, CommittedList
  <2>4. Heard(F, line, now) = {g}
    BY <2>2 DEF Heard, g
  <2> QED BY <1>2, <2>3, <2>4, BecomesAgain DEF F, r, m
<1>6. CASE i # 0 /\ line.lastmod > k[i].lastmod
  <2>1. i \in 1 .. Len(k) /\ k[i] \in Bans /\ k[i].mask = m /\ F = {k[i]}
    BY <1>3, <1>6
  <2>2. r = [k EXCEPT ![i].active = TRUE, ![i].lastmod = line.lastmod,
                      ![i].expire = now + line.duration, ![i].lifetime = now + line.duration]
    BY <1>1, <1>6 DEF Gline!Activated
  <2>3. g = [k[i] EXCEPT !.active = TRUE, !.lastmod = line.lastmod,
                         !.expire = now + line.duration, !.lifetime = now + line.duration]
    <3> DEFINE h == k[i]
               e == now + line.duration
    <3>1. h \in Bans /\ h.mask = m
      BY <2>1
    <3>2. g = [mask |-> m, active |-> TRUE, destroyed |-> FALSE, expire |-> e, lastmod |-> line.lastmod,
          lifetime |-> e]
      BY DEF BanOf
    <3> DEFINE x == [h EXCEPT !.active = TRUE, !.lastmod = line.lastmod, !.expire = e, !.lifetime = e]
    <3>3. line.lastmod \in Nat /\ e \in Int /\ g \in Bans
      BY <1>1 DEF Lines
    <3> HIDE DEF h, e, g, m
    <3>4. /\ x \in Bans /\ x.mask = m /\ x.active = TRUE /\ x.expire = e /\ x.lastmod = line.lastmod
      BY <3>1, <3>3 DEF Bans
    <3>5. g.mask = m /\ g.active = TRUE /\ g.expire = e /\ g.lastmod = line.lastmod
      BY <3>2
    <3> HIDE DEF x
    <3>6. g = x
      BY <3>3, <3>4, <3>5, SameBan
    <3> QED BY <3>6 DEF h, e, x
  <2> HIDE DEF k, i, r, g, F, m
  <2>4. r = [k EXCEPT ![i] = g]
    BY <1>4, <2>1, <2>2, <2>3
  <2>5. Becomes(k, r, m, now, {g})
    <3>1. g \in Bans /\ g.mask = m /\ g.mask = k[i].mask /\ g.lifetime > now /\ now \in Int
      BY <1>1, <2>1, <2>4
    <3>2. Becomes(k, [k EXCEPT ![i] = g], g.mask, now, {g})
      BY <1>2, <2>1, <3>1, ReplacedLive
    <3>3. r = [k EXCEPT ![i] = g]
      BY <2>1, <2>4
    <3> QED BY <3>1, <3>2, <3>3
  <2>6. Heard(F, line, now) = {g}
    <3>1. k[i].lastmod \in Nat
      BY <2>1 DEF Bans
    <3> QED BY <1>1, <1>6, <2>1, <3>1 DEF Heard, g
  <2> QED BY <1>2, <2>5, <2>6, BecomesAgain DEF F, r, m
<1>7. CASE i # 0 /\ ~(line.lastmod > k[i].lastmod)
  <2>1. i \in 1 .. Len(k) /\ k[i] \in Bans /\ k[i].mask = m /\ F = {k[i]}
    BY <1>3, <1>7
  <2>2. r = [k EXCEPT ![i].active = TRUE]
    BY <1>1, <1>7 DEF Gline!Activated
  <2>3. k[i].lifetime > now /\ k[i].lastmod \in Nat
    BY <2>1, LiveFacts DEF Bans
  <2>4. again \in Bans /\ again.mask = m /\ again.lifetime > now
    BY <2>1, <2>3 DEF Bans
  <2>5. Heard(F, line, now) = {again}
    BY <1>1, <1>7, <2>1, <2>3 DEF Heard
  <2> HIDE DEF k, i, r, F, m
  <2>6. r = [k EXCEPT ![i] = again]
    BY <1>4, <2>1, <2>2
  <2> HIDE DEF again
  <2>7. Becomes(k, r, m, now, {again})
    <3>1. again \in Bans /\ again.mask = m /\ again.mask = k[i].mask /\ again.lifetime > now /\ now \in Int
      BY <2>1, <2>4
    <3>2. Becomes(k, [k EXCEPT ![i] = again], again.mask, now, {again})
      BY <1>2, <2>1, <3>1, ReplacedLive
    <3>3. r = [k EXCEPT ![i] = again]
      BY <2>1, <2>4, <2>6
    <3> QED BY <3>1, <3>2, <3>3
  <2> QED BY <1>2, <2>5, <2>7, BecomesAgain DEF F, r, m
<1> QED BY <1>5, <1>6, <1>7

LEMMA DeactivatedList ==
  ASSUME now \in Nat, NEW l \in BanLists, NEW line \in Lines(now), line.op # "+",
         NEW G, Hears(Standing(l, line.mask, now), G, line, now)
  PROVE  Becomes(l, Gline!Deactivated(l, line), line.mask, now, G)
<1> DEFINE m == line.mask
           F == Standing(l, m, now)
           k == Gline!findgline(l, m)
           i == Gline!At(k, m)
           r == Gline!Deactivated(l, line)
           g == BanOf(line, now)
           off == [g EXCEPT !.active = FALSE]
           other == [k[i] EXCEPT !.active = FALSE, !.lastmod = line.lastmod]
<1>1. /\ line.lastmod \in Nat /\ line.op \in {"-", "%-", "remove"}
      /\ g \in Bans /\ g.mask = m /\ g.lifetime > now /\ off \in Bans
      /\ g = Gline!NewGline(m, now + line.duration, line.lastmod, now + line.duration)
      /\ Gline!Larger(line.lastmod, now + line.duration) = now + line.duration
  BY NewBan DEF Lines
<1>2. k \in BanLists /\ Of(k, m) = F /\ \A o : Standing(k, o, now) = Standing(l, o, now)
  BY FoundList
<1>3. \/ i = 0 /\ F = {}
      \/ i \in 1 .. Len(k) /\ k[i] \in Bans /\ k[i].mask = m /\ F = {k[i]}
  BY <1>2, AtFound
<1>4. Len(k) \in Nat /\ DOMAIN k = 1 .. Len(k) /\ k \in Seq(Bans)
  BY <1>2, ListFacts
<1>5. /\ line.op = "-" => line.lastmod # 0 /\ \A h \in F : h.lastmod # 0
      /\ line.op = "%-" => F # {} /\ \A h \in F : h.lastmod # 0
      /\ G = Heard(F, line, now)
  BY DEF Hears
<1>6. CASE i = 0 /\ line.op = "remove"
  <2>1. r = k /\ G = {} /\ F = {}
    BY <1>3, <1>4, <1>5, <1>6 DEF Gline!Deactivated, Heard
  <2> QED BY <1>2, <2>1 DEF Becomes
<1>7. CASE i = 0 /\ line.op = "-"
  <2>1. r = Gline!glinebufcommit(k, Gline!gline_deactivate(g, line.lastmod))
    BY <1>1, <1>7 DEF Gline!Deactivated
  <2>2. g.lastmod = line.lastmod /\ line.lastmod # 0
    BY <1>5, <1>7 DEF BanOf
  <2>3. Gline!gline_deactivate(g, line.lastmod) = off
    <3>1. Gline!Lastmod(g, line.lastmod) = line.lastmod
      BY <2>2 DEF Gline!Lastmod
    <3> QED BY <2>2, <3>1 DEF Gline!gline_deactivate, BanOf
  <2>4. F = {} /\ Standing(k, m, now) = {}
    BY <1>2, <1>3, <1>4, <1>7
  <2>5. off.mask = m /\ off.lifetime > now
    BY <1>1 DEF BanOf
  <2>6. G = {off}
    BY <1>5, <1>7, <2>4 DEF Heard
  <2> HIDE DEF k, i, r, g, F, m, off
  <2>7. Becomes(k, r, m, now, {off})
    BY <1>1, <1>2, <2>1, <2>3, <2>4, <2>5, CommittedList
  <2> QED BY <1>2, <2>6, <2>7, BecomesAgain DEF r, m
<1>8. CASE i # 0 /\ line.op = "-"
  <2>1. i \in 1 .. Len(k) /\ k[i] \in Bans /\ k[i].mask = m /\ F = {k[i]}
    BY <1>3, <1>8
  <2>2. r = [k EXCEPT ![i] = Gline!gline_deactivate(k[i], line.lastmod)]
    BY <1>1, <1>8, <2>1, <1>4 DEF Gline!Deactivated
  <2>3. Gline!gline_deactivate(k[i], line.lastmod) = other
    <3>1. k[i].lastmod # 0 /\ line.lastmod # 0
      BY <1>5, <1>8, <2>1
    <3>2. Gline!Lastmod(k[i], line.lastmod) = line.lastmod
      BY <3>1 DEF Gline!Lastmod
    <3> QED BY <3>1, <3>2 DEF Gline!gline_deactivate
  <2>4. k[i].lifetime > now
    BY <2>1, LiveFacts
  <2>5. other \in Bans /\ other.mask = m /\ other.lifetime > now
    BY <1>1, <2>1, <2>4 DEF Bans
  <2>6. G = {other}
    BY <1>5, <1>8, <2>1 DEF Heard
  <2> HIDE DEF k, i, r, g, F, m, other
  <2>7. Becomes(k, r, m, now, {other})
    <3>1. other \in Bans /\ other.mask = m /\ other.mask = k[i].mask /\ other.lifetime > now /\ now \in Int
      BY <2>1, <2>5
    <3>2. Becomes(k, [k EXCEPT ![i] = other], other.mask, now, {other})
      BY <1>2, <2>1, <3>1, ReplacedLive
    <3>3. r = [k EXCEPT ![i] = other]
      BY <2>1, <2>2, <2>3, <2>5
    <3> QED BY <3>1, <3>2, <3>3
  <2> QED BY <1>2, <2>6, <2>7, BecomesAgain DEF r, m
<1>9. CASE i # 0 /\ line.op \in {"%-", "remove"}
  <2>1. i \in 1 .. Len(k) /\ k[i] \in Bans /\ k[i].mask = m /\ F = {k[i]}
    BY <1>3, <1>9
  <2>2. r = Gline!RemoveAt(k, i)
    <3>1. CASE line.op = "remove"
      BY <1>9, <3>1 DEF Gline!Deactivated
    <3>2. CASE line.op = "%-"
      <4>1. k[i].lastmod # 0
        BY <1>5, <2>1, <3>2
      <4> QED BY <1>9, <3>2, <4>1 DEF Gline!Deactivated, Gline!gline_destroy
    <3> QED BY <1>9, <3>1, <3>2
  <2>3. G = {}
    BY <1>5, <1>9 DEF Heard
  <2> HIDE DEF k, i, r, g, F, m
  <2>4. Becomes(k, r, m, now, {})
    BY <1>2, <2>1, <2>2, RemovedLive
  <2> QED BY <1>2, <2>3, <2>4, BecomesAgain DEF r, m
<1>10. ~(i = 0 /\ line.op = "%-")
  BY <1>3, <1>4, <1>5
<1> QED BY <1>1, <1>6, <1>7, <1>8, <1>9, <1>10

\* glstore_load() makes a list with one ban for a mask at most.
LEMMA LoadedList ==
  ASSUME now \in Nat, NEW l \in BanLists
  PROVE  Gline!glstore_load(l) \in BanLists
<1> DEFINE n == Len(l)
           Line(s, g) == LET found == Gline!findgline(s, g.mask)
                         IN IF Gline!At(found, g.mask) # 0 THEN found
                               ELSE <<[g EXCEPT !.destroyed = FALSE]>> \o found
           F == [x \in (1 .. n) \X BanLists |-> Line(x[2], l[x[1]])]
           Is(f) == f = [k \in 0 .. n |-> IF k = 0 THEN <<>> ELSE Line(f[k - 1], l[k])]
           read == CHOOSE f : Is(f)
<1>1. n \in Nat /\ DOMAIN l = 1 .. n /\ \A k \in 1 .. n : l[k] \in Bans
  BY ListFacts
<1>2. Gline!glstore_load(l) = read[n]
  BY DEF Gline!glstore_load
<1>3. ASSUME NEW s \in BanLists, NEW g \in Bans PROVE Line(s, g) \in BanLists
  <2> DEFINE k == Gline!findgline(s, g.mask)
  <2>1. k \in BanLists
    BY FoundList
  <2>2. [g EXCEPT !.destroyed = FALSE] = g
    BY DEF Bans
  <2> HIDE DEF k
  <2>3. AtIs(k, g.mask, Gline!At(k, g.mask))
    BY <2>1, AtFacts
  <2>4. CASE Gline!At(k, g.mask) # 0
    BY <2>1, <2>4 DEF k
  <2>5. CASE Gline!At(k, g.mask) = 0
    <3>1. Len(k) \in Nat
      BY <2>1, ListFacts
    <3>2. Of(k, g.mask) = {}
      BY <2>3, <2>5, <3>1 DEF AtIs
    <3>3. <<g>> \o k \in BanLists
      BY <2>1, <3>2, PutFirst
    <3> QED BY <2>2, <2>5, <3>3 DEF k
  <2> QED BY <2>4, <2>5
<1> HIDE DEF Line
<1>4. F \in [(1 .. n) \X BanLists -> BanLists] /\ \A k \in 1 .. n, s \in BanLists : F[<<k, s>>] = Line(s,
      l[k])
  BY <1>1, <1>3
<1> HIDE DEF F
<1>5. PICK f \in [0 .. n -> BanLists] : Chained(f, n, <<>>, F)
  BY <1>1, <1>4, NoList, Iterates
<1>6. Is(f)
  <2>1. f = [k \in 0 .. n |-> f[k]] /\ \A k \in 0 .. n : k # 0 => k \in 1 .. n
    BY <1>5
  <2>2. \A k \in 1 .. n : f[k - 1] \in BanLists
    BY <1>5
  <2>3. \A k \in 1 .. n : f[k] = Line(f[k - 1], l[k])
    BY <1>4, <1>5, <2>2 DEF Chained
  <2>4. \A k \in 0 .. n : f[k] = IF k = 0 THEN <<>> ELSE Line(f[k - 1], l[k])
    BY <1>5, <2>1, <2>3 DEF Chained
  <2> QED BY <2>1, <2>4
<1>7. Is(read)
  <2> HIDE DEF Is
  <2> QED BY <1>6
<1> HIDE DEF read
<1>8. read[0] = <<>> /\ \A k \in 1 .. n : read[k] = Line(read[k - 1], l[k])
  BY <1>1, <1>7
<1> HIDE DEF Is
<1> DEFINE P == {k \in 0 .. n : read[k] \in BanLists}
<1>9. 0 \in P
  BY <1>1, <1>8, NoList
<1>10. ASSUME NEW k \in 1 .. n, k - 1 \in P PROVE k \in P
  BY <1>1, <1>3, <1>8, <1>10
<1>11. n \in P
  <2> HIDE DEF P
  <2>1. \A k \in 0 .. n : k \in P
    BY <1>1, <1>9, <1>10, NumberByNumber
  <2> QED BY <1>1, <2>1
<1> QED BY <1>2, <1>11

-----------------------------------------------------------------------------
(* What the lines of the hub make of the bans of a mask. *)

\* A line about another mask leaves them alone.
Step(F, G, line, m, t) == IF line.mask = m THEN Hears(F, G, line, t) ELSE G = F

\* The lines make G of F.
Learns(F, G, lines, m, t) ==
  \E v \in [0 .. Len(lines) -> SUBSET Bans] :
    /\ v[0] = F /\ v[Len(lines)] = G
    /\ \A j \in 1 .. Len(lines) : Step(v[j - 1], v[j], lines[j], m, t)

LEMMA LearnsNothing ==
  ASSUME NEW F \in SUBSET Bans, NEW G \in SUBSET Bans, NEW m, NEW t
  PROVE  Learns(F, G, <<>>, m, t) <=> F = G
<1>1. Len(<<>>) = 0 /\ 1 .. 0 = {} /\ 0 .. 0 = {0}
  OBVIOUS
<1>2. ASSUME Learns(F, G, <<>>, m, t) PROVE F = G
  BY <1>1, <1>2 DEF Learns
<1>3. ASSUME F = G PROVE Learns(F, G, <<>>, m, t)
  <2> DEFINE v == [j \in 0 .. Len(<<>>) |-> F]
  <2>1. v \in [0 .. Len(<<>>) -> SUBSET Bans] /\ v[0] = F /\ v[Len(<<>>)] = G
    BY <1>1, <1>3
  <2>2. \A j \in 1 .. Len(<<>>) : Step(v[j - 1], v[j], <<>>[j], m, t)
    BY <1>1
  <2> HIDE DEF v
  <2> QED BY <2>1, <2>2 DEF Learns
<1> QED BY <1>2, <1>3

LEMMA LearnsLine ==
  ASSUME NEW S, NEW lines \in Seq(S), NEW line \in S, NEW F, NEW G, NEW H \in SUBSET Bans, NEW m, NEW t,
         Learns(F, G, lines, m, t), Step(G, H, line, m, t)
  PROVE  Learns(F, H, Append(lines, line), m, t)
<1> DEFINE n == Len(lines)
           k == Append(lines, line)
<1>1. PICK v \in [0 .. n -> SUBSET Bans] :
        v[0] = F /\ v[n] = G /\ \A j \in 1 .. n : Step(v[j - 1], v[j], lines[j], m, t)
  BY DEF Learns
<1>2. n \in Nat /\ Len(k) = n + 1 /\ k[n + 1] = line /\ \A j \in 1 .. n : k[j] = lines[j]
  OBVIOUS
<1> HIDE DEF n, k
<1> DEFINE w == [j \in 0 .. n + 1 |-> IF j = n + 1 THEN H ELSE v[j]]
<1>3. w \in [0 .. n + 1 -> SUBSET Bans]
  <2>1. \A j \in 0 .. n + 1 : j # n + 1 => j \in 0 .. n
    BY <1>2
  <2>2. \A j \in 0 .. n : v[j] \in SUBSET Bans
    BY <1>1
  <2> QED BY <2>1, <2>2
<1>4. w[0] = F /\ w[n + 1] = H
  BY <1>1, <1>2
<1>5. ASSUME NEW j \in 1 .. n + 1 PROVE Step(w[j - 1], w[j], k[j], m, t)
  <2>1. CASE j = n + 1
    <3>1. w[j - 1] = G /\ w[j] = H /\ k[j] = line
      BY <1>1, <1>2, <2>1
    <3> QED BY <3>1
  <2>2. CASE j # n + 1
    <3>1. j \in 1 .. n
      BY <1>2, <2>2
    <3>2. w[j - 1] = v[j - 1] /\ w[j] = v[j] /\ k[j] = lines[j]
      BY <1>2, <3>1
    <3> QED BY <1>1, <3>1, <3>2
  <2> QED BY <2>1, <2>2
<1> HIDE DEF w
<1>6. Learns(F, H, k, m, t)
  BY <1>2, <1>3, <1>4, <1>5 DEF Learns
<1> QED BY <1>6 DEF k

LEMMA LearnsHead ==
  ASSUME NEW S, NEW lines \in Seq(S), lines # <<>>, NEW F, NEW H, NEW m, NEW t, Learns(F, H, lines, m, t)
  PROVE  \E G \in SUBSET Bans : Step(F, G, Head(lines), m, t) /\ Learns(G, H, Tail(lines), m, t)
<1> DEFINE n == Len(lines)
           k == Tail(lines)
<1>1. PICK v \in [0 .. n -> SUBSET Bans] :
        v[0] = F /\ v[n] = H /\ \A j \in 1 .. n : Step(v[j - 1], v[j], lines[j], m, t)
  BY DEF Learns
<1>2. /\ n \in Nat /\ n > 0 /\ Len(k) = n - 1 /\ Head(lines) = lines[1]
      /\ \A j \in 1 .. n - 1 : k[j] = lines[j + 1]
  OBVIOUS
<1> HIDE DEF n, k
<1> DEFINE w == [j \in 0 .. n - 1 |-> v[j + 1]]
<1>3. w \in [0 .. n - 1 -> SUBSET Bans]
  <2>1. \A j \in 0 .. n - 1 : j + 1 \in 0 .. n
    BY <1>2
  <2> QED BY <1>1, <2>1
<1>4. w[0] = v[1] /\ w[n - 1] = H /\ v[1] \in SUBSET Bans
  BY <1>1, <1>2
<1>5. ASSUME NEW j \in 1 .. n - 1 PROVE Step(w[j - 1], w[j], k[j], m, t)
  <2>1. j + 1 \in 1 .. n /\ j - 1 \in 0 .. n - 1 /\ j \in 0 .. n - 1 /\ (j - 1) + 1 = j /\ (j + 1) - 1 = j
    BY <1>2
  <2>2. w[j - 1] = v[j] /\ w[j] = v[j + 1] /\ k[j] = lines[j + 1]
    BY <1>2, <2>1
  <2>3. Step(v[(j + 1) - 1], v[j + 1], lines[j + 1], m, t)
    BY <1>1, <2>1
  <2> QED BY <2>1, <2>2, <2>3
<1> HIDE DEF w
<1>6. Learns(v[1], H, k, m, t)
  BY <1>2, <1>3, <1>4, <1>5 DEF Learns
<1>7. Step(F, v[1], Head(lines), m, t)
  <2>1. 1 \in 1 .. n /\ 1 - 1 = 0
    BY <1>2
  <2>2. Step(v[1 - 1], v[1], lines[1], m, t)
    BY <1>1, <2>1
  <2> QED BY <1>1, <1>2, <2>1, <2>2
<1> QED BY <1>4, <1>6, <1>7 DEF k

-----------------------------------------------------------------------------
(* The bans of the hub. *)

\* What the hub can know at time t, and what newserv keeps when it knows the same.
HubBans(t) ==
  {h \in [active : BOOLEAN, expire : Int, lastmod : Nat] :
    h.expire > t /\ h.lastmod <= h.expire /\ (h.lastmod = 0 => h.active)}

Copy(m, h) ==
  [mask |-> m, active |-> h.active, destroyed |-> FALSE,
   expire |-> h.expire, lastmod |-> h.lastmod, lifetime |-> h.expire]

Copies(m, h) == IF h = NULL THEN {} ELSE {Copy(m, h)}

LEMMA CopyBan ==
  ASSUME NEW t, NEW h \in HubBans(t), NEW m \in GlineMasks
  PROVE  Copy(m, h) \in Bans /\ Copy(m, h).mask = m
  BY DEF HubBans, Copy, Bans

LEMMA HubKnows ==
  ASSUME Gline!GlineAssumption, NEW t
  PROVE  NULL \notin HubBans(t)
  BY DEF Gline!GlineAssumption, HubBans

LEMMA CopiesBans ==
  ASSUME NEW t, NEW h \in {NULL} \cup HubBans(t), NEW m \in GlineMasks
  PROVE  Copies(m, h) \in SUBSET Bans
  BY CopyBan DEF Copies

LEMMA ToldLine ==
  ASSUME now \in Nat, NEW h \in HubBans(now), NEW m \in GlineMasks
  PROVE  /\ Gline!Told(m, h) \in Lines(now) /\ Gline!Told(m, h).mask = m
         /\ now + Gline!Told(m, h).duration = h.expire /\ Gline!Told(m, h).lastmod = h.lastmod
         /\ Gline!Told(m, h).op = IF h.active THEN "+" ELSE "-"
<1>1. h.expire - now \in Nat \ {0} /\ now + (h.expire - now) = h.expire /\ h.lastmod \in Nat
  BY DEF HubBans
<1> QED BY <1>1 DEF Gline!Told, Lines, HubBans

\* Bans of a mask that are at most as late as the one of the hub, and as long.
Behind(F, m, h) ==
  /\ \A g \in F : /\ g \in Bans /\ g.mask = m /\ g.expire = h.expire /\ g.lastmod <= h.lastmod
                  /\ ~h.active => g.lastmod # 0
  /\ \A g, k \in F : g = k

\* The hub's line makes them the one of the hub.
LEMMA ToldBehind ==
  ASSUME now \in Nat, NEW h \in HubBans(now), NEW m \in GlineMasks, NEW F, Behind(F, m, h)
  PROVE  Hears(F, {Copy(m, h)}, Gline!Told(m, h), now)
<1> DEFINE line == Gline!Told(m, h)
           c == Copy(m, h)
<1>1. /\ line \in Lines(now) /\ line.mask = m /\ now + line.duration = h.expire
      /\ line.lastmod = h.lastmod /\ line.op = IF h.active THEN "+" ELSE "-"
  BY ToldLine
<1>2. /\ c \in Bans /\ c.mask = m /\ c.active = h.active /\ c.expire = h.expire /\ c.lastmod = h.lastmod
      /\ c.lifetime = h.expire
  BY CopyBan DEF Copy
<1>3. h.lastmod \in Nat /\ h.active \in BOOLEAN /\ (h.lastmod = 0 => h.active)
  BY DEF HubBans
<1>4. BanOf(line, now) = [mask |-> m, active |-> TRUE, destroyed |-> FALSE, expire |-> h.expire,
                          lastmod |-> h.lastmod, lifetime |-> h.expire]
  BY <1>1 DEF BanOf
<1> DEFINE new == BanOf(line, now)
<1>5. /\ new \in Bans /\ new.mask = m /\ new.active = TRUE /\ new.expire = h.expire /\ new.lastmod = h.lastmod
  <2>1. new \in Bans
    BY <1>1, NewBan
  <2> QED BY <1>4, <2>1
<1> HIDE DEF new, line, c
<1>6. CASE h.active
  <2>1. line.op = "+"
    BY <1>1, <1>6
  <2>2. CASE \E g \in F : g.lastmod >= h.lastmod
    <3>1. PICK g \in F : g.lastmod >= h.lastmod
      BY <2>2
    <3>2. F = {g} /\ g \in Bans /\ g.mask = m /\ g.expire = h.expire /\ g.lastmod = h.lastmod
      <4>1. g.lastmod \in Nat
        BY DEF Behind, Bans
      <4> QED BY <1>3, <3>1, <4>1 DEF Behind
    <3> DEFINE x == [g EXCEPT !.active = TRUE]
    <3>3. x \in Bans /\ x.mask = m /\ x.active = TRUE /\ x.expire = h.expire /\ x.lastmod = h.lastmod
      BY <3>2 DEF Bans
    <3>4. Heard(F, line, now) = {x}
      BY <1>1, <2>1, <2>2, <3>2 DEF Heard
    <3> HIDE DEF x
    <3>5. x = c
      BY <1>2, <1>6, <3>3, SameBan
    <3> QED BY <2>1, <3>4, <3>5 DEF Hears, line, c
  <2>3. CASE ~\E g \in F : g.lastmod >= h.lastmod
    <3>1. Heard(F, line, now) = {new}
      BY <1>1, <2>1, <2>3 DEF Heard, new
    <3>2. new = c
      BY <1>2, <1>5, <1>6, SameBan
    <3> QED BY <2>1, <3>1, <3>2 DEF Hears, line, c
  <2> QED BY <2>2, <2>3
<1>7. CASE ~h.active
  <2>1. line.op = "-" /\ line.lastmod # 0 /\ \A g \in F : g.lastmod # 0
    BY <1>1, <1>3, <1>7 DEF Behind
  <2>2. CASE F = {}
    <3> DEFINE x == [new EXCEPT !.active = FALSE]
    <3>1. Heard(F, line, now) = {x}
      BY <2>1, <2>2 DEF Heard, new
    <3>2. x \in Bans /\ x.mask = m /\ x.active = FALSE /\ x.expire = h.expire /\ x.lastmod = h.lastmod
      BY <1>5 DEF Bans
    <3> HIDE DEF x
    <3>3. x = c
      BY <1>2, <1>3, <1>7, <3>2, SameBan
    <3> QED BY <2>1, <3>1, <3>3 DEF Hears, line, c
  <2>3. CASE F # {}
    <3>1. PICK g \in F : F = {g} /\ g \in Bans /\ g.mask = m /\ g.expire = h.expire
      BY <2>3 DEF Behind
    <3> DEFINE x == [g EXCEPT !.active = FALSE, !.lastmod = line.lastmod]
    <3>2. Heard(F, line, now) = {x}
      BY <2>1, <2>3, <3>1 DEF Heard
    <3>3. x \in Bans /\ x.mask = m /\ x.active = FALSE /\ x.expire = h.expire /\ x.lastmod = h.lastmod
      BY <1>1, <1>3, <3>1 DEF Bans
    <3> HIDE DEF x
    <3>4. x = c
      BY <1>2, <1>3, <1>7, <3>3, SameBan
    <3> QED BY <2>1, <3>2, <3>4 DEF Hears, line, c
  <2> QED BY <2>2, <2>3
<1> QED BY <1>6, <1>7

-----------------------------------------------------------------------------
(* Lists, lines and bans belong together. In what follows l is our list, hub what the hub knows, us *)
(* and them the lines on their way, and t the time.                                                 *)

HubTables(t) == [GlineMasks -> {NULL} \cup HubBans(t)]

\* What the hub has said makes our list what the hub knows.
Hearing(l, hub, us, t) ==
  us \in Seq(Lines(t)) /\ \A m \in GlineMasks : Learns(Standing(l, m, t), Copies(m, hub[m]), us, m, t)

\* Both know the same.
Same(l, hub, t) == \A m \in GlineMasks : Standing(l, m, t) = Copies(m, hub[m])

\* Our ban g, where the hub knows h.
Follows(g, h) ==
  /\ g.lastmod <= g.expire
  /\ h = NULL => g.lastmod # 0
  /\ h # NULL => h.expire = g.expire /\ h.lastmod <= g.lastmod /\ (h.lastmod = g.lastmod
        => h.active = g.active)

\* We say what has become of our ban g. For the other masks both know the same.
Tells(g, t) ==
  [op |-> IF g.active THEN "+" ELSE "-", mask |-> g.mask, duration |-> g.expire - t, lastmod |-> g.lastmod]

Saying(l, hub, g, t) ==
  /\ g \in Bans /\ Standing(l, g.mask, t) = {g} /\ Follows(g, hub[g.mask])
  /\ \A m \in GlineMasks : m # g.mask => Standing(l, m, t) = Copies(m, hub[m])

Tied(l, s, hub, us, them, t) ==
  /\ t \in Nat \ {0} /\ l \in BanLists /\ s \in BanLists /\ hub \in HubTables(t)
  /\ \/ them = <<>> /\ Hearing(l, hub, us, t)
     \/ us = <<>> /\ \E g \in Bans : them = <<Tells(g, t)>> /\ Saying(l, hub, g, t)

GlinesInv == Tied(glinelist, saved, hubbans, toUs, toHub, now)

LEMMA LiveBans ==
  ASSUME NEW l \in BanLists, NEW m, NEW t
  PROVE  Standing(l, m, t) \in SUBSET Bans
  BY LiveFacts

\* When nothing is on its way, both know the same.
LEMMA QuietSame ==
  ASSUME NEW t \in Nat, NEW l \in BanLists, NEW hub \in HubTables(t)
  PROVE  Hearing(l, hub, <<>>, t) <=> Same(l, hub, t)
<1>1. ASSUME NEW m \in GlineMasks
      PROVE  Learns(Standing(l, m, t), Copies(m, hub[m]), <<>>, m, t) <=> Standing(l, m, t) = Copies(m,
               hub[m])
  <2>1. Standing(l, m, t) \in SUBSET Bans
    BY LiveBans
  <2>2. hub[m] \in {NULL} \cup HubBans(t)
    BY DEF HubTables
  <2>3. Copies(m, hub[m]) \in SUBSET Bans
    BY <2>2, CopiesBans
  <2> QED BY <2>1, <2>3, LearnsNothing
<1>2. <<>> \in Seq(Lines(t))
  OBVIOUS
<1> QED BY <1>1, <1>2 DEF Hearing, Same

LEMMA TiedSame ==
  ASSUME NEW t \in Nat \ {0}, NEW l \in BanLists, NEW s \in BanLists, NEW hub \in HubTables(t), Same(l, hub,
           t)
  PROVE  Tied(l, s, hub, <<>>, <<>>, t)
<1>1. Hearing(l, hub, <<>>, t)
  BY QuietSame
<1> QED BY <1>1 DEF Tied

LEMMA QuietInv ==
  ASSUME GlinesInv, toHub = <<>>
  PROVE  /\ now \in Nat \ {0} /\ glinelist \in BanLists /\ saved \in BanLists /\ hubbans \in HubTables(now)
         /\ Hearing(glinelist, hubbans, toUs, now)
         /\ toUs = <<>> => Same(glinelist, hubbans, now)
<1>1. /\ now \in Nat \ {0} /\ glinelist \in BanLists /\ saved \in BanLists /\ hubbans \in HubTables(now)
      /\ Hearing(glinelist, hubbans, toUs, now)
  <2>1. \A x : <<x>> # <<>>
    OBVIOUS
  <2> QED BY <2>1 DEF GlinesInv, Tied
<1>2. ASSUME toUs = <<>> PROVE Same(glinelist, hubbans, now)
  <2>1. Hearing(glinelist, hubbans, <<>>, now) /\ now \in Nat
    BY <1>1, <1>2
  <2> QED BY <1>1, <2>1, QuietSame
<1> QED BY <1>1, <1>2

LEMMA GlinesStart ==
  ASSUME Gline!Init
  PROVE  GlinesInv
<1>1. /\ glinelist = <<>> /\ saved = <<>> /\ hubbans = [m \in GlineMasks |-> NULL]
      /\ toUs = <<>> /\ toHub = <<>> /\ now = 1
  BY DEF Gline!Init
<1>2. \A m \in GlineMasks : Standing(<<>>, m, 1) = Copies(m, [o \in GlineMasks |-> NULL][m])
  BY NoList DEF Standing, Lasting, Of, Copies
<1>3. Same(<<>>, [o \in GlineMasks |-> NULL], 1)
  BY <1>2 DEF Same
<1>4. [o \in GlineMasks |-> NULL] \in HubTables(1)
  BY DEF HubTables
<1>5. 1 \in Nat \ {0}
  OBVIOUS
<1>6. Tied(<<>>, <<>>, [o \in GlineMasks |-> NULL], <<>>, <<>>, 1)
  BY <1>3, <1>4, <1>5, NoList, TiedSame
<1> QED BY <1>1, <1>6 DEF GlinesInv

-----------------------------------------------------------------------------
(* Our own changes. *)

\* What is found, but not changed.
LEMMA FoundOnly ==
  ASSUME GlinesInv, Gline!MayChange, NEW r \in BanLists,
         \A m : Standing(r, m, now) = Standing(glinelist, m, now), Gline!Ours(r, <<>>)
  PROVE  GlinesInv'
<1>1. toHub = <<>> /\ toUs = <<>>
  BY DEF Gline!MayChange
<1>2. /\ glinelist' = r /\ toHub' = <<>> /\ saved' = saved /\ hubbans' = hubbans
      /\ toUs' = <<>> /\ now' = now
  BY <1>1 DEF Gline!Ours
<1>3. /\ now \in Nat \ {0} /\ saved \in BanLists /\ hubbans \in HubTables(now)
      /\ Same(glinelist, hubbans, now)
  BY <1>1, QuietInv
<1>4. Same(r, hubbans, now)
  BY <1>3 DEF Same
<1>5. Tied(r, saved, hubbans, <<>>, <<>>, now)
  BY <1>3, <1>4, TiedSame
<1> QED BY <1>2, <1>5 DEF GlinesInv

\* A ban g, with what is said of it.
LEMMA OwnBan ==
  ASSUME GlinesInv, Gline!MayChange, NEW r, NEW g \in Bans, Becomes(glinelist, r, g.mask, now, {g}),
         Follows(g, hubbans[g.mask]), Gline!Ours(r, Gline!gline_propagate(g))
  PROVE  GlinesInv'
<1>1. toHub = <<>> /\ toUs = <<>>
  BY DEF Gline!MayChange
<1>2. /\ glinelist' = r /\ toHub' = Gline!gline_propagate(g) /\ saved' = saved /\ hubbans' = hubbans
      /\ toUs' = <<>> /\ now' = now
  <2>1. <<>> \o Gline!gline_propagate(g) = Gline!gline_propagate(g)
    BY DEF Gline!gline_propagate
  <2> QED BY <1>1, <2>1 DEF Gline!Ours
<1>3. /\ now \in Nat \ {0} /\ saved \in BanLists /\ hubbans \in HubTables(now)
      /\ Same(glinelist, hubbans, now)
  BY <1>1, QuietInv
<1>4. /\ r \in BanLists /\ Standing(r, g.mask, now) = {g} /\ g.mask \in GlineMasks
      /\ \A m : m # g.mask => Standing(r, m, now) = Standing(glinelist, m, now)
  BY DEF Becomes, Bans
<1>5. \A m \in GlineMasks : m # g.mask => Standing(r, m, now) = Copies(m, hubbans[m])
  BY <1>3, <1>4 DEF Same
<1>6. CASE g.lastmod = 0
  <2>1. toHub' = <<>>
    BY <1>2, <1>6 DEF Gline!gline_propagate
  <2> DEFINE h == hubbans[g.mask]
  <2>2. h \in {NULL} \cup HubBans(now)
    BY <1>3, <1>4 DEF HubTables
  <2>3. h # NULL /\ h \in HubBans(now) /\ h.expire = g.expire /\ h.lastmod = 0 /\ h.active = g.active
    <3>1. h # NULL /\ h \in HubBans(now)
      BY <1>6, <2>2 DEF Follows
    <3>2. h.lastmod \in Nat
      BY <3>1 DEF HubBans
    <3> QED BY <1>6, <3>1, <3>2 DEF Follows
  <2>4. Copies(g.mask, h) = {g}
    <3>1. Copy(g.mask, h) \in Bans
      BY <1>4, <2>3, CopyBan
    <3> DEFINE c == Copy(g.mask, h)
    <3>2. c.mask = g.mask /\ c.active = g.active /\ c.expire = g.expire /\ c.lastmod = g.lastmod
      BY <1>6, <2>3 DEF Copy
    <3>3. Copies(g.mask, h) = {c}
      BY <2>3 DEF Copies
    <3> HIDE DEF c, h
    <3>4. c = g
      BY <3>1, <3>2, SameBan DEF c
    <3> QED BY <3>3, <3>4
  <2>5. Same(r, hubbans, now)
    BY <1>4, <1>5, <2>4 DEF Same
  <2>6. Tied(r, saved, hubbans, <<>>, <<>>, now)
    BY <1>3, <1>4, <2>5, TiedSame
  <2> QED BY <1>2, <2>1, <2>6 DEF GlinesInv
<1>7. CASE g.lastmod # 0
  <2>1. Gline!gline_propagate(g) = <<Tells(g, now)>>
    BY <1>7 DEF Gline!gline_propagate, Tells, Bans
  <2>2. Saying(r, hubbans, g, now)
    BY <1>4, <1>5 DEF Saying
  <2>3. Tied(r, saved, hubbans, <<>>, <<Tells(g, now)>>, now)
    BY <1>3, <1>4, <2>2 DEF Tied
  <2> QED BY <1>2, <2>1, <2>3 DEF GlinesInv
<1> QED BY <1>6, <1>7

\* The ban that the hub knows is in our list. If it is changed now, that is later.
LEMMA KnownBan ==
  ASSUME GlinesInv, Gline!MayChange, Gline!Early(glinelist), NEW k, NEW m \in GlineMasks,
         k \in Standing(glinelist, m, now)
  PROVE  /\ k \in Bans /\ k.mask = m /\ k.lifetime > now /\ hubbans[m] \in HubBans(now) /\ hubbans[m] # NULL
         /\ k = Copy(m, hubbans[m])
         /\ Gline!Larger(now, k.lastmod + 1) < k.expire
         /\ Gline!Lastmod(k, 0) > k.lastmod /\ Gline!Lastmod(k, 0) < k.expire /\ Gline!Lastmod(k, 0) \in Nat
<1>1. toHub = <<>> /\ toUs = <<>>
  BY DEF Gline!MayChange
<1>2. /\ now \in Nat \ {0} /\ glinelist \in BanLists /\ hubbans \in HubTables(now)
      /\ Same(glinelist, hubbans, now)
  BY <1>1, QuietInv
<1>3. k \in Bans /\ k.mask = m /\ k.lifetime > now
  BY <1>2, LiveFacts
<1>4. hubbans[m] # NULL /\ k = Copy(m, hubbans[m])
  BY <1>2 DEF Same, Copies
<1>5. hubbans[m] \in HubBans(now)
  BY <1>2, <1>4 DEF HubTables
<1>6. PICK i \in DOMAIN glinelist : k = glinelist[i]
  BY DEF Standing, Lasting, Of, InList
<1>7. k.lastmod \in Nat /\ k.lifetime \in Int
  BY <1>3 DEF Bans
<1>8. Gline!Larger(now, k.lastmod + 1) < k.expire
  BY <1>2, <1>3, <1>6, <1>7 DEF Gline!Early
<1>9. k.expire \in Int
  BY <1>3 DEF Bans
<1>10. Gline!Lastmod(k, 0) > k.lastmod /\ Gline!Lastmod(k, 0) < k.expire /\ Gline!Lastmod(k, 0) \in Nat
  BY <1>2, <1>7, <1>8, <1>9 DEF Gline!Lastmod, Gline!Larger
<1> QED BY <1>3, <1>4, <1>5, <1>8, <1>10

LEMMA CommitInv ==
  ASSUME Gline!GlineAssumption, GlinesInv, Gline!MayChange, Gline!Early(glinelist), NEW m \in GlineMasks,
         NEW d \in Durations, Gline!Commit(m, d)
  PROVE  GlinesInv'
<1> DEFINE n == Gline!NewGline(m, now + d, now, now + d)
           F == Standing(glinelist, m, now)
           r == Gline!glinebufcommit(glinelist, n)
           i == Gline!At(r, m)
<1>1. toHub = <<>> /\ toUs = <<>>
  BY DEF Gline!MayChange
<1>2. /\ now \in Nat /\ now # 0 /\ glinelist \in BanLists /\ hubbans \in HubTables(now)
      /\ Same(glinelist, hubbans, now)
  BY <1>1, QuietInv
<1>3. d \in Nat /\ d > 0
  BY DEF Gline!GlineAssumption
<1>4. /\ n \in Bans /\ n.mask = m /\ n.active = TRUE /\ n.lifetime > now /\ n.lastmod = now
           /\ n.expire = now + d
  <2> DEFINE e == now + d
  <2>1. e \in Int /\ e > now
    BY <1>2, <1>3
  <2>2. n = [mask |-> m, active |-> TRUE, destroyed |-> FALSE, expire |-> e, lastmod |-> now, lifetime |-> e]
    BY DEF Gline!NewGline
  <2> HIDE DEF e, n
  <2>3. /\ n \in Bans /\ n.mask = m /\ n.active = TRUE /\ n.lifetime > now /\ n.lastmod = now /\ n.expire = e
    BY <1>2, <2>1, <2>2 DEF Bans
  <2> QED BY <2>3 DEF e
<1>5. Becomes(glinelist, r, m, now, IF F = {} THEN {n} ELSE {Committed(h, n) : h \in F})
  <2>1. Becomes(glinelist, Gline!glinebufcommit(glinelist, n), n.mask, now,
                IF Standing(glinelist, n.mask, now) = {} THEN {n} ELSE {Committed(h, n) :
                      h \in Standing(glinelist,
                    n.mask, now)})
    <3> HIDE DEF n
    <3> QED BY <1>2, <1>4, CommittedList
  <2> QED BY <1>4, <2>1
<1>6. Gline!Ours(r, Gline!gline_propagate(r[i]))
  BY DEF Gline!Commit
<1> HIDE DEF n, r, i, F
<1>7. ASSUME NEW g \in Bans, g.mask = m, Becomes(glinelist, r, m, now, {g}), Follows(g, hubbans[m])
      PROVE  GlinesInv'
  <2>1. r \in BanLists /\ g \in Of(r, m)
    BY <1>7 DEF Becomes, Standing, Lasting
  <2>2. AtIs(r, m, i)
    BY <2>1, AtFacts DEF i
  <2>3. r[i] = g
    BY <2>1, <2>2 DEF AtIs
  <2> QED BY <1>6, <1>7, <2>3, OwnBan
<1>8. CASE F = {}
  <2>1. Becomes(glinelist, r, m, now, {n})
    BY <1>5, <1>8
  <2>2. hubbans[m] = NULL
    BY <1>2, <1>8 DEF Same, Copies, F
  <2>3. Follows(n, hubbans[m])
    BY <1>2, <1>3, <1>4, <2>2 DEF Follows
  <2> QED BY <1>4, <1>7, <2>1, <2>3
<1>9. CASE F # {}
  <2>1. PICK k \in F : F = {k}
    BY <1>2, <1>9, LiveFacts DEF F
  <2> DEFINE h == hubbans[m]
             g == Committed(k, n)
  <2>2. /\ k \in Bans /\ k.mask = m /\ h \in HubBans(now) /\ h # NULL /\ k = Copy(m, h)
        /\ Gline!Lastmod(k, 0) > k.lastmod /\ Gline!Lastmod(k, 0) < k.expire /\ Gline!Lastmod(k, 0) \in Nat
    BY <2>1, KnownBan DEF F
  <2>3. Becomes(glinelist, r, m, now, {g})
    BY <1>5, <1>9, <2>1
  <2>4. k.expire = h.expire /\ k.lastmod = h.lastmod /\ k.active = h.active
    BY <2>2 DEF Copy
  <2>5. h.lastmod <= h.expire /\ h.lastmod \in Nat /\ h.expire \in Int
    BY <2>2 DEF HubBans
  <2> HIDE DEF g, h
  <2>6. CASE k.active
    <3>1. g = k
      BY <1>4, <2>6 DEF Committed, g
    <3>2. Follows(g, h)
      BY <2>2, <2>4, <2>5, <3>1 DEF Follows
    <3> QED BY <1>7, <2>2, <2>3, <3>1, <3>2 DEF h
  <2>7. CASE ~k.active
    <3>1. g = Gline!gline_activate(k, 0)
      BY <1>4, <2>7 DEF Committed, g
    <3>2. /\ g = [k EXCEPT !.active = TRUE, !.lastmod = Gline!Lastmod(k, 0)]
          /\ g \in Bans /\ g.mask = m /\ g.expire = k.expire
      BY <1>2, <2>2, <3>1, ChangedBan
    <3>3. g.lastmod = Gline!Lastmod(k, 0)
      BY <2>2, <3>2 DEF Bans
    <3>4. g.expire = h.expire /\ g.lastmod \in Nat /\ h.lastmod < g.lastmod /\ g.lastmod < h.expire
      BY <2>2, <2>4, <3>2, <3>3
    <3>5. Follows(g, h)
      BY <2>2, <2>5, <3>4 DEF Follows
    <3> QED BY <1>7, <2>3, <3>2, <3>5 DEF h
  <2> QED BY <2>6, <2>7
<1> QED BY <1>8, <1>9

LEMMA GlineInv ==
  ASSUME Gline!GlineAssumption, GlinesInv, NEW m \in GlineMasks, NEW d \in Durations,
         Gline!glines_cmdgline(m, d) \/ Gline!glinebynick(m, d)
  PROVE  GlinesInv'
<1> DEFINE k == Gline!findgline(glinelist, m)
           i == Gline!At(k, m)
<1>1. Gline!MayChange /\ Gline!Early(glinelist)
  BY DEF Gline!glines_cmdgline, Gline!glinebynick
<1>2. Gline!Commit(m, d) \/ Gline!Ours(k, <<>>)
  BY DEF Gline!glines_cmdgline, Gline!glinebynick
<1>3. now \in Nat /\ glinelist \in BanLists
  BY DEF GlinesInv, Tied
<1>4. k \in BanLists /\ \A o : Standing(k, o, now) = Standing(glinelist, o, now)
  BY <1>3, FoundList
<1> HIDE DEF k
<1> QED BY <1>1, <1>2, <1>4, CommitInv, FoundOnly

LEMMA UnsetInv ==
  ASSUME GlinesInv, NEW m \in GlineMasks, NEW asks \in BOOLEAN, Gline!Unset(m, asks)
  PROVE  GlinesInv'
<1> DEFINE k == Gline!findgline(glinelist, m)
           i == Gline!At(k, m)
           g == Gline!gline_deactivate(k[i], 0)
           h == hubbans[m]
<1>1. Gline!MayChange /\ Gline!Early(glinelist)
  BY DEF Gline!Unset
<1>2. \/ Gline!Ours(k, <<>>)
      \/ i # 0 /\ Gline!Ours([k EXCEPT ![i] = g], IF k[i].lastmod = 0 THEN <<>> ELSE Gline!gline_propagate(g))
  BY DEF Gline!Unset
<1>3. now \in Nat /\ glinelist \in BanLists
  BY DEF GlinesInv, Tied
<1>4. /\ k \in BanLists /\ \A o : Standing(k, o, now) = Standing(glinelist, o, now)
      /\ Of(k, m) = Standing(glinelist, m, now)
  BY <1>3, FoundList
<1>5. CASE Gline!Ours(k, <<>>)
  <2> HIDE DEF k
  <2> QED BY <1>1, <1>4, <1>5, FoundOnly
<1>6. CASE i # 0 /\ Gline!Ours([k EXCEPT ![i] = g], IF k[i].lastmod = 0 THEN <<>>
        ELSE Gline!gline_propagate(g))
  <2>1. i \in 1 .. Len(k) /\ k[i] \in Bans /\ k[i].mask = m /\ Standing(glinelist, m, now) = {k[i]}
    BY <1>3, <1>4, <1>6, AtFound
  <2>2. k[i] \in Standing(glinelist, m, now)
    BY <2>1
  <2> DEFINE x == k[i]
  <2>3. /\ x \in Bans /\ x.mask = m /\ x.lifetime > now /\ h \in HubBans(now) /\ h # NULL /\ x = Copy(m, h)
        /\ Gline!Lastmod(x, 0) > x.lastmod /\ Gline!Lastmod(x, 0) < x.expire /\ Gline!Lastmod(x, 0) \in Nat
    BY <1>1, <2>2, KnownBan
  <2>4. g \in Bans /\ g.mask = m /\ g.expire = x.expire /\ g.lifetime > now
    <3>1. /\ Gline!gline_deactivate(x, 0) \in Bans /\ Gline!gline_deactivate(x, 0).mask = x.mask
          /\ Gline!gline_deactivate(x, 0).expire = x.expire /\ Gline!gline_deactivate(x,
              0).lifetime = x.lifetime
      <4> HIDE DEF x
      <4> QED BY <1>3, <2>3, ChangedBan
    <3> QED BY <2>3, <3>1
  <2>5. g = IF x.lastmod = 0 THEN x ELSE [x EXCEPT !.active = FALSE, !.lastmod = Gline!Lastmod(x, 0)]
    BY DEF Gline!gline_deactivate
  <2>6. Becomes(glinelist, [k EXCEPT ![i] = g], g.mask, now, {g})
    <3> HIDE DEF k, i, g, x
    <3>1. now \in Int /\ g.mask = k[i].mask
      BY <1>3, <2>1, <2>4
    <3>2. Becomes(k, [k EXCEPT ![i] = g], g.mask, now, {g})
      BY <1>4, <2>1, <2>4, <3>1, ReplacedLive
    <3> QED BY <1>4, <3>2, BecomesAgain
  <2>7. x.expire = h.expire /\ x.lastmod = h.lastmod /\ x.active = h.active
    BY <2>3 DEF Copy
  <2>8. h.lastmod <= h.expire /\ h.lastmod \in Nat /\ h.expire \in Int
    BY <2>3 DEF HubBans
  <2>9. Gline!Ours([k EXCEPT ![i] = g], IF x.lastmod = 0 THEN <<>> ELSE Gline!gline_propagate(g))
    BY <1>6
  <2> HIDE DEF k, i, g, x, h
  <2>10. Follows(g, h) /\ (x.lastmod = 0 => g = x)
    <3>1. CASE x.lastmod = 0
      BY <2>3, <2>5, <2>7, <2>8, <3>1 DEF Follows
    <3>2. CASE x.lastmod # 0
      <4>1. g.lastmod = Gline!Lastmod(x, 0)
        BY <2>3, <2>5, <3>2 DEF Bans
      <4> QED BY <2>3, <2>4, <2>7, <2>8, <3>2, <4>1 DEF Follows
    <3> QED BY <3>1, <3>2
  <2>11. Gline!Ours([k EXCEPT ![i] = g], Gline!gline_propagate(g))
    <3>1. CASE x.lastmod = 0
      <4>1. Gline!gline_propagate(g) = <<>>
        BY <2>10, <3>1 DEF Gline!gline_propagate
      <4> QED BY <2>9, <3>1, <4>1
    <3>2. CASE x.lastmod # 0
      BY <2>9, <3>2
    <3> QED BY <3>1, <3>2
  <2>12. Follows(g, hubbans[g.mask])
    BY <2>4, <2>10 DEF h
  <2> QED BY <1>1, <2>4, <2>6, <2>11, <2>12, OwnBan
<1> QED BY <1>2, <1>5, <1>6

-----------------------------------------------------------------------------
(* What the hub says, and what is made of it. *)

LEMMA HubSaysInv ==
  ASSUME Gline!GlineAssumption, GlinesInv, NEW m \in GlineMasks, NEW g \in {NULL} \cup HubBans(now),
         NEW line \in Lines(now), line.mask = m, Gline!HubSays(m, g, line),
         Hears(Copies(m, hubbans[m]), Copies(m, g), line, now)
  PROVE  GlinesInv'
<1>1. /\ toHub = <<>> /\ hubbans' = [hubbans EXCEPT ![m] = g] /\ toUs' = Append(toUs, line)
      /\ glinelist' = glinelist /\ saved' = saved /\ toHub' = toHub /\ now' = now
  BY DEF Gline!HubSays, Gline!HubMay
<1>2. /\ now \in Nat \ {0} /\ glinelist \in BanLists /\ saved \in BanLists /\ hubbans \in HubTables(now)
      /\ Hearing(glinelist, hubbans, toUs, now)
  BY <1>1, QuietInv
<1> DEFINE hub == [hubbans EXCEPT ![m] = g]
<1>3. hub \in HubTables(now) /\ hub[m] = g /\ \A o \in GlineMasks : o # m => hub[o] = hubbans[o]
  BY <1>2 DEF HubTables
<1> HIDE DEF hub
<1>4. toUs \in Seq(Lines(now)) /\ Append(toUs, line) \in Seq(Lines(now))
  BY <1>2 DEF Hearing
<1>5. ASSUME NEW o \in GlineMasks
      PROVE  Learns(Standing(glinelist, o, now), Copies(o, hub[o]), Append(toUs, line), o, now)
  <2>1. Learns(Standing(glinelist, o, now), Copies(o, hubbans[o]), toUs, o, now)
    BY <1>2 DEF Hearing
  <2>2. Copies(o, hub[o]) \in SUBSET Bans
    <3>1. hub[o] \in {NULL} \cup HubBans(now)
      BY <1>3 DEF HubTables
    <3> QED BY <3>1, CopiesBans
  <2>3. Step(Copies(o, hubbans[o]), Copies(o, hub[o]), line, o, now)
    <3>1. CASE o = m
      BY <1>3, <3>1 DEF Step
    <3>2. CASE o # m
      BY <1>3, <3>2 DEF Step
    <3> QED BY <3>1, <3>2
  <2> QED BY <1>4, <2>1, <2>2, <2>3, LearnsLine
<1>6. Hearing(glinelist, hub, Append(toUs, line), now)
  BY <1>4, <1>5 DEF Hearing
<1>7. Tied(glinelist, saved, hub, Append(toUs, line), <<>>, now)
  BY <1>2, <1>3, <1>6 DEF Tied
<1> QED BY <1>1, <1>7 DEF GlinesInv, hub

\* The hub says what it knows now.
LEMMA HubTellsInv ==
  ASSUME Gline!GlineAssumption, GlinesInv, NEW m \in GlineMasks, NEW g \in HubBans(now),
         Behind(Copies(m, hubbans[m]), m, g), Gline!HubSays(m, g, Gline!Told(m, g))
  PROVE  GlinesInv'
<1>1. now \in Nat
  BY DEF GlinesInv, Tied
<1>2. Copies(m, g) = {Copy(m, g)}
  BY HubKnows DEF Copies
<1>3. Hears(Copies(m, hubbans[m]), Copies(m, g), Gline!Told(m, g), now)
  BY <1>1, <1>2, ToldBehind
<1>4. Gline!Told(m, g) \in Lines(now) /\ Gline!Told(m, g).mask = m
  BY <1>1, ToldLine
<1> QED BY <1>3, <1>4, HubSaysInv

\* A later change of what the hub knows.
LEMMA LaterBan ==
  ASSUME Gline!GlineAssumption, now \in Nat \ {0}, NEW m \in GlineMasks, hubbans[m] # NULL,
         hubbans[m] \in HubBans(now), NEW t \in Gline!Later(m), NEW on \in BOOLEAN,
         hubbans[m].lastmod # 0 \/ on
  PROVE  LET g == [hubbans[m] EXCEPT !.active = on, !.lastmod = t] IN
           /\ g \in HubBans(now) /\ Behind(Copies(m, hubbans[m]), m, g)
           /\ t \in Nat
<1> DEFINE h == hubbans[m]
           g == [h EXCEPT !.active = on, !.lastmod = t]
           c == Copy(m, h)
<1>1. /\ h.active \in BOOLEAN /\ h.expire \in Int /\ h.lastmod \in Nat /\ h.expire > now
      /\ h \in [active : BOOLEAN, expire : Int, lastmod : Nat]
  BY DEF HubBans
<1>2. t \in Nat /\ t # 0 /\ t > h.lastmod /\ t < h.expire
  BY DEF Gline!Later, Gline!GlineAssumption
<1>3. c \in Bans /\ c.mask = m /\ c.expire = h.expire /\ c.lastmod = h.lastmod
  BY CopyBan DEF Copy
<1>4. Copies(m, h) = {c}
  BY DEF Copies
<1>5. h.lastmod # 0 \/ on
  OBVIOUS
<1> HIDE DEF h, c
<1>6. g \in [active : BOOLEAN, expire : Int, lastmod : Nat] /\ g.active = on /\ g.expire = h.expire
        /\ g.lastmod = t
  BY <1>1, <1>2
<1> HIDE DEF g
<1>7. g \in HubBans(now)
  BY <1>1, <1>2, <1>6 DEF HubBans
<1>8. Behind(Copies(m, h), m, g)
  BY <1>1, <1>2, <1>3, <1>4, <1>5, <1>6 DEF Behind
<1> QED BY <1>2, <1>7, <1>8 DEF g, h

LEMMA HubSetsInv ==
  ASSUME Gline!GlineAssumption, GlinesInv, NEW m \in GlineMasks, Gline!HubSets(m)
  PROVE  GlinesInv'
<1>1. now \in Nat \ {0} /\ hubbans \in HubTables(now)
  BY DEF GlinesInv, Tied
<1>2. ASSUME hubbans[m] = NULL, NEW d \in Durations,
             NEW t \in Gline!Later(m) \cup (IF Ulined THEN {0} ELSE {}),
             LET g == [active |-> TRUE, expire |-> now + d, lastmod |-> t] IN Gline!HubSays(m, g,
                 Gline!Told(m, g))
      PROVE  GlinesInv'
  <2> DEFINE g == [active |-> TRUE, expire |-> now + d, lastmod |-> t]
  <2>1. d \in Nat /\ d > 0 /\ Ahead \in Nat /\ Ahead <= d
    BY DEF Gline!GlineAssumption
  <2>2. t \in Nat /\ t <= now + d
    <3>1. t = 0 \/ t \in now .. now + Ahead
      BY <1>2 DEF Gline!Later
    <3> QED BY <1>1, <2>1, <3>1
  <2>3. g \in HubBans(now)
    <3>1. now + d > now /\ now + d \in Int
      BY <1>1, <2>1
    <3> QED BY <2>2, <3>1 DEF HubBans
  <2>4. Behind(Copies(m, hubbans[m]), m, g)
    BY <1>2 DEF Behind, Copies
  <2>5. Gline!HubSays(m, g, Gline!Told(m, g))
    BY <1>2
  <2> HIDE DEF g
  <2> QED BY <2>3, <2>4, <2>5, HubTellsInv
<1>3. ASSUME hubbans[m] # NULL, ~hubbans[m].active, NEW t \in Gline!Later(m),
             LET g == [hubbans[m] EXCEPT !.active = TRUE, !.lastmod = t] IN Gline!HubSays(m, g, Gline!Told(m,
                 g))
      PROVE  GlinesInv'
  <2> DEFINE g == [hubbans[m] EXCEPT !.active = TRUE, !.lastmod = t]
  <2>1. hubbans[m] \in HubBans(now)
    BY <1>1, <1>3 DEF HubTables
  <2>2. g \in HubBans(now) /\ Behind(Copies(m, hubbans[m]), m, g)
    BY <1>1, <1>3, <2>1, LaterBan
  <2>3. Gline!HubSays(m, g, Gline!Told(m, g))
    BY <1>3
  <2> HIDE DEF g
  <2> QED BY <2>2, <2>3, HubTellsInv
<1> QED BY <1>2, <1>3 DEF Gline!HubSets

LEMMA HubUnsetsInv ==
  ASSUME Gline!GlineAssumption, GlinesInv, NEW m \in GlineMasks, Gline!HubUnsets(m)
  PROVE  GlinesInv'
<1> DEFINE h == hubbans[m]
<1>1. now \in Nat \ {0} /\ hubbans \in HubTables(now)
  BY DEF GlinesInv, Tied
<1>2. h # NULL /\ h.lastmod # 0
  BY DEF Gline!HubUnsets
<1>3. PICK t \in Gline!Later(m) :
        LET g == [hubbans[m] EXCEPT !.active = FALSE, !.lastmod = t] IN
          \/ Gline!HubSays(m, g, Gline!Told(m, g))
          \/ Gline!HubSays(m, NULL, [Gline!Told(m, g) EXCEPT !.op = "%-"])
  BY DEF Gline!HubUnsets
<1> DEFINE g == [hubbans[m] EXCEPT !.active = FALSE, !.lastmod = t]
           line == [Gline!Told(m, g) EXCEPT !.op = "%-"]
<1>4. h \in HubBans(now)
  BY <1>1, <1>2 DEF HubTables
<1>5. g \in HubBans(now) /\ Behind(Copies(m, h), m, g)
  BY <1>1, <1>2, <1>4, LaterBan
<1>6. Gline!HubSays(m, g, Gline!Told(m, g)) \/ Gline!HubSays(m, NULL, line)
  BY <1>3
<1>7. line \in Lines(now) /\ line.mask = m /\ line.op = "%-"
  <2> HIDE DEF g
  <2>1. Gline!Told(m, g) \in Lines(now) /\ Gline!Told(m, g).mask = m
    BY <1>1, <1>5, ToldLine
  <2> QED BY <2>1 DEF Lines
<1>8. Hears(Copies(m, h), Copies(m, NULL), line, now)
  <2>1. Copies(m, h) = {Copy(m, h)} /\ Copy(m, h).lastmod = h.lastmod
    BY <1>2 DEF Copies, Copy
  <2> HIDE DEF line, h
  <2> QED BY <1>2, <1>7, <2>1 DEF Hears, Heard, Copies
<1> HIDE DEF g, line
<1> QED BY <1>5, <1>6, <1>7, <1>8, HubTellsInv, HubSaysInv

LEMMA HubRemovesInv ==
  ASSUME Gline!GlineAssumption, GlinesInv, NEW m \in GlineMasks, Gline!HubRemoves(m)
  PROVE  GlinesInv'
<1> DEFINE h == hubbans[m]
           line == [Gline!Told(m, h) EXCEPT !.op = "remove"]
<1>1. now \in Nat /\ hubbans \in HubTables(now)
  BY DEF GlinesInv, Tied
<1>2. h # NULL /\ Gline!HubSays(m, NULL, line)
  BY DEF Gline!HubRemoves
<1>3. h \in HubBans(now)
  BY <1>1, <1>2 DEF HubTables
<1>4. line \in Lines(now) /\ line.mask = m /\ line.op = "remove"
  <2>1. Gline!Told(m, h) \in Lines(now) /\ Gline!Told(m, h).mask = m
    BY <1>1, <1>3, ToldLine
  <2> QED BY <2>1 DEF Lines
<1> HIDE DEF line
<1>5. Hears(Copies(m, h), Copies(m, NULL), line, now)
  BY <1>4 DEF Hears, Heard, Copies
<1> QED BY <1>2, <1>4, <1>5, HubSaysInv

LEMMA HandleLineInv ==
  ASSUME GlinesInv, Gline!handleglinemsg
  PROVE  GlinesInv'
<1> DEFINE line == Head(toUs)
           r == IF line.op = "+" THEN Gline!Activated(glinelist, line) ELSE Gline!Deactivated(glinelist, line)
           F == Standing(glinelist, line.mask, now)
<1>1. /\ toUs # <<>> /\ glinelist' = r /\ toUs' = Tail(toUs) /\ saved' = saved /\ hubbans' = hubbans
      /\ toHub' = toHub /\ now' = now
  BY DEF Gline!handleglinemsg
<1>2. toHub = <<>>
  BY <1>1 DEF GlinesInv, Tied
<1>3. /\ now \in Nat \ {0} /\ glinelist \in BanLists /\ saved \in BanLists /\ hubbans \in HubTables(now)
      /\ toUs \in Seq(Lines(now))
      /\ \A m \in GlineMasks : Learns(Standing(glinelist, m, now), Copies(m, hubbans[m]), toUs, m, now)
  BY <1>2, QuietInv DEF Hearing
<1>4. line \in Lines(now) /\ Tail(toUs) \in Seq(Lines(now))
  BY <1>1, <1>3
<1>5. line.mask \in GlineMasks
  BY <1>4 DEF Lines
<1>6. \A m \in GlineMasks : \E G \in SUBSET Bans :
        Step(Standing(glinelist, m, now), G, line, m, now) /\ Learns(G, Copies(m, hubbans[m]), Tail(toUs), m,
            now)
  BY <1>1, <1>3, LearnsHead
<1> HIDE DEF line
<1>7. PICK G \in SUBSET Bans :
        Hears(F, G, line, now) /\ Learns(G, Copies(line.mask, hubbans[line.mask]), Tail(toUs), line.mask, now)
  BY <1>5, <1>6 DEF Step
<1>8. Becomes(glinelist, r, line.mask, now, G)
  <2>1. CASE line.op = "+"
    <3>1. G = Heard(F, line, now)
      BY <1>7 DEF Hears
    <3> QED BY <1>3, <1>4, <2>1, <3>1, ActivatedList
  <2>2. CASE line.op # "+"
    BY <1>3, <1>4, <1>7, <2>2, DeactivatedList
  <2> QED BY <2>1, <2>2
<1> HIDE DEF r, F
<1>9. ASSUME NEW m \in GlineMasks
      PROVE  Learns(Standing(r, m, now), Copies(m, hubbans[m]), Tail(toUs), m, now)
  <2>1. CASE m = line.mask
    BY <1>7, <1>8, <2>1 DEF Becomes
  <2>2. CASE m # line.mask
    BY <1>6, <1>8, <2>2 DEF Becomes, Step
  <2> QED BY <2>1, <2>2
<1>10. Hearing(r, hubbans, Tail(toUs), now)
  BY <1>4, <1>9 DEF Hearing
<1>11. r \in BanLists
  BY <1>8 DEF Becomes
<1>12. Tied(r, saved, hubbans, Tail(toUs), <<>>, now)
  BY <1>3, <1>10, <1>11 DEF Tied
<1> QED BY <1>1, <1>2, <1>12 DEF GlinesInv

LEMMA HubHearsInv ==
  ASSUME Gline!GlineAssumption, GlinesInv, Gline!HubHears
  PROVE  GlinesInv'
<1>1. toHub # <<>>
  BY DEF Gline!HubHears
<1>2. PICK g \in Bans : toHub = <<Tells(g, now)>> /\ Saying(glinelist, hubbans, g, now)
  BY <1>1 DEF GlinesInv, Tied
<1>3. /\ now \in Nat \ {0} /\ glinelist \in BanLists /\ saved \in BanLists /\ hubbans \in HubTables(now)
      /\ toUs = <<>>
  BY <1>1 DEF GlinesInv, Tied
<1> DEFINE m == g.mask
           h == hubbans[m]
           line == Tells(g, now)
           new == [active |-> g.active, expire |-> g.expire, lastmod |-> g.lastmod]
           hub == [hubbans EXCEPT ![m] = new]
<1>4. /\ g.mask \in GlineMasks /\ g.active \in BOOLEAN /\ g.expire \in Int /\ g.lastmod \in Nat
      /\ g.lifetime = g.expire
  BY DEF Bans
<1>5. /\ line.mask = m /\ now + line.duration = g.expire /\ line.lastmod = g.lastmod
      /\ (line.op = "+") = g.active
  BY <1>3, <1>4 DEF Tells
<1>6. /\ Standing(glinelist, m, now) = {g} /\ Follows(g, h)
      /\ \A o \in GlineMasks : o # m => Standing(glinelist, o, now) = Copies(o, hubbans[o])
  BY <1>2 DEF Saying
<1>7. Head(toHub) = line /\ Tail(toHub) = <<>>
  BY <1>2
<1>8. h \in {NULL} \cup HubBans(now)
  BY <1>3, <1>4 DEF HubTables
<1>9. /\ glinelist' = glinelist /\ saved' = saved /\ now' = now /\ toHub' = <<>>
      /\ h = NULL => hubbans' = hub /\ toUs' = toUs
      /\ h # NULL => /\ hubbans' = IF line.lastmod > h.lastmod
                                   THEN [hubbans EXCEPT ![m].active = g.active, ![m].lastmod = g.lastmod]
                                   ELSE hubbans
                     /\ line.lastmod < h.lastmod \/ toUs' = toUs
  <2> HIDE DEF line, m
  <2> QED BY <1>5, <1>7 DEF Gline!HubHears
<1>10. g.expire > now
  <2>1. g.lifetime > now
    BY <1>3, <1>6, LiveFacts
  <2> QED BY <1>4, <2>1
<1>11. h # NULL => h \in HubBans(now) /\ h.expire = g.expire /\ h.lastmod \in Nat /\ h.lastmod <= g.lastmod
                   /\ (h.lastmod = g.lastmod => h.active = g.active)
  BY <1>6, <1>8 DEF Follows, HubBans
<1>12. toUs' = <<>> /\ (hubbans' = hub \/ (h # NULL /\ h.lastmod = g.lastmod /\ hubbans' = hubbans))
  <2>1. CASE h = NULL
    <3> HIDE DEF h, hub, line
    <3> QED BY <1>3, <1>9, <2>1
  <2>2. CASE h # NULL /\ line.lastmod > h.lastmod
    <3>1. [hubbans EXCEPT ![m].active = g.active, ![m].lastmod = g.lastmod] = hub
      <4>1. h \in [active : BOOLEAN, expire : Int, lastmod : Nat] /\ h.expire = g.expire
        BY <1>11, <2>2 DEF HubBans
      <4>2. [h EXCEPT !.active = g.active, !.lastmod = g.lastmod] = new
        <5> DEFINE x == [h EXCEPT !.active = g.active, !.lastmod = g.lastmod]
        <5>1. x \in [active : BOOLEAN, expire : Int, lastmod : Nat] /\ new \in [active : BOOLEAN, expire :
                Int, lastmod : Nat]
          BY <1>4, <4>1
        <5>2. x.active = g.active /\ x.expire = g.expire /\ x.lastmod = g.lastmod
          BY <4>1
        <5>3. x = [active |-> x.active, expire |-> x.expire, lastmod |-> x.lastmod]
          <6> HIDE DEF x
          <6> QED BY <5>1
        <5> HIDE DEF x
        <5> QED BY <5>2, <5>3 DEF x
      <4>3. [hubbans EXCEPT ![m].active = g.active, ![m].lastmod = g.lastmod] =
            [hubbans EXCEPT ![m] = [h EXCEPT !.active = g.active, !.lastmod = g.lastmod]]
        BY <1>3, <1>4 DEF HubTables
      <4> QED BY <4>2, <4>3
    <3>2. ~(line.lastmod < h.lastmod)
      BY <1>4, <1>5, <1>11, <2>2
    <3> HIDE DEF h, hub, line, new, m
    <3> QED BY <1>3, <1>9, <2>2, <3>1, <3>2
  <2>3. CASE h # NULL /\ ~(line.lastmod > h.lastmod)
    <3>1. line.lastmod = h.lastmod
      BY <1>4, <1>5, <1>11, <2>3
    <3>2. ~(line.lastmod < h.lastmod) /\ h.lastmod = g.lastmod
      BY <1>4, <1>5, <1>11, <3>1
    <3> QED BY <1>3, <1>9, <2>3, <3>2
  <2> QED BY <2>1, <2>2, <2>3
<1>13. hubbans' = hub
  <2>1. CASE h # NULL /\ h.lastmod = g.lastmod /\ hubbans' = hubbans
    <3>1. h \in [active : BOOLEAN, expire : Int, lastmod : Nat] /\ h.expire = g.expire /\ h.active = g.active
      BY <1>11, <2>1 DEF HubBans
    <3>2. h = [active |-> h.active, expire |-> h.expire, lastmod |-> h.lastmod]
      <4> HIDE DEF h
      <4> QED BY <3>1
    <3>3. h = new
      BY <2>1, <3>1, <3>2
    <3>4. [hubbans EXCEPT ![m] = h] = hubbans
      BY <1>3, <1>4 DEF HubTables
    <3> QED BY <2>1, <3>3, <3>4
  <2> QED BY <1>12, <2>1
<1>14. new \in HubBans(now)
  <2>1. g.lastmod # 0 \/ g.active
    <3>1. CASE h = NULL
      BY <1>6, <3>1 DEF Follows
    <3>2. CASE h # NULL
      <4>1. h.lastmod = 0 => h.active
        BY <1>11, <3>2 DEF HubBans
      <4> QED BY <1>4, <1>11, <3>2, <4>1
    <3> QED BY <3>1, <3>2
  <2>2. g.lastmod <= g.expire
    BY <1>6 DEF Follows
  <2> QED BY <1>4, <1>10, <2>1, <2>2 DEF HubBans
<1>15. Copies(m, new) = {g}
  <2>1. new # NULL
    BY <1>14, HubKnows
  <2> DEFINE c == Copy(m, new)
  <2>2. c \in Bans
    BY <1>4, <1>14, CopyBan
  <2>3. c.mask = g.mask /\ c.active = g.active /\ c.expire = g.expire /\ c.lastmod = g.lastmod
    BY DEF Copy
  <2>4. Copies(m, new) = {c}
    BY <2>1 DEF Copies
  <2> HIDE DEF c, new
  <2>5. c = g
    BY <2>2, <2>3, SameBan
  <2> QED BY <2>4, <2>5
<1>16. hub \in HubTables(now) /\ hub[m] = new /\ \A o \in GlineMasks : o # m => hub[o] = hubbans[o]
  <2> HIDE DEF new
  <2> QED BY <1>3, <1>4, <1>14 DEF HubTables
<1> HIDE DEF hub, new
<1>17. Same(glinelist, hub, now)
  BY <1>6, <1>15, <1>16 DEF Same
<1>18. Tied(glinelist, saved, hub, <<>>, <<>>, now)
  BY <1>3, <1>16, <1>17, TiedSame
<1> QED BY <1>9, <1>12, <1>13, <1>18 DEF GlinesInv

-----------------------------------------------------------------------------
(* The file, lost links and time. *)

LEMMA SaveInv ==
  ASSUME GlinesInv, Gline!glstore_save
  PROVE  GlinesInv'
<1>1. /\ saved' = glinelist /\ glinelist' = glinelist /\ hubbans' = hubbans /\ toUs' = toUs
      /\ toHub' = toHub /\ now' = now
  BY DEF Gline!glstore_save
<1>2. Tied(glinelist, glinelist, hubbans, toUs, toHub, now)
  BY DEF GlinesInv, Tied
<1> QED BY <1>1, <1>2 DEF GlinesInv

\* A burst makes the bans of a mask the one of the hub, if they are behind it.
LEMMA BurstLearns ==
  ASSUME Gline!GlineAssumption, now \in Nat, hubbans \in HubTables(now), NEW N \in Nat,
         NEW f \in [1 .. N -> Gline!Known], Gline!Known \subseteq Gline!Range(f),
         NEW l \in BanLists, \A i \in DOMAIN l : l[i].lifetime > now => Gline!Remembered(l[i])
  PROVE  Hearing(l, hubbans, Gline!Burst(f), now)
<1> DEFINE b == Gline!Burst(f)
           K == Gline!Known
<1>1. \A m \in K : m \in GlineMasks /\ hubbans[m] # NULL /\ hubbans[m] \in HubBans(now)
  BY DEF Gline!Known, HubTables
<1>2. b = [i \in 1 .. N |-> Gline!Told(f[i], hubbans[f[i]])]
  BY DEF Gline!Burst
<1>3. \A i \in 1 .. N : f[i] \in K
  OBVIOUS
<1> HIDE DEF K, b
<1>4. \A i \in 1 .. N : b[i] \in Lines(now) /\ b[i].mask = f[i]
  BY <1>1, <1>2, <1>3, ToldLine
<1>5. b \in Seq(Lines(now)) /\ Len(b) = N
  BY <1>2, <1>4
<1>6. ASSUME NEW m \in GlineMasks
      PROVE  Learns(Standing(l, m, now), Copies(m, hubbans[m]), b, m, now)
  <2> DEFINE F == Standing(l, m, now)
             C == Copies(m, hubbans[m])
             v == [j \in 0 .. N |-> IF \E i \in 1 .. j : f[i] = m THEN C ELSE F]
  <2>1. F \in SUBSET Bans
    BY LiveBans
  <2>2. C \in SUBSET Bans
    <3>1. hubbans[m] \in {NULL} \cup HubBans(now)
      BY DEF HubTables
    <3> QED BY <3>1, CopiesBans
  <2>3. ASSUME NEW g \in F
        PROVE  /\ g \in Bans /\ g.mask = m /\ m \in K /\ g.expire = hubbans[m].expire
               /\ g.lastmod <= hubbans[m].lastmod /\ g.lastmod # 0
    <3>1. g \in Bans /\ g.mask = m /\ g.lifetime > now
      BY LiveFacts
    <3>2. PICK i \in DOMAIN l : g = l[i]
      BY DEF Standing, Lasting, Of, InList
    <3>3. Gline!Remembered(g)
      BY <3>1, <3>2
    <3>4. g.lastmod \in Nat /\ hubbans[m] # NULL
      BY <3>1, <3>3 DEF Gline!Remembered, Bans
    <3>5. hubbans[m].lastmod >= g.lastmod /\ hubbans[m] \in HubBans(now)
      BY <3>1, <3>3, <3>4 DEF Gline!Remembered, HubTables
    <3>6. m \in K
      BY <3>4 DEF K, Gline!Known
    <3>7. g.lastmod <= hubbans[m].lastmod
      BY <3>4, <3>5 DEF HubBans
    <3> QED BY <3>1, <3>3, <3>6, <3>7 DEF Gline!Remembered
  <2>4. v \in [0 .. N -> SUBSET Bans]
    <3> HIDE DEF F, C
    <3> QED BY <2>1, <2>2
  <2>5. v[0] = F
    BY DEF v
  <2>6. v[N] = C
    <3>1. CASE m \in K
      <4>1. \E i \in 1 .. N : f[i] = m
        BY <3>1 DEF Gline!Range, K
      <4> QED BY <4>1
    <3>2. CASE m \notin K
      <4>1. F = {}
        BY <2>3, <3>2
      <4>2. C = {}
        BY <3>2 DEF K, Gline!Known, Copies
      <4> QED BY <4>1, <4>2
    <3> QED BY <3>1, <3>2
  <2>7. ASSUME NEW j \in 1 .. N PROVE Step(v[j - 1], v[j], b[j], m, now)
    <3>1. j - 1 \in 0 .. N /\ j \in 0 .. N /\ 1 .. j = (1 .. j - 1) \cup {j}
      OBVIOUS
    <3>2. v[j - 1] \in {C, F} /\ v[j] = IF f[j] = m THEN C ELSE v[j - 1]
      <4> HIDE DEF F, C
      <4> QED BY <3>1
    <3> HIDE DEF v
    <3>3. CASE f[j] # m
      BY <1>4, <3>2, <3>3 DEF Step
    <3>4. CASE f[j] = m
      <4> DEFINE h == hubbans[m]
      <4>1. h # NULL /\ h \in HubBans(now) /\ b[j] = Gline!Told(m, h)
        BY <1>1, <1>2, <1>3, <3>4
      <4>2. C = {Copy(m, h)}
        BY <4>1 DEF Copies
      <4>3. Behind(F, m, h)
        BY <2>3, LiveFacts DEF Behind
      <4>4. Behind(C, m, h)
        <5>1. Copy(m, h) \in Bans /\ Copy(m, h).mask = m
          BY <4>1, CopyBan
        <5>2. Copy(m, h).expire = h.expire /\ Copy(m, h).lastmod = h.lastmod
          BY DEF Copy
        <5>3. h.lastmod \in Nat /\ (h.lastmod = 0 => h.active)
          BY <4>1 DEF HubBans
        <5> HIDE DEF C
        <5> QED BY <4>2, <5>1, <5>2, <5>3 DEF Behind
      <4>5. Behind(v[j - 1], m, h)
        <5> HIDE DEF F, C, h
        <5> QED BY <3>2, <4>3, <4>4
      <4>6. Hears(v[j - 1], C, b[j], now)
        <5> HIDE DEF h, C
        <5> QED BY <4>1, <4>2, <4>5, ToldBehind
      <4> QED BY <1>4, <3>2, <3>4, <4>6 DEF Step
    <3> QED BY <3>3, <3>4
  <2> HIDE DEF v, F, C
  <2>8. Learns(F, C, b, m, now)
    BY <1>5, <2>4, <2>5, <2>6, <2>7 DEF Learns
  <2> QED BY <2>8 DEF F, C
<1> QED BY <1>5, <1>6 DEF Hearing, b

LEMMA AwayInv ==
  ASSUME Gline!GlineAssumption, GlinesInv, NEW l \in BanLists, Gline!Away(l)
  PROVE  GlinesInv'
<1>1. /\ toHub = <<>> /\ glinelist' = l /\ saved' = saved /\ hubbans' = hubbans /\ toHub' = toHub
      /\ now' = now
      /\ \A i \in DOMAIN l : l[i].lifetime > now => Gline!Remembered(l[i])
  BY DEF Gline!Away
<1>2. PICK f \in Gline!Orders : toUs' = Gline!Burst(f)
  BY DEF Gline!Away
<1>3. now \in Nat \ {0} /\ saved \in BanLists /\ hubbans \in HubTables(now)
  BY DEF GlinesInv, Tied
<1>4. PICK N \in Nat : N = Gline!Cardinality(Gline!Known)
  <2>1. IsFiniteSet(GlineMasks) /\ Gline!Known \subseteq GlineMasks
    BY DEF Gline!GlineAssumption, Gline!IsFiniteSet, IsFiniteSet, Gline!Known
  <2>2. IsFiniteSet(Gline!Known)
    BY <2>1, FS_Subset
  <2>3. Cardinality(Gline!Known) \in Nat
    BY <2>2, FS_CardinalityType
  <2> QED BY <2>3 DEF Cardinality, Gline!Cardinality
<1>5. f \in [1 .. N -> Gline!Known] /\ Gline!Range(f) = Gline!Known
  BY <1>2, <1>4 DEF Gline!Orders
<1>6. Hearing(l, hubbans, Gline!Burst(f), now)
  BY <1>1, <1>3, <1>5, BurstLearns
<1>7. Tied(l, saved, hubbans, Gline!Burst(f), <<>>, now)
  BY <1>3, <1>6 DEF Tied
<1> QED BY <1>1, <1>2, <1>7 DEF GlinesInv

LEMMA TickBansInv ==
  ASSUME GlinesInv, Gline!Tick
  PROVE  GlinesInv'
<1> DEFINE hub == [m \in GlineMasks |-> IF hubbans[m] # NULL /\ hubbans[m].expire <= now + 1 THEN NULL
      ELSE hubbans[m]]
<1>1. /\ toUs = <<>> /\ toHub = <<>> /\ now' = now + 1 /\ hubbans' = hub
      /\ glinelist' = glinelist /\ saved' = saved /\ toUs' = toUs /\ toHub' = toHub
  BY DEF Gline!Tick
<1>2. /\ now \in Nat \ {0} /\ glinelist \in BanLists /\ saved \in BanLists /\ hubbans \in HubTables(now)
      /\ Same(glinelist, hubbans, now)
  BY <1>1, QuietInv
<1>3. now + 1 \in Nat \ {0}
  BY <1>2
<1>4. hub \in HubTables(now + 1)
  <2>1. ASSUME NEW m \in GlineMasks PROVE hub[m] \in {NULL} \cup HubBans(now + 1)
    <3>1. hubbans[m] \in {NULL} \cup HubBans(now)
      BY <1>2 DEF HubTables
    <3> QED BY <1>2, <3>1 DEF HubBans
  <2> QED BY <2>1 DEF HubTables
<1>5. ASSUME NEW m \in GlineMasks PROVE Standing(glinelist, m, now + 1) = Copies(m, hub[m])
  <2> DEFINE h == hubbans[m]
  <2>1. Standing(glinelist, m, now) = Copies(m, h)
    BY <1>2 DEF Same
  <2>2. Standing(glinelist, m, now + 1) = {g \in Standing(glinelist, m, now) : g.lifetime > now + 1}
    <3>1. \A g \in Of(glinelist, m) : g.lifetime \in Int
      BY <1>2, ListFacts DEF Of, Bans
    <3> QED BY <1>2, <3>1 DEF Standing, Lasting
  <2>3. h # NULL => h.expire \in Int
    BY <1>2 DEF HubTables, HubBans
  <2>4. Copy(m, h).lifetime = h.expire
    BY DEF Copy
  <2>5. hub[m] = IF h # NULL /\ h.expire <= now + 1 THEN NULL ELSE h
    OBVIOUS
  <2> HIDE DEF h, hub
  <2>6. CASE h = NULL
    BY <2>1, <2>2, <2>5, <2>6 DEF Copies
  <2>7. CASE h # NULL
    <3> DEFINE c == Copy(m, h)
    <3>1. Standing(glinelist, m, now) = {c} /\ c.lifetime = h.expire /\ h.expire \in Int
      BY <2>1, <2>3, <2>4, <2>7 DEF Copies
    <3> HIDE DEF c
    <3>2. CASE h.expire <= now + 1
      BY <1>2, <2>2, <2>5, <2>7, <3>1, <3>2 DEF Copies
    <3>3. CASE ~(h.expire <= now + 1)
      <4>1. Standing(glinelist, m, now + 1) = {c}
        BY <1>2, <2>2, <3>1, <3>3
      <4> QED BY <2>1, <2>5, <2>7, <3>1, <3>3, <4>1
    <3> QED BY <3>2, <3>3
  <2> QED BY <2>6, <2>7
<1> HIDE DEF hub
<1>6. Same(glinelist, hub, now + 1)
  BY <1>5 DEF Same
<1>7. Tied(glinelist, saved, hub, <<>>, <<>>, now + 1)
  BY <1>2, <1>3, <1>4, <1>6, TiedSame
<1> QED BY <1>1, <1>7 DEF GlinesInv

LEMMA GlinesStep ==
  ASSUME Gline!GlineAssumption, GlinesInv, [Gline!Next]_Gline!vars
  PROVE  GlinesInv'
<1>1. CASE UNCHANGED Gline!vars
  BY <1>1 DEF Gline!vars, GlinesInv
<1>2. CASE Gline!Next
  <2>1. glinelist \in BanLists /\ saved \in BanLists /\ now \in Nat
    BY DEF GlinesInv, Tied
  <2>2. ASSUME NEW m \in GlineMasks, NEW d \in Durations, Gline!glines_cmdgline(m, d) \/ Gline!glinebynick(m,
        d)
        PROVE  GlinesInv'
    BY <2>2, GlineInv
  <2>3. ASSUME NEW m \in GlineMasks, NEW asks \in BOOLEAN, Gline!Unset(m, asks)
        PROVE  GlinesInv'
    BY <2>3, UnsetInv
  <2>4. ASSUME NEW m \in GlineMasks, Gline!HubSets(m) \/ Gline!HubUnsets(m) \/ Gline!HubRemoves(m)
        PROVE  GlinesInv'
    BY <2>4, HubSetsInv, HubUnsetsInv, HubRemovesInv
  <2>5. CASE Gline!handleglinemsg
    BY <2>5, HandleLineInv
  <2>6. CASE Gline!HubHears
    BY <2>6, HubHearsInv
  <2>7. CASE Gline!glstore_save
    BY <2>7, SaveInv
  <2>8. CASE Gline!LinkLost
    BY <2>1, <2>8, AwayInv DEF Gline!LinkLost
  <2>9. CASE Gline!Restart
    <3>1. Gline!glstore_load(saved) \in BanLists
      BY <2>1, LoadedList
    <3> QED BY <2>9, <3>1, AwayInv DEF Gline!Restart
  <2>10. CASE Gline!Tick
    BY <2>10, TickBansInv
  <2> QED BY <1>2, <2>2, <2>3, <2>4, <2>5, <2>6, <2>7, <2>8, <2>9, <2>10 DEF Gline!Next
<1> QED BY <1>1, <1>2

LEMMA InvAgree ==
  ASSUME Gline!GlineAssumption, GlinesInv
  PROVE  Gline!Agree
<1> SUFFICES ASSUME toUs = <<>>, toHub = <<>>, NEW m \in GlineMasks
             PROVE  LET i == Gline!At(glinelist, m) IN
                      /\ Gline!Cardinality({j \in DOMAIN glinelist : glinelist[j].mask = m}) <= 1
                      /\ hubbans[m] # NULL =>
                           Gline!Banned(hubbans[m]) = (i # 0 /\ Gline!Banned(glinelist[i]))
                      /\ hubbans[m] = NULL => i = 0 \/ ~Gline!Banned(glinelist[i])
  BY DEF Gline!Agree
<1> DEFINE l == glinelist
           i == Gline!At(l, m)
           J == {j \in DOMAIN l : l[j].mask = m}
           h == hubbans[m]
<1>1. now \in Nat /\ l \in BanLists /\ hubbans \in HubTables(now) /\ Same(l, hubbans, now)
  BY QuietInv
<1>2. Standing(l, m, now) = Copies(m, h)
  BY <1>1 DEF Same
<1>3. AtIs(l, m, i)
  BY <1>1, AtFacts
<1>4. Gline!Cardinality(J) <= 1
  <2>1. Len(l) \in Nat /\ DOMAIN l = 1 .. Len(l) /\ \A j, k \in 1 .. Len(l) : l[j].mask = l[k].mask => j = k
    BY <1>1, ListFacts
  <2>2. J = {} \/ \E j : J = {j}
    BY <2>1
  <2>3. Cardinality(J) <= 1
    <3> HIDE DEF J
    <3>1. CASE J = {}
      <4>1. Cardinality({}) = 0
        BY FS_EmptySet
      <4> QED BY <3>1, <4>1
    <3>2. CASE \E j : J = {j}
      <4>1. PICK j : J = {j}
        BY <3>2
      <4>2. Cardinality({j}) = 1
        BY FS_Singleton
      <4>3. Cardinality(J) = 1
        BY <4>1, <4>2
      <4> QED BY <4>3
    <3> QED BY <2>2, <3>1, <3>2
  <2> QED BY <2>3 DEF Cardinality, Gline!Cardinality
<1>5. i # 0 => i \in 1 .. Len(l) /\ l[i] \in Bans /\ l[i].mask = m /\ Of(l, m) = {l[i]}
  BY <1>1, <1>3, ListFacts DEF AtIs
<1>6. i = 0 => Of(l, m) = {}
  <2>1. Len(l) \in Nat
    BY <1>1, ListFacts
  <2> QED BY <1>3, <2>1 DEF AtIs
<1>7. ASSUME i # 0, Gline!Banned(l[i]) PROVE h # NULL /\ l[i] = Copy(m, h)
  <2>1. l[i].lifetime > now
    BY <1>5, <1>7 DEF Gline!Banned, Bans
  <2>2. l[i] \in Standing(l, m, now)
    BY <1>5, <1>7, <2>1 DEF Standing, Lasting
  <2> HIDE DEF i, l, h
  <2> QED BY <1>2, <2>2 DEF Copies
<1>8. ASSUME h # NULL PROVE i # 0 /\ l[i] = Copy(m, h)
  <2>1. Copy(m, h) \in Of(l, m)
    BY <1>2, <1>8 DEF Copies, Standing, Lasting
  <2> HIDE DEF i, l, h
  <2> QED BY <1>5, <1>6, <2>1
<1>9. Gline!Banned(Copy(m, h)) = Gline!Banned(h)
  BY DEF Gline!Banned, Copy
<1> HIDE DEF i, J, h, l
<1>10. h # NULL => Gline!Banned(h) = (i # 0 /\ Gline!Banned(l[i]))
  <2>1. ASSUME h # NULL PROVE Gline!Banned(h) = (i # 0 /\ Gline!Banned(l[i]))
    <3>1. i # 0 /\ l[i] = Copy(m, h)
      BY <1>8, <2>1
    <3>2. Gline!Banned(l[i]) = Gline!Banned(h)
      BY <1>9, <3>1
    <3>3. Gline!Banned(h) \in BOOLEAN
      BY DEF Gline!Banned
    <3> QED BY <3>1, <3>2, <3>3
  <2> QED BY <2>1
<1>11. h = NULL => i = 0 \/ ~Gline!Banned(l[i])
  BY <1>7
<1> QED BY <1>4, <1>10, <1>11 DEF i, J, h, l

\* handleglinemsg(), gline_activate(), gline_deactivate(), glstore_load(): for any masks, durations and
\* bursts in any order, as long as clocks of other servers are ahead by no more than the shortest ban
\* lasts and the two sides do not cross, newserv and its hub agree on who is banned when nothing is on
\* its way.
THEOREM BansAgreed ==
  ASSUME Gline!GlineAssumption
  PROVE  Gline!Spec => [](Gline!Agree /\ BansAgree)
<1>1. Gline!Init => GlinesInv
  BY GlinesStart
<1>2. GlinesInv /\ [Gline!Next]_(Gline!vars) => GlinesInv'
  BY GlinesStep
<1>3. GlinesInv => Gline!Agree /\ BansAgree
  BY InvAgree DEF BansAgree
<1> QED BY <1>1, <1>2, <1>3, PTL DEF Gline!Spec

=============================================================================
