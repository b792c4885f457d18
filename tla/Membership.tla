------------------------------ MODULE Membership -----------------------------
(***************************************************************************)
(* Who is on which channel: channel/channel.c, channel/channelhandlers.c   *)
(* and localuser/localuserchannel.c.                                       *)
(*                                                                         *)
(* A membership is kept twice, in the channel's user hash and in the       *)
(* nick's array of channels; the last user to leave takes the channel with *)
(* him, and its memory is used again.  The handlers run hooks on the way,  *)
(* whose callbacks may kick or kill.  localkickuser() queues a kick while  *)
(* a hook is running (killuser() does the same, see PendingKills), and     *)
(* clearpendingkicks() carries it out when the outermost hook is done:     *)
(* then the handler that ran the hook goes on, with the channel pointer it *)
(* had before.                                                             *)
(*                                                                         *)
(* A frame is a handler with the hook it is running (pc), or the place in  *)
(* its code between two hooks.                                             *)
(***************************************************************************)
EXTENDS Integers, Sequences, FiniteSets, SequencesExt

CONSTANTS
  Names,        \* channel names
  Chans,        \* the memory of channel structures
  Nicks,
  Services,     \* those of them that are ours
  KickHooks,    \* hooks whose callbacks kick users of the channel
  KillHooks,    \* hooks whose callbacks kill the user the hook is about
  BurstKicks,   \* TRUE: HOOK_CHANNEL_NEWCHANNEL is one of those hooks for a burst, too
  JoinHooks,    \* hooks in which one of our services joins the channel
  MaxDepth,     \* bound: frames
  MaxPending,   \* bound: kicks waiting
  NULL

ASSUME MembershipAssumption ==
  /\ Services \subseteq Nicks
  /\ NULL \notin Chans \cup Nicks \cup Names
  /\ BurstKicks \in BOOLEAN
  /\ MaxDepth \in Nat /\ MaxPending \in Nat

VARIABLES
  alive,            \* the nicks on the network
  channels,         \* channels[np]: the array of a nick
  index,            \* the channel of each name, or NULL
  users,            \* users[cp]: who is in the user hash of a channel
  allocated,        \* the channel structures in use
  pendingkicklist,  \* newest first; chan and target are NULL once they are gone
  pendingkilllist,  \* the nicks in it
  frames,           \* innermost last
  clearing          \* the pending kills and kicks are being carried out

pending == <<pendingkicklist, pendingkilllist>>
vars == <<alive, channels, index, users, allocated, pending, frames, clearing>>
tables == <<alive, channels, index, users, allocated>>

HookPcs == {"newnick", "newchannel", "join", "burst", "part", "kick", "lostnick", "lostchannel",
            "nicklost", "gone"}
Pcs == HookPcs \cup {"del", "deleted", "adding", "next"}
Ops == {"join", "localjoin", "localcreate", "burst", "part", "kick", "localkick", "zero",
        "quit", "quitdel"}

\* new: the handler has created the channel; i: where a walk of the array has got to;
\* stale, a history: the channel structure has been freed since the frame read its pointer.
Frame == [op : Ops, pc : Pcs, np : Nicks \cup {NULL}, cp : Chans \cup {NULL}, new : BOOLEAN,
          i : Nat, stale : BOOLEAN]

Kick == [chan : Chans \cup {NULL}, target : Nicks \cup {NULL}, stale : BOOLEAN]

NewFrame(op, pc, np, cp, new) ==
  [op |-> op, pc |-> pc, np |-> np, cp |-> cp, new |-> new, i |-> 1, stale |-> FALSE]

Init ==
  /\ alive = Nicks
  /\ channels = [np \in Nicks |-> <<>>]
  /\ index = [n \in Names |-> NULL]
  /\ users = [cp \in Chans |-> {}]
  /\ allocated = {}
  /\ pendingkicklist = <<>>
  /\ pendingkilllist = {}
  /\ frames = <<>>
  /\ clearing = FALSE

Idle == frames = <<>>
Top == Last(frames)
Goto(pc) == frames' = Front(frames) \o <<[Top EXCEPT !.pc = pc]>>
Pop == frames' = Front(frames)
Push(f) == Len(frames) < MaxDepth /\ frames' = Append(frames, f)

hookqueuelength == Cardinality({i \in DOMAIN frames : frames[i].pc \in HookPcs})

\* A callback of the top frame's hook can act.
InHook == ~Idle /\ Top.pc \in HookPcs /\ ~(clearing /\ Len(frames) = 1)

NameOf(cp) == CHOOSE n \in Names : index[n] = cp

-----------------------------------------------------------------------------
(* The two tables. *)

\* findchannel(), createchannel(): the channel of the name, a new one if there is none.
FindOrCreate(n, cp) ==
  IF index[n] # NULL
  THEN cp = index[n] /\ UNCHANGED <<index, allocated>>
  ELSE /\ cp \in Chans \ allocated
       /\ index' = [index EXCEPT ![n] = cp]
       /\ allocated' = allocated \cup {cp}

\* addnicktochannel(), up to its hook.
Add(cp, np) ==
  /\ channels' = [channels EXCEPT ![np] = Append(@, cp)]
  /\ users' = [users EXCEPT ![cp] = @ \cup {np}]

\* array_delslot(): the last entry takes the place of the one that goes.
delslot(a, i) == Front([a EXCEPT ![i] = Last(a)])

\* MUTANT: no entry is moved into the place.
Bug_Unlist(np, cp) ==
  channels' = [channels EXCEPT ![np] = IF @ # <<>> /\ cp \in ToSet(@) THEN Front(@) ELSE @]

Unlist(np, cp) ==
  channels' = [channels EXCEPT ![np] =
                 IF cp \in ToSet(@) THEN delslot(@, CHOOSE i \in DOMAIN @ : @[i] = cp) ELSE @]

\* delchannel(): pointers to the structure are dangling from now on.
Stale(s, cp) == [i \in DOMAIN s |-> [s[i] EXCEPT !.stale = @ \/ s[i].cp = cp]]

StaleKicks(cp) ==
  [i \in DOMAIN pendingkicklist |->
     [pendingkicklist[i] EXCEPT !.stale = @ \/ pendingkicklist[i].chan = cp]]

delchannel(cp) ==
  /\ index' = [index EXCEPT ![NameOf(cp)] = NULL]
  /\ allocated' = allocated \ {cp}
  /\ users' = [users EXCEPT ![cp] = {}]
  /\ pendingkicklist' = StaleKicks(cp)

\* Callback of HOOK_CHANNEL_LOSTCHANNEL.
checkpendingkickchannels(cp) ==
  [i \in DOMAIN pendingkicklist |->
     [pendingkicklist[i] EXCEPT !.chan = IF @ = cp THEN NULL ELSE @]]

-----------------------------------------------------------------------------
(* Messages from the network, and what our own services do on their own account. *)

\* handlejoinmsg() for one channel, and handlecreatemsg(), which runs another hook at the
\* end: nothing happens if the user is there already.
handlejoinmsg(np, n) ==
  /\ Idle /\ np \in alive
  /\ \E cp \in Chans :
       /\ FindOrCreate(n, cp)
       /\ np \notin users[cp]
       /\ Add(cp, np)
       /\ Push(NewFrame("join", "newnick", np, cp, index[n] = NULL))
  /\ UNCHANGED <<alive, pending, clearing>>

\* localjoinchannel(): also from the callback of a hook, to join its channel.
localjoinchannel(np, cp) ==
  /\ Idle \/ (InHook /\ Top.pc \in JoinHooks /\ cp = Top.cp)
  /\ np \in Services \cap alive /\ cp \in allocated /\ np \notin users[cp]
  /\ Add(cp, np)
  /\ Push(NewFrame("localjoin", "newnick", np, cp, FALSE))
  /\ UNCHANGED <<alive, index, allocated, pending, clearing>>

localcreatechannel(np, n) ==
  /\ Idle /\ np \in Services \cap alive
  /\ index[n] = NULL
  /\ \E cp \in Chans :
       /\ FindOrCreate(n, cp)
       /\ Add(cp, np)
       /\ Push(NewFrame("localcreate", "newnick", np, cp, TRUE))
  /\ UNCHANGED <<alive, pending, clearing>>

\* handleburstmsg(): the users of the burst follow one by one.
handleburstmsg(n) ==
  /\ Idle
  /\ \E cp \in Chans :
       /\ FindOrCreate(n, cp)
       /\ Push(NewFrame("burst", "adding", NULL, cp, index[n] = NULL))
  /\ UNCHANGED <<alive, channels, users, pending, clearing>>

BurstUser(np) ==
  /\ ~Idle /\ Top.pc = "adding"
  /\ np \in alive \ users[Top.cp]
  /\ Add(Top.cp, np)
  /\ Goto("newnick")
  /\ UNCHANGED <<alive, index, allocated, pending, clearing>>

\* The burst has no more users: a channel that has none goes, one that existed with a hook.
BurstDone ==
  /\ ~Idle /\ Top.pc = "adding"
  /\ IF users[Top.cp] # {}
     THEN Goto(IF Top.new THEN "newchannel" ELSE "burst")
          /\ UNCHANGED <<index, users, allocated, pendingkicklist>>
     ELSE IF Top.new THEN delchannel(Top.cp) /\ Pop
     ELSE /\ Goto("lostchannel")
          /\ pendingkicklist' = checkpendingkickchannels(Top.cp)
          /\ UNCHANGED <<index, users, allocated>>
  /\ UNCHANGED <<alive, channels, pendingkilllist, clearing>>

\* handlepartmsg(), localpartchannel(): HOOK_CHANNEL_PART comes first.
handlepartmsg(np, cp) ==
  /\ Idle /\ np \in alive /\ cp \in allocated /\ np \in users[cp]
  /\ Push(NewFrame("part", "part", np, cp, FALSE))
  /\ UNCHANGED <<tables, pending, clearing>>

\* handlekickmsg(): whether the user is on the channel is found out after the hook.
handlekickmsg(np, cp) ==
  /\ Idle /\ np \in alive /\ cp \in allocated
  /\ Push(NewFrame("kick", "kick", np, cp, FALSE))
  /\ UNCHANGED <<tables, pending, clearing>>

\* handlejoinmsg() for channel "0": all the user's channels are left one by one.
JoinZero(np) ==
  /\ Idle /\ np \in alive
  /\ Push(NewFrame("zero", "next", np, NULL, FALSE))
  /\ UNCHANGED <<tables, pending, clearing>>

\* The nick leaves the network: addordelnick() on HOOK_NICK_LOSTNICK.
NickLost(np) ==
  /\ Idle /\ np \in alive
  /\ Push(NewFrame("quit", "nicklost", np, NULL, FALSE))
  /\ UNCHANGED <<tables, pending, clearing>>

NewNick(np) ==
  /\ Idle /\ np \notin alive
  /\ alive' = alive \cup {np}
  /\ UNCHANGED <<channels, index, users, allocated, pending, frames, clearing>>

\* MUTANT: the kick is carried out inside the hook.
Bug_localkickuser(cp, np) ==
  /\ cp \in allocated /\ np \in alive
  /\ Idle \/ (InHook /\ Top.pc \in KickHooks /\ cp = Top.cp)
  /\ np \in users[cp] \ Services
  /\ Push(NewFrame("localkick", "del", np, cp, FALSE))
  /\ UNCHANGED <<tables, pending, clearing>>

\* localkickuser(): queued while a hook is running.  A callback of HOOK_CHANNEL_NEWNICK
\* kicks only from channels that a service of ours is on.
localkickuser(cp, np) ==
  /\ cp \in allocated /\ np \in alive
  /\ \/ /\ Idle
        /\ np \in users[cp]
        /\ Push(NewFrame("localkick", "del", np, cp, FALSE))
        /\ UNCHANGED pendingkicklist
     \/ /\ InHook /\ Top.pc \in KickHooks
        /\ cp = Top.cp /\ np \in users[cp] \ Services
        /\ Top.pc = "newnick" => users[cp] \cap Services # {}
        /\ Top.pc = "newchannel" /\ Top.op = "burst" => BurstKicks
        /\ \A i \in DOMAIN pendingkicklist :
             pendingkicklist[i].chan # cp \/ pendingkicklist[i].target # np
        /\ Len(pendingkicklist) < MaxPending
        /\ pendingkicklist' = <<[chan |-> cp, target |-> np, stale |-> FALSE]>> \o pendingkicklist
        /\ UNCHANGED frames
  /\ UNCHANGED <<tables, pendingkilllist, clearing>>

\* killuser() in a hook; outside of hooks it is NickLost().
killuser(np) ==
  /\ InHook /\ Top.pc \in KillHooks
  /\ np = Top.np /\ np \notin Services \cup pendingkilllist
  /\ pendingkilllist' = pendingkilllist \cup {np}
  /\ UNCHANGED <<tables, pendingkicklist, frames, clearing>>

-----------------------------------------------------------------------------
(* A hook is done. *)

\* HOOK_CORE_ENDOFHOOKSQUEUE, when the outermost hook is done.
EndOfHooksQueue ==
  /\ InHook /\ hookqueuelength = 1 /\ ~clearing
  /\ pendingkicklist # <<>> \/ pendingkilllist # {}
  /\ clearing' = TRUE
  /\ UNCHANGED <<tables, pending, frames>>

\* clearpendingkills() was registered before clearpendingkicks().
clearpendingkills(np) ==
  /\ clearing /\ Len(frames) = 1 /\ np \in pendingkilllist
  /\ pendingkilllist' = pendingkilllist \ {np}
  /\ Push(NewFrame("quit", "nicklost", np, NULL, FALSE))
  /\ UNCHANGED <<tables, pendingkicklist, clearing>>

\* The first kick leaves the list before it is carried out, by _localkickuser(), if the
\* target is still on the channel.
clearpendingkicks ==
  /\ clearing /\ Len(frames) = 1 /\ pendingkilllist = {}
  /\ IF pendingkicklist = <<>>
     THEN clearing' = FALSE /\ UNCHANGED <<pendingkicklist, frames>>
     ELSE /\ LET k == Head(pendingkicklist) IN
               IF k.target # NULL /\ k.chan # NULL
               THEN Push(NewFrame("localkick", "del", k.target, k.chan, FALSE))
               ELSE UNCHANGED frames
          /\ pendingkicklist' = Tail(pendingkicklist)
          /\ UNCHANGED clearing
  /\ UNCHANGED <<tables, pendingkilllist>>

\* MUTANT: the handler goes on without HOOK_CORE_ENDOFHOOKSQUEUE.
Bug_HookDone(pc) == InHook /\ Top.pc = pc /\ UNCHANGED clearing

\* The top frame's hook is done and its handler goes on.
HookDone(pc) ==
  /\ InHook /\ Top.pc = pc
  /\ hookqueuelength = 1 => pendingkicklist = <<>> /\ pendingkilllist = {}
  /\ UNCHANGED clearing

\* MUTANT: the JOIN hook is run without another look at the index.
Bug_AfterNewChannel ==
  /\ HookDone("newchannel")
  /\ IF Top.op = "join" THEN Goto("join")
     ELSE IF Top.op = "burst" THEN Goto("burst") ELSE Pop
  /\ UNCHANGED <<tables, pending>>

AfterNewNick ==
  /\ HookDone("newnick")
  /\ Goto(IF Top.op = "burst" THEN "adding" ELSE IF Top.new THEN "newchannel" ELSE "join")
  /\ UNCHANGED <<tables, pending>>

\* HOOK_CHANNEL_JOIN or HOOK_CHANNEL_CREATE only if the channel is still in the index.
AfterNewChannel ==
  /\ HookDone("newchannel")
  /\ IF Top.op = "join" /\ \E n \in Names : index[n] = Top.cp THEN Goto("join")
     ELSE IF Top.op = "burst" THEN Goto("burst") ELSE Pop
  /\ UNCHANGED <<tables, pending>>

LastHook ==
  /\ HookDone("join") \/ HookDone("burst")
  /\ Pop
  /\ UNCHANGED <<tables, pending>>

AfterPart ==
  /\ HookDone("part") \/ HookDone("kick")
  /\ Goto("del")
  /\ UNCHANGED <<tables, pending>>

\* delnickfromchannel(): a user who is not on the channel is let be.
delnickfromchannel ==
  /\ ~Idle /\ Top.pc = "del"
  /\ IF Top.np \in users[Top.cp] THEN Goto("lostnick") ELSE Pop
  /\ UNCHANGED <<tables, pending, clearing>>

\* After HOOK_CHANNEL_LOSTNICK the user is off the hash; the last one runs
\* HOOK_CHANNEL_LOSTCHANNEL.
AfterLostNick ==
  /\ HookDone("lostnick")
  /\ users' = [users EXCEPT ![Top.cp] = @ \ {Top.np}]
  /\ IF users'[Top.cp] = {}
     THEN Goto("lostchannel") /\ pendingkicklist' = checkpendingkickchannels(Top.cp)
     ELSE Goto("deleted") /\ UNCHANGED pendingkicklist
  /\ UNCHANGED <<alive, channels, index, allocated, pendingkilllist>>

\* The structure is freed.
AfterLostChannel ==
  /\ HookDone("lostchannel")
  /\ delchannel(Top.cp)
  /\ frames' = IF Top.op = "burst" THEN Stale(Front(frames), Top.cp)
               ELSE Stale(Front(frames), Top.cp) \o <<[Top EXCEPT !.pc = "deleted"]>>
  /\ UNCHANGED <<alive, channels, pendingkilllist>>

\* The nick's array: not touched entry by entry when the user leaves all its channels.
deleted ==
  /\ ~Idle /\ Top.pc = "deleted"
  /\ IF Top.op = "zero" THEN Goto("next") /\ UNCHANGED channels
     ELSE Pop /\ IF Top.op = "quitdel" THEN UNCHANGED channels ELSE Unlist(Top.np, Top.cp)
  /\ UNCHANGED <<alive, index, users, allocated, pending, clearing>>

\* The walk of the array for channel "0".
NextZero ==
  /\ ~Idle /\ Top.pc = "next"
  /\ LET a == channels[Top.np] IN
       IF Top.i <= Len(a)
       THEN /\ frames' = Front(frames) \o <<[Top EXCEPT !.pc = "part", !.cp = a[Top.i], !.i = @ + 1]>>
            /\ UNCHANGED channels
       ELSE Pop /\ channels' = [channels EXCEPT ![Top.np] = <<>>]
  /\ UNCHANGED <<alive, index, users, allocated, pending, clearing>>

\* Callback of HOOK_NICK_LOSTNICK, behind addordelnick().
checkpendingkicknicks(np) ==
  [i \in DOMAIN pendingkicklist |->
     [pendingkicklist[i] EXCEPT !.target = IF @ = np THEN NULL ELSE @]]

\* addordelnick(): the walk of the array of a nick that leaves, inside its LOSTNICK hook.
addordelnick ==
  /\ InHook /\ Top.pc = "nicklost"
  /\ LET a == channels[Top.np] IN
       IF Top.i <= Len(a)
       THEN /\ Len(frames) < MaxDepth
            /\ frames' = Front(frames) \o <<[Top EXCEPT !.i = @ + 1],
                                            NewFrame("quitdel", "del", Top.np, a[Top.i], FALSE)>>
            /\ UNCHANGED <<channels, pending>>
       ELSE /\ channels' = [channels EXCEPT ![Top.np] = <<>>]
            /\ pendingkicklist' = checkpendingkicknicks(Top.np)
            /\ pendingkilllist' = pendingkilllist \ {Top.np}
            /\ Goto("gone")
  /\ UNCHANGED <<alive, index, users, allocated, clearing>>

NickGone ==
  /\ HookDone("gone")
  /\ alive' = alive \ {Top.np}
  /\ Pop
  /\ UNCHANGED <<channels, index, users, allocated, pending>>

-----------------------------------------------------------------------------
Messages ==
  \/ \E np \in Nicks, n \in Names : handlejoinmsg(np, n) \/ localcreatechannel(np, n)
  \/ \E np \in Nicks, cp \in Chans :
       localjoinchannel(np, cp) \/ handlepartmsg(np, cp) \/ handlekickmsg(np, cp)
       \/ localkickuser(cp, np)
  \/ \E n \in Names : handleburstmsg(n)
  \/ \E np \in Nicks : killuser(np) \/ JoinZero(np) \/ NickLost(np) \/ NewNick(np)

Handlers ==
  \/ \E np \in Nicks : BurstUser(np) \/ clearpendingkills(np)
  \/ BurstDone \/ EndOfHooksQueue \/ clearpendingkicks
  \/ AfterNewNick \/ AfterNewChannel \/ LastHook \/ AfterPart
  \/ delnickfromchannel \/ AfterLostNick \/ AfterLostChannel \/ deleted
  \/ NextZero \/ addordelnick \/ NickGone

Next == Messages \/ Handlers

Spec == Init /\ [][Next]_vars

-----------------------------------------------------------------------------
\* Types of the membership tables.
TypeOK ==
  /\ alive \subseteq Nicks
  /\ channels \in [Nicks -> Seq(Chans)]
  /\ \A np \in Nicks : IsInjective(channels[np])
  /\ index \in [Names -> Chans \cup {NULL}]
  /\ users \in [Chans -> SUBSET Nicks]
  /\ allocated \subseteq Chans
  /\ pendingkicklist \in Seq(Kick)
  /\ pendingkilllist \subseteq Nicks
  /\ frames \in Seq(Frame)
  /\ clearing \in BOOLEAN

\* The memberships a running handler has taken out of the user hash and not yet out of the
\* nick's array, and the nicks that are leaving all their channels.
HalfGone == {<<frames[i].np, frames[i].cp>> : i \in {j \in DOMAIN frames :
               frames[j].pc \in {"lostchannel", "deleted"} /\ frames[j].op # "burst"}}
Leaving == {frames[i].np : i \in {j \in DOMAIN frames : frames[j].op \in {"zero", "quit"}}}

\* addnicktochannel(), delnickfromchannel(): at every hook, a user is in a channel's hash
\* exactly if the channel is in the user's array, whatever was kicked, created or destroyed
\* meanwhile; a nick that is leaving all its channels is still in each hash its array has not
\* been walked up to. delchannel(): a channel is in the index exactly while it is allocated, under
\* one name; it has users unless a running handler is creating or destroying it; nobody is on a
\* channel once he has left the network.
MirrorExact ==
  /\ TypeOK
  /\ \A np \in Nicks, cp \in Chans :
       /\ np \in users[cp] => cp \in ToSet(channels[np])
       /\ cp \in ToSet(channels[np]) /\ <<np, cp>> \notin HalfGone /\ np \notin Leaving
            => np \in users[cp]
  /\ \A cp \in Chans : cp \in allocated <=> \E n \in Names : index[n] = cp
  /\ \A n, m \in Names : index[n] = index[m] /\ index[n] # NULL => n = m
  /\ \A cp \in allocated : users[cp] = {} =>
       \E i \in DOMAIN frames : frames[i].cp = cp /\ frames[i].pc \in {"lostchannel", "adding"}
  /\ \A cp \in Chans : users[cp] \subseteq alive

\* handlejoinmsg(), handleburstmsg(), localjoinchannel(), handlepartmsg(), handlekickmsg(),
\* delnickfromchannel(): the channel a handler will use when its hook is done has not been
\* freed by a kick that the hook's callbacks asked for; checkpendingkicknicks(),
\* checkpendingkickchannels(): nor does a kick that waits name a nick that has left, or a channel
\* that was freed, whose memory another may be using.
ChannelsAlive ==
  /\ \A i \in DOMAIN frames : frames[i].stale => frames[i].pc \in {"newchannel", "join", "burst", "deleted", "next"}
  /\ \A k \in ToSet(pendingkicklist) :
       k.chan # NULL /\ k.target # NULL => ~k.stale /\ k.chan \in allocated /\ k.target \in alive

\* handlejoinmsg(), handlecreatemsg(): a hook about a channel is only run while the channel
\* exists, also when the callbacks of an earlier hook of the same handler have destroyed it.
HookChannelAlive ==
  [][\A i \in DOMAIN frames' :
       frames'[i].pc \in HookPcs /\ (i \in DOMAIN frames => frames[i].pc # frames'[i].pc)
         => ~frames'[i].stale]_vars

\* clearpendingkicks(), clearpendingkills(): a handler that goes on after its hook leaves no
\* kick or kill waiting, which would be carried out behind the back of a later handler.
NoKickLeftOver ==
  hookqueuelength = 0 => pendingkicklist = <<>> /\ pendingkilllist = {} /\ ~clearing
=============================================================================
