---------------------------- MODULE PendingKills ----------------------------
(***************************************************************************)
(* Killing users while hooks are running (localuser/localuser.c, on top of *)
(* core/hooks.c and deletenick() of nick/nick.c).                          *)
(*                                                                         *)
(* A callback is handed a nick by the hook it hangs on, and the callbacks  *)
(* behind it in the list will be handed the same pointer.  killuser() may  *)
(* therefore not free the nick while any hook is running: it queues the    *)
(* kill, and clearpendingkills(), itself a callback of                     *)
(* HOOK_CORE_ENDOFHOOKSQUEUE, carries it out when the outermost hook is    *)
(* done.  Each kill runs hooks again, whose callbacks may kill again.      *)
(*                                                                         *)
(* Freed nick structures are used again for new nicks, so a pointer that   *)
(* outlives its nick may come to point at somebody else.                   *)
(***************************************************************************)
EXTENDS Integers, Sequences, FiniteSets, SequencesExt

CONSTANTS
  Nicks,       \* the memory of nick structures
  MaxDepth,    \* bound: nesting of triggerhook()
  MaxPending,  \* bound: length of the list of pending kills
  LateKills,   \* callbacks behind clearpendingkills() on the end-of-queue hook kill too
  NULL

VARIABLES
  alive,            \* the nick structures that are allocated
  pendingkilllist,  \* pending kills, newest first
  frames,           \* the hooks being run, innermost last
  endofqueue        \* what the outermost one is at: "no", or a part of its end-of-queue hook

vars == <<alive, pendingkilllist, frames, endofqueue>>

Kill == [source : Nicks \cup {NULL}, target : Nicks \cup {NULL}]

\* A hook about nick np.  "quit" is HOOK_NICK_KILL or HOOK_NICK_QUIT, run by a function
\* that goes on to deletenick(), which runs "pre" (PRE_LOSTNICK), then "lost" (LOSTNICK),
\* then frees the nick.  "hook" is any other hook that is told of a nick.
Frame == [np : Nicks, stage : {"hook", "quit", "pre", "lost"}]

hookqueuelength == Len(frames)
Top == Last(frames)
InEndOfQueue(i) == i = 1 /\ endofqueue # "no"
Departing == {frames[i].np : i \in {j \in DOMAIN frames : frames[j].stage # "hook"}}
Carried == {frames[i].np : i \in DOMAIN frames}

\* Somebody's code can run: a callback, or with no hook running any other code; but while
\* clearpendingkills() is between two kills, only it runs.
Running == ~(hookqueuelength = 1 /\ endofqueue = "kills")

Push(np, stage) == frames' = Append(frames, [np |-> np, stage |-> stage])

Init ==
  /\ alive \in SUBSET Nicks
  /\ pendingkilllist = <<>>
  /\ frames = <<>>
  /\ endofqueue = "no"

\* handlenickmsg(), registerlocaluser(): HOOK_NICK_NEWNICK comes last in both.
NewNick(np) ==
  /\ Running /\ hookqueuelength < MaxDepth
  /\ np \notin alive
  /\ alive' = alive \cup {np}
  /\ Push(np, "hook")
  /\ UNCHANGED <<pendingkilllist, endofqueue>>

\* A rename, join, account or other event of the nick.
Event(np) ==
  /\ Running /\ hookqueuelength < MaxDepth
  /\ np \in alive \ Departing
  /\ Push(np, "hook")
  /\ UNCHANGED <<alive, pendingkilllist, endofqueue>>

-----------------------------------------------------------------------------
\* MUTANT: the kill is carried out inside the hook.
Bug_killuser(source, target) ==
  /\ Running /\ hookqueuelength < MaxDepth
  /\ target \in alive \ Departing
  /\ Push(target, "quit")
  /\ UNCHANGED <<alive, pendingkilllist, endofqueue>>

\* Nobody kills, or kills in the name of, a nick whose own departure the hooks are being
\* told of.
killuser(source, target) ==
  /\ Running
  /\ target \in alive \ Departing
  /\ source \notin Departing
  /\ endofqueue = "late" => LateKills
  /\ IF hookqueuelength > 0
     THEN /\ Len(pendingkilllist) < MaxPending
          /\ \A i \in DOMAIN pendingkilllist : pendingkilllist[i].target # target
          /\ pendingkilllist' = <<[source |-> source, target |-> target]>> \o pendingkilllist
          /\ UNCHANGED frames
     ELSE Push(target, "quit") /\ UNCHANGED pendingkilllist
  /\ UNCHANGED <<alive, endofqueue>>

\* handlequitmsg(), handlekillmsg(): the network says that the nick is gone.
NickGone(np) ==
  /\ hookqueuelength = 0
  /\ np \in alive
  /\ Push(np, "quit")
  /\ UNCHANGED <<alive, pendingkilllist, endofqueue>>

\* deregisterlocaluser() and the loss of a server delete nicks at once, also in a callback,
\* but not the nick that some running hook is about.
DeleteAtOnce(np, stage) ==
  /\ Running /\ hookqueuelength \in 1 .. MaxDepth - 1
  /\ np \in alive \ Carried
  /\ Push(np, stage)
  /\ UNCHANGED <<alive, pendingkilllist, endofqueue>>

\* Callback of HOOK_NICK_LOSTNICK.
checkpendingkills(np) ==
  [i \in DOMAIN pendingkilllist |->
     [source |-> IF pendingkilllist[i].source = np THEN NULL ELSE pendingkilllist[i].source,
      target |-> IF pendingkilllist[i].target = np THEN NULL ELSE pendingkilllist[i].target]]

\* The function that ran the hook of the top frame goes on.  deletenick() of a "pre" frame
\* triggers HOOK_NICK_LOSTNICK, where checkpendingkills() is one of the first callbacks.
Continue ==
  LET f == Top IN
  CASE f.stage = "hook" -> frames' = Front(frames) /\ UNCHANGED <<alive, pendingkilllist>>
    [] f.stage = "quit" -> frames' = Front(frames) \o <<[f EXCEPT !.stage = "pre"]>>
                           /\ UNCHANGED <<alive, pendingkilllist>>
    [] f.stage = "pre"  -> frames' = Front(frames) \o <<[f EXCEPT !.stage = "lost"]>>
                           /\ pendingkilllist' = checkpendingkills(f.np) /\ UNCHANGED alive
    [] f.stage = "lost" -> frames' = Front(frames) /\ alive' = alive \ {f.np}
                           /\ UNCHANGED pendingkilllist

\* An inner hook is done.
InnerDone ==
  /\ hookqueuelength > 1
  /\ Continue
  /\ UNCHANGED endofqueue

\* The outermost hook is done: HOOK_CORE_ENDOFHOOKSQUEUE, on which clearpendingkills() is
\* the first callback.
OuterDone ==
  /\ hookqueuelength = 1 /\ endofqueue = "no"
  /\ endofqueue' = "kills"
  /\ UNCHANGED <<alive, pendingkilllist, frames>>

\* The first entry leaves the list before its kill is carried out.
clearpendingkills ==
  /\ hookqueuelength = 1 /\ endofqueue = "kills" /\ pendingkilllist # <<>>
  /\ LET k == Head(pendingkilllist) IN
       IF k.target # NULL THEN Push(k.target, "quit") ELSE UNCHANGED frames
  /\ pendingkilllist' = Tail(pendingkilllist)
  /\ UNCHANGED <<alive, endofqueue>>

\* The list is empty: the callbacks behind clearpendingkills(), such as clearpendingkicks().
KillsCleared ==
  /\ hookqueuelength = 1 /\ endofqueue = "kills" /\ pendingkilllist = <<>>
  /\ endofqueue' = "late"
  /\ UNCHANGED <<alive, pendingkilllist, frames>>

QueueDone ==
  /\ hookqueuelength = 1 /\ endofqueue = "late"
  /\ Continue
  /\ endofqueue' = "no"

Next ==
  \/ \E np \in Nicks : NewNick(np) \/ Event(np) \/ NickGone(np)
  \/ \E source \in alive \cup {NULL}, target \in Nicks : killuser(source, target)
  \/ \E np \in Nicks, stage \in {"quit", "pre"} : DeleteAtOnce(np, stage)
  \/ InnerDone \/ OuterDone \/ clearpendingkills \/ KillsCleared \/ QueueDone

Spec == Init /\ [][Next]_vars

-----------------------------------------------------------------------------
\* Types of the kill queue and the hook frames.
TypeOK ==
  /\ alive \subseteq Nicks
  /\ pendingkilllist \in Seq(Kill)
  /\ frames \in Seq(Frame)
  /\ endofqueue \in {"no", "kills", "late"}

\* deletenick(), killuser(), checkpendingkills(): the nick that the callbacks of a running hook are
\* told of, at whatever depth, has not been freed; none is freed by somebody else between two hooks of
\* its own departure; and a pending kill never names one that was freed, which a new user may be using
\* by the time the kill is carried out. When no hook is running any more, no kill that was asked
\* for is left undone, those asked for during the kills themselves included.
NicksAlive ==
  /\ TypeOK
  /\ \A i \in DOMAIN frames : ~InEndOfQueue(i) => frames[i].np \in alive
  /\ Departing \subseteq alive
  /\ \A i, j \in DOMAIN frames :
       frames[i].np = frames[j].np /\ frames[i].stage # "hook" /\ frames[j].stage # "hook" => i = j
  /\ \A kill \in ToSet(pendingkilllist) : {kill.source, kill.target} \subseteq alive \cup {NULL}
  /\ frames = <<>> => pendingkilllist = <<>>
=============================================================================
