----------------------------- MODULE ServerTree -----------------------------
(***************************************************************************)
(* The server list of server/server.c, fed by the lines of our hub: SERVER *)
(* as servers join, EB as they finish their burst, SQ as they leave.       *)
(*                                                                         *)
(* completelink() and deleteserver() call themselves for the servers below *)
(* and run hooks for every server on the way: the recursion is a stack     *)
(* here and each server that runs hooks a step.  The network is what the   *)
(* hub knows of it and the lines it has sent that were not handled yet.    *)
(***************************************************************************)
EXTENDS Integers, Sequences, FiniteSets

CONSTANTS
  Numerics, mynumeric,   \* indices into serverlist, and our own
  PrefixOf,              \* pairs of servers: the name of one begins with that of the other
  MaxWire,               \* bound: the hub waits while this many lines are on their way
  MaxEvents              \* bound: what happens on the network while we are linked

\* serverlist is an array.
TreeAssumption == mynumeric \in Numerics /\ \E n \in Numerics : Numerics = 0 .. n

Others == Numerics \ {mynumeric}
NoServer == -1

VARIABLES
  serverlist,   \* the table: linkstate and parent of every numeric
  myhub,
  stack,        \* the calls of completelink() or deleteserver(), innermost last
  op,           \* which of the two is running: "none", "complete", "squit", "disconnect"
  net,          \* the hub's view: the parent of each server it knows, itself included
  bursting,     \* ... and those whose end of burst it has not sent us
  behind,       \* ... and for the others the burst they were announced in
  wire,         \* the lines on their way to us
  events        \* used up of MaxEvents

ours == <<serverlist, myhub, stack, op>>
network == <<net, bursting, behind, wire, events>>
vars == <<ours, network>>

Invalid == [linkstate |-> "INVALID", parent |-> 0]
Listed == {s \in Numerics : serverlist[s].linkstate # "INVALID"}
Known == {s \in Others : net[s] # NoServer}

Line == [cmd : {"SERVER"}, s : Others, parent : Numerics, linking : BOOLEAN]
        \cup [cmd : {"EB", "SQ"}, s : Others]

Linked == myhub # NoServer \/ wire # <<>>

Init ==
  /\ serverlist = [s \in Numerics |->
       IF s = mynumeric THEN [linkstate |-> "LINKED", parent |-> NoServer] ELSE Invalid]
  /\ myhub = NoServer
  /\ stack = <<>> /\ op = "none"
  /\ net = [s \in Others |-> NoServer]
  /\ bursting = {}
  /\ behind = [s \in Others |-> NoServer]
  /\ wire = <<>>
  /\ events = 0

-----------------------------------------------------------------------------
(* The network. *)

\* What is above a server in a tree: in every set that has its parent and the parents of its own.
Above(tree, s) ==
  {t \in Numerics : \A S \in SUBSET Numerics :
     ({tree[s]} \cup {tree[u] : u \in S \cap Others}) \ {NoServer} \subseteq S => t \in S}

\* The first server up the tree that is still bursting: NoServer if there is none.
BurstOf(tree, b, s) ==
  LET above == Above(tree, s) \cap b IN
  IF above = {} THEN NoServer
  ELSE CHOOSE t \in above : \A u \in above : u = t \/ u \in Above(tree, t)

\* A tree of servers whose root, the hub, is linked to us.
Tree(tree, hub) ==
  /\ tree[hub] = mynumeric
  /\ \A s \in Others : tree[s] # NoServer => s = hub \/ (tree[s] # mynumeric /\ hub \in Above(tree, s))
  /\ \A s \in Others : s \notin Above(tree, s)

Announce(tree, b, s) == [cmd |-> "SERVER", s |-> s, parent |-> tree[s], linking |-> s \in b]

\* We have linked to a hub.  It introduces itself and every server it knows, no server before
\* its parent, and ends its burst.
LinkUp(hub) ==
  /\ ~Linked /\ op = "none"
  /\ \E tree \in [Others -> Numerics \cup {NoServer}], b \in SUBSET Others :
     LET S == {s \in Others : tree[s] # NoServer} IN
       /\ Tree(tree, hub)
       /\ hub \in b /\ b \subseteq S
       /\ net' = tree /\ bursting' = b \ {hub}
       /\ behind' = [s \in Others |-> IF s \in S \ b THEN BurstOf(tree, b, s) ELSE NoServer]
       /\ \E order \in [1 .. Cardinality(S) -> S] :
            /\ \A s \in S : \E i \in DOMAIN order : order[i] = s
            /\ \A i, j \in DOMAIN order : order[j] \in Above(tree, order[i]) => j < i
            /\ wire' = [i \in DOMAIN order |-> Announce(tree, b, order[i])]
                       \o <<[cmd |-> "EB", s |-> hub]>>
  /\ UNCHANGED <<ours, events>>

Happens ==
  /\ Linked /\ Known # {}
  /\ Len(wire) < MaxWire
  /\ events < MaxEvents /\ events' = events + 1

\* A server joins, bursting; or is announced in the burst of a server above it.
NetJoin(s, p, linking) ==
  /\ Happens
  /\ s \in Others \ Known /\ p \in Known
  /\ net' = [net EXCEPT ![s] = p]
  /\ bursting' = IF linking THEN bursting \cup {s} ELSE bursting
  /\ ~linking => p \in bursting \/ (behind[p] # NoServer /\ behind[p] \in bursting)
  /\ behind' = [behind EXCEPT ![s] =
                  IF linking THEN NoServer ELSE IF p \in bursting THEN p ELSE behind[p]]
  /\ wire' = Append(wire, Announce(net', bursting', s))
  /\ UNCHANGED ours

NetEndOfBurst(s) ==
  /\ Happens
  /\ s \in bursting /\ net[s] # mynumeric
  /\ bursting' = bursting \ {s}
  /\ wire' = Append(wire, [cmd |-> "EB", s |-> s])
  /\ UNCHANGED <<ours, net, behind>>

\* A server other than the hub splits off, with all behind it.
NetSplit(s) ==
  /\ Happens
  /\ s \in Known /\ net[s] # mynumeric
  /\ LET gone == {t \in Known : t = s \/ s \in Above(net, t)} IN
       /\ net' = [t \in Others |-> IF t \in gone THEN NoServer ELSE net[t]]
       /\ bursting' = bursting \ gone
       /\ behind' = [t \in Others |-> IF t \in gone THEN NoServer ELSE behind[t]]
  /\ wire' = Append(wire, [cmd |-> "SQ", s |-> s])
  /\ UNCHANGED ours

NetForgotten ==
  /\ net' = [s \in Others |-> NoServer]
  /\ bursting' = {}
  /\ behind' = [s \in Others |-> NoServer]
  /\ wire' = <<>>

-----------------------------------------------------------------------------
(* Our handlers. *)

Receive(cmd) ==
  /\ op = "none"
  /\ wire # <<>> /\ Head(wire).cmd = cmd
  /\ wire' = Tail(wire)

\* The first server of the list that is still there has no parent but us.
handleservermsg ==
  /\ Receive("SERVER")
  /\ LET l == Head(wire) IN
       IF l.s \in Listed THEN UNCHANGED <<serverlist, myhub>>
       ELSE /\ serverlist' = [serverlist EXCEPT ![l.s] =
                 [linkstate |-> IF l.linking THEN "LINKING" ELSE "PLINKING", parent |-> l.parent]]
            /\ myhub' = IF l.parent = mynumeric THEN l.s ELSE myhub
  /\ UNCHANGED <<stack, op, net, bursting, behind, events>>

\* MUTANT: a server that still has servers waiting below it is not waited for.
Bug_handleeobmsg ==
  /\ Receive("EB")
  /\ IF Head(wire).s \in Listed
     THEN serverlist' = [serverlist EXCEPT ![Head(wire).s].linkstate = "LINKED"]
     ELSE UNCHANGED serverlist
  /\ UNCHANGED <<stack, op, myhub, net, bursting, behind, events>>

\* handleeobmsg(): completelink(), and EA if it was our hub.
handleeobmsg ==
  /\ Receive("EB")
  /\ IF Head(wire).s \in Listed THEN stack' = <<Head(wire).s>> /\ op' = "complete"
     ELSE UNCHANGED <<stack, op>>
  /\ UNCHANGED <<serverlist, myhub, net, bursting, behind, events>>

Waiting(s) == {c \in Numerics : serverlist[c].parent = s /\ serverlist[c].linkstate = "PLINKING"}
Children(s) == {c \in Listed : serverlist[c].parent = s}
Top == stack[Len(stack)]
Pop == SubSeq(stack, 1, Len(stack) - 1)

\* completelink() calls itself for the next server below that waits.
completelink_down ==
  /\ op = "complete"
  /\ \E c \in Waiting(Top) :
       /\ \A d \in Waiting(Top) : c <= d
       /\ stack' = Append(stack, c)
  /\ UNCHANGED <<serverlist, myhub, op, network>>

\* None waits any more: HOOK_SERVER_LINKED, and back to the caller.
completelink ==
  /\ op = "complete"
  /\ Waiting(Top) = {}
  /\ serverlist' = [serverlist EXCEPT ![Top].linkstate = "LINKED"]
  /\ stack' = Pop
  /\ op' = IF Pop = <<>> THEN "none" ELSE op
  /\ UNCHANGED <<myhub, network>>

\* findserver(): the first server whose name the given one begins with.
findserver(s) ==
  LET found == {t \in Listed : t = s \/ <<t, s>> \in PrefixOf} IN
  IF found = {} THEN NoServer ELSE CHOOSE t \in found : \A u \in found : t <= u

\* A server we do not know is reported.  Our hub's name means that it sends us away: that is
\* a handledisconnect.
handlesquitmsg ==
  /\ Receive("SQ")
  /\ LET s == findserver(Head(wire).s) IN
       /\ s = NoServer \/ s # myhub
       /\ IF s = NoServer THEN UNCHANGED <<stack, op>> ELSE stack' = <<s>> /\ op' = "squit"
  /\ UNCHANGED <<serverlist, myhub, net, bursting, behind, events>>

\* The connection is lost, or our hub has sent us away: HOOK_IRC_DISCON, if we were linked.
handledisconnect ==
  /\ op = "none" /\ Linked
  /\ IF myhub # NoServer THEN stack' = <<myhub>> /\ op' = "disconnect"
     ELSE UNCHANGED <<stack, op>>
  /\ NetForgotten
  /\ UNCHANGED <<serverlist, myhub, events>>

\* deleteserver() calls itself for the next server below.
deleteserver_down ==
  /\ op \in {"squit", "disconnect"}
  /\ \E c \in Children(Top) :
       /\ \A d \in Children(Top) : c <= d
       /\ stack' = Append(stack, c)
  /\ UNCHANGED <<serverlist, myhub, op, network>>

\* MUTANT: the servers below are left in the list.
Bug_deleteserver ==
  /\ op \in {"squit", "disconnect"}
  /\ IF serverlist[Top].linkstate # "SQUIT"
     THEN /\ serverlist' = [serverlist EXCEPT ![Top].linkstate = "SQUIT"]
          /\ UNCHANGED <<stack, op, myhub>>
     ELSE /\ serverlist' = [serverlist EXCEPT ![Top] = Invalid]
          /\ stack' = Pop
          /\ op' = IF Pop = <<>> THEN "none" ELSE op
          /\ myhub' = IF op = "disconnect" /\ Pop = <<>> THEN NoServer ELSE myhub
  /\ UNCHANGED network

\* None is left: LS_SQUIT, under which HOOK_SERVER_PRE_LOSTSERVER and HOOK_SERVER_LOSTSERVER
\* run, and then the entry is erased.
deleteserver ==
  /\ op \in {"squit", "disconnect"}
  /\ Children(Top) = {}
  /\ IF serverlist[Top].linkstate # "SQUIT"
     THEN /\ serverlist' = [serverlist EXCEPT ![Top].linkstate = "SQUIT"]
          /\ UNCHANGED <<stack, op, myhub>>
     ELSE /\ serverlist' = [serverlist EXCEPT ![Top] = Invalid]
          /\ stack' = Pop
          /\ op' = IF Pop = <<>> THEN "none" ELSE op
          /\ myhub' = IF op = "disconnect" /\ Pop = <<>> THEN NoServer ELSE myhub
  /\ UNCHANGED network

Next ==
  \/ \E hub \in Others : LinkUp(hub)
  \/ \E s \in Others, p \in Others, linking \in BOOLEAN : NetJoin(s, p, linking)
  \/ \E s \in Others : NetEndOfBurst(s) \/ NetSplit(s)
  \/ handleservermsg \/ handleeobmsg \/ handlesquitmsg \/ handledisconnect
  \/ completelink_down \/ completelink \/ deleteserver_down \/ deleteserver

Spec == Init /\ [][Next]_vars

-----------------------------------------------------------------------------
States == {"INVALID", "LINKED", "LINKING", "PLINKING", "SQUIT"}

\* Types of the server list and of the recursion.
TypeOK ==
  /\ serverlist \in [Numerics -> [linkstate : States, parent : Numerics \cup {NoServer}]]
  /\ myhub \in Others \cup {NoServer}
  /\ stack \in Seq(Others)
  /\ op \in {"none", "complete", "squit", "disconnect"}
  /\ stack = <<>> <=> op = "none"
  /\ net \in [Others -> Numerics \cup {NoServer}]
  /\ bursting \subseteq Known
  /\ wire \in Seq(Line)

\* handleservermsg(), completelink(), deleteserver(): once every line has been handled, our
\* list is the hub's tree, and a server counts as linked exactly if neither it nor the
\* server in whose burst it was announced is still bursting.
Mirror ==
  op = "none" /\ wire = <<>> =>
    \A s \in Others :
      serverlist[s] =
        IF net[s] = NoServer THEN Invalid
        ELSE [parent |-> net[s],
              linkstate |-> IF s \in bursting THEN "LINKING"
                            ELSE IF behind[s] # NoServer /\ behind[s] \in bursting THEN "PLINKING"
                            ELSE "LINKED"]

\* deleteserver(): at every hook, the servers in the list form a tree that hangs on us: the
\* parent of each is in the list, those of a server that is being lost are gone already.
\* completelink(): a server that waits for a burst is below one that is bursting, or below
\* another that waits: there is always an EB to come that will complete it.
Rooted ==
  /\ TypeOK
  /\ \A s \in Listed \ {mynumeric} :
       /\ serverlist[s].parent \in Listed
       /\ serverlist[serverlist[s].parent].linkstate # "SQUIT"
       /\ serverlist[s].parent = mynumeric <=> s = myhub
       /\ op = "none" /\ serverlist[s].linkstate = "PLINKING" =>
            serverlist[serverlist[s].parent].linkstate \in {"LINKING", "PLINKING"}
=============================================================================
