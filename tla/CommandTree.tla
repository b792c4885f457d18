---------------------------- MODULE CommandTree -----------------------------
(***************************************************************************)
(* The tree in which commands are looked up by name, parser/parser.c:      *)
(* messages of the IRC server, of users to our services, and numerics.     *)
(* Modules insert and delete their handlers in any order. A node stands    *)
(* for the beginning of a name; a name alone below a node is kept at that  *)
(* node with the rest of it, and is pushed down when another one comes.    *)
(***************************************************************************)
EXTENDS Naturals, Sequences, SequencesExt, FiniteSetsExt

CONSTANTS
  CommandNames,   \* sequences of letters
  Handlers,
  NUL,
  MaxCommands     \* bound: handlers in the tree

VARIABLES
  tree,    \* from the beginning of a name to the node: its commands of one name, and the first letter
           \* of the rest of that name, NUL if there is none
  added    \* history: the handlers of each name, in the order they were added

vars == <<tree, added>>

Command(name, handler) == [name |-> name, handler |-> handler]
newcommandtree == [cmd |-> <<>>, final |-> NUL]

\* Name, or its rest, behind a node: its first letter.
Letter(name, depth) == IF Len(name) > depth THEN name[depth + 1] ELSE NUL

countcommandtree(t, p) == Cardinality({n \in DOMAIN t : IsPrefix(p, n) /\ t[n].cmd # <<>>})

WithNode(t, p) == IF p \in DOMAIN t THEN t ELSE [n \in DOMAIN t \cup {p} |-> IF n = p THEN newcommandtree ELSE t[n]]

\* MUTANT: a name alone below its node is overwritten, not pushed down.
RECURSIVE Bug_insertcommand(_, _, _)
Bug_insertcommand(t, c, p) ==
  LET name == Head(c).name
      q == Append(p, name[Len(p) + 1])
  IN IF name = p \/ countcommandtree(t, p) = 0
     THEN [t EXCEPT ![p] = [cmd |-> c, final |-> Letter(name, Len(p))]]
     ELSE Bug_insertcommand(WithNode(t, q), c, q)

\* Command c and its chain go into the subtree at p. A name that is there already is a conflict.
RECURSIVE insertcommand(_, _, _)
insertcommand(t, c, p) ==
  LET name == Head(c).name
      q == Append(p, name[Len(p) + 1])
      old == t[p]
      r == Append(p, old.final)
      u == IF old.cmd # <<>> /\ old.final # NUL
           THEN insertcommand([WithNode(t, r) EXCEPT ![p] = newcommandtree], old.cmd, r)
           ELSE t
  IN IF name = p \/ countcommandtree(t, p) = 0
     THEN IF old.cmd # <<>> /\ old.final = NUL THEN t
          ELSE [u EXCEPT ![p] = [cmd |-> c, final |-> Letter(name, Len(p))]]
     ELSE insertcommand(WithNode(u, q), c, q)

\* How far findcommand() and deletecommand() follow a name: to its end, to a node that keeps a name
\* with the same next letter, or to one that has no child for it.
Depth(t, name) ==
  Min({d \in 0 .. Len(name) :
         LET p == SubSeq(name, 1, d) IN
         \/ d = Len(name)
         \/ p \in DOMAIN t /\ t[p].final = name[d + 1]
         \/ SubSeq(name, 1, d + 1) \notin DOMAIN t})

\* findcommand(): not looked at whether the rest of the name is the same.
findcommand(t, name) ==
  LET d == Depth(t, name)
      node == t[SubSeq(name, 1, d)]
  IN IF d = Len(name) \/ node.final = name[d + 1] THEN node.cmd ELSE <<>>

\* findcommandintree() with strictcheck
findcommandintree(t, name) ==
  LET c == findcommand(t, name) IN IF c # <<>> /\ Head(c).name = name THEN c ELSE <<>>

\* deletecommand(): the first command of the chain with that handler goes, and then the nodes on
\* the way to it that have no command left below them. The root stays.
deletecommand(t, name, handler) ==
  LET d == Depth(t, name)
      p == SubSeq(name, 1, d)
      Hit(c) == c.handler = handler
      rest == RemoveFirstMatch(t[p].cmd, Hit)
      u == IF findcommandintree(t, name) = <<>> THEN t
           ELSE [t EXCEPT ![p] = [cmd |-> rest, final |-> IF rest = <<>> THEN NUL ELSE @.final]]
      Gone == {n \in DOMAIN u : n # <<>> /\ IsPrefix(n, p) /\ countcommandtree(u, n) = 0}
  IN [n \in DOMAIN u \ Gone |-> u[n]]

-----------------------------------------------------------------------------
Init ==
  /\ tree = [n \in {<<>>} |-> newcommandtree]
  /\ added = [name \in CommandNames |-> <<>>]

\* addcommandexttotree(): a name that is there gets one more handler at the end of its chain.
addcommandexttotree(name, handler) ==
  /\ FoldSet(LAMBDA n, k : Len(added[n]) + k, 0, CommandNames) < MaxCommands
  /\ LET c == Command(name, handler) IN
     tree' = IF findcommandintree(tree, name) # <<>>
             THEN [tree EXCEPT ![SubSeq(name, 1, Depth(tree, name))].cmd = Append(@, c)]
             ELSE insertcommand(tree, <<c>>, <<>>)
  /\ added' = [added EXCEPT ![name] = Append(@, handler)]

\* deletecommandfromtree(): also of commands that are not there.
deletecommandfromtree(name, handler) ==
  /\ tree' = deletecommand(tree, name, handler)
  /\ added' = [added EXCEPT ![name] = RemoveFirst(@, handler)]

Next ==
  \E name \in CommandNames, handler \in Handlers :
    addcommandexttotree(name, handler) \/ deletecommandfromtree(name, handler)

Spec == Init /\ [][Next]_vars

-----------------------------------------------------------------------------
\* insertcommand(), deletecommand(), findcommandintree(): in whatever order names that begin alike are
\* inserted and deleted, looking one up finds its own handlers, in the order they were added; no node
\* is cut off from the root, and none is left without a command below it.
LookupExact ==
  /\ \A name \in CommandNames :
       findcommandintree(tree, name) = [i \in DOMAIN added[name] |-> Command(name, added[name][i])]
  /\ \A n \in DOMAIN tree \ {<<>>} : Front(n) \in DOMAIN tree /\ countcommandtree(tree, n) > 0
=============================================================================
