------------------------------ MODULE Patricia ------------------------------
(***************************************************************************)
(* The tree of IP addresses, patricia/patricialib.c. A node stands for the *)
(* first bits of an address. It has a prefix, with a count of references,  *)
(* or is glue that holds two subtrees together. Each node counts the users *)
(* below it, so that trusts need not walk the tree.                        *)
(*                                                                         *)
(* A node is named by the bits it stands for; the bit number of the code   *)
(* is the length of that name.                                             *)
(***************************************************************************)
EXTENDS Naturals, Sequences, SequencesExt, FiniteSetsExt, TLC

CONSTANTS
  MaxBits,      \* 128 in the program
  Lengths,      \* of the prefixes that whowas, trusts, searches and scanners ask for
  MaxHeld,      \* bound: references held at a time
  NULL

VARIABLES
  tree,         \* the head, and what each node has
  nicks,        \* how many nicks there are at each address
  held          \* how many references the others have to each prefix

vars == <<tree, nicks, held>>

Addresses == [1..MaxBits -> {0, 1}]
AllPrefixes == UNION {[1..n -> {0, 1}] : n \in 0..MaxBits}
Node == [ref |-> 1, l |-> NULL, r |-> NULL, parent |-> NULL, usercount |-> 0]
Glue == [Node EXCEPT !.ref = 0]
HasPrefix(t, n) == t.nodes[n].ref > 0

Init ==
  /\ tree = [head |-> NULL, nodes |-> << >>]
  /\ nicks = [a \in Addresses |-> 0]
  /\ held = [p \in AllPrefixes |-> 0]

-----------------------------------------------------------------------------
Side(addr, bit) == IF bit < MaxBits /\ addr[bit + 1] = 1 THEN "r" ELSE "l"
Child(t, n, addr) == t.nodes[n][Side(addr, Len(n))]

\* patricia_search_exact()
RECURSIVE SearchFrom(_, _, _, _)
SearchFrom(t, n, addr, bitlen) ==
  IF n = NULL THEN NULL
  ELSE IF Len(n) < bitlen THEN SearchFrom(t, Child(t, n, addr), addr, bitlen)
  ELSE IF n = SubSeq(addr, 1, bitlen) /\ HasPrefix(t, n) THEN n
  ELSE NULL
patricia_search_exact(t, addr, bitlen) == SearchFrom(t, t.head, addr, bitlen)

\* Where patricia_lookup() gets to: a node with a prefix, as glue always has a child on either side.
RECURSIVE Descend(_, _, _, _)
Descend(t, n, addr, bitlen) ==
  IF (Len(n) >= bitlen /\ HasPrefix(t, n)) \/ Child(t, n, addr) = NULL THEN n
  ELSE Descend(t, Child(t, n, addr), addr, bitlen)

RECURSIVE Climb(_, _, _)
Climb(t, n, bit) ==
  LET parent == t.nodes[n].parent IN
    IF parent # NULL /\ Len(parent) >= bit THEN Climb(t, parent, bit) ELSE n

\* What pointed to old points to new.
Repoint(t, parent, old, new) ==
  IF parent = NULL THEN [t EXCEPT !.head = new]
  ELSE IF t.nodes[parent].r = old THEN [t EXCEPT !.nodes[parent].r = new]
  ELSE [t EXCEPT !.nodes[parent].l = new]

WithNode(t, n, node) == [t EXCEPT !.nodes = (n :> node) @@ @]
Without(t, n) == [t EXCEPT !.nodes = [m \in DOMAIN @ \ {n} |-> @[m]]]

\* New node below n, above n, or beside n below a new glue node.
AddBelow(t, n, p) ==
  LET s == Side(p, Len(n))
      u == WithNode(t, p, [Node EXCEPT !.parent = n])
  IN [u EXCEPT !.nodes[n][s] = p]

AddAbove(t, n, p, other) ==
  LET parent == t.nodes[n].parent
      node == [Node EXCEPT ![Side(other, Len(p))] = n, !.parent = parent, !.usercount = t.nodes[n].usercount]
  IN Repoint([WithNode(t, p, node) EXCEPT !.nodes[n].parent = p], parent, n, p)

\* MUTANT: the glue node starts without the users below it.
Bug_AddBeside(t, n, p, bit) ==
  LET parent == t.nodes[n].parent
      g == SubSeq(p, 1, bit)
      s == Side(p, bit)
      glue == [Glue EXCEPT ![s] = p, ![IF s = "r" THEN "l" ELSE "r"] = n, !.parent = parent]
      u == WithNode(WithNode(t, g, glue), p, [Node EXCEPT !.parent = g])
  IN Repoint([u EXCEPT !.nodes[n].parent = g], parent, n, g)

AddBeside(t, n, p, bit) ==
  LET parent == t.nodes[n].parent
      g == SubSeq(p, 1, bit)
      s == Side(p, bit)
      glue == [Glue EXCEPT ![s] = p, ![IF s = "r" THEN "l" ELSE "r"] = n, !.parent = parent,
                           !.usercount = t.nodes[n].usercount]
      u == WithNode(WithNode(t, g, glue), p, [Node EXCEPT !.parent = g])
  IN Repoint([u EXCEPT !.nodes[n].parent = g], parent, n, g)

\* patricia_lookup() with a prefix that has a reference by the caller only.
patricia_lookup(t, addr, bitlen) ==
  LET p == SubSeq(addr, 1, bitlen) IN
    IF t.head = NULL THEN WithNode([t EXCEPT !.head = p], p, Node)
    ELSE LET found == Descend(t, t.head, addr, bitlen)
             differ == Max({i \in 0..Min({Len(found), bitlen}) : SubSeq(found, 1, i) = SubSeq(p, 1, i)})
             n == Climb(t, found, differ)
         IN IF differ = bitlen /\ Len(n) = bitlen
            THEN [t EXCEPT !.nodes[n].ref = IF @ = 0 THEN 1 ELSE @]
            ELSE IF Len(n) = differ THEN AddBelow(t, n, p)
            ELSE IF bitlen = differ THEN AddAbove(t, n, p, found)
            ELSE AddBeside(t, n, p, differ)

-----------------------------------------------------------------------------
\* patricia_remove(), by the number of children n has. Glue goes with one of its children.
MakeGlue(t, n) == [t EXCEPT !.nodes[n].ref = 0]

Unlink(t, n, child) ==
  LET parent == t.nodes[n].parent
      u == IF child = NULL THEN t ELSE [t EXCEPT !.nodes[child].parent = parent]
  IN Repoint(Without(u, n), parent, n, child)

\* MUTANT: glue stays behind with one child.
Bug_patricia_remove(t, n) ==
  LET node == t.nodes[n] IN
    IF node.r # NULL /\ node.l # NULL THEN MakeGlue(t, n)
    ELSE Unlink(t, n, IF node.r # NULL THEN node.r ELSE node.l)

patricia_remove(t, n) ==
  LET node == t.nodes[n]
      parent == node.parent
      sibling == IF t.nodes[parent].r = n THEN t.nodes[parent].l ELSE t.nodes[parent].r
  IN IF node.r # NULL /\ node.l # NULL THEN MakeGlue(t, n)
     ELSE IF node.r # NULL THEN Unlink(t, n, node.r)
     ELSE IF node.l # NULL THEN Unlink(t, n, node.l)
     ELSE IF parent = NULL \/ HasPrefix(t, parent) THEN Unlink(t, n, NULL)
     ELSE Unlink(Unlink(t, n, NULL), parent, sibling)

refnode(t, addr, bitlen) ==
  LET n == patricia_search_exact(t, addr, bitlen) IN
    IF n = NULL THEN patricia_lookup(t, addr, bitlen) ELSE [t EXCEPT !.nodes[n].ref = @ + 1]

derefnode(t, n) ==
  IF ~HasPrefix(t, n) THEN t
  ELSE IF t.nodes[n].ref = 1 THEN patricia_remove(t, n)
  ELSE [t EXCEPT !.nodes[n].ref = @ - 1]

\* node_increment_usercount(), node_decrement_usercount()
RECURSIVE PathToHead(_, _)
PathToHead(t, n) == IF n = NULL THEN {} ELSE {n} \cup PathToHead(t, t.nodes[n].parent)

AddUsers(t, n, d) ==
  LET path == PathToHead(t, n) IN
    [t EXCEPT !.nodes = [m \in DOMAIN @ |-> IF m \in path THEN [@[m] EXCEPT !.usercount = @ + d] ELSE @[m]]]

-----------------------------------------------------------------------------
TotalHeld == MapThenSumSet(LAMBDA p : held[p], AllPrefixes) + MapThenSumSet(LAMBDA a : nicks[a], Addresses)

\* handlenickmsg() and registerlocaluserflags()
NewNick(addr) ==
  /\ TotalHeld < MaxHeld
  /\ tree' = AddUsers(refnode(tree, addr, MaxBits), addr, 1)
  /\ nicks' = [nicks EXCEPT ![addr] = @ + 1]
  /\ UNCHANGED held

\* deletenick()
LostNick(addr) ==
  /\ nicks[addr] > 0
  /\ tree' = derefnode(AddUsers(tree, addr, -1), addr)
  /\ nicks' = [nicks EXCEPT ![addr] = @ - 1]
  /\ UNCHANGED held

\* A whowas record, a trust that counts its nicks, a search, a scan. The bits behind the prefix
\* need not be zero.
Hold(addr, bitlen) ==
  /\ TotalHeld < MaxHeld
  /\ tree' = refnode(tree, addr, bitlen)
  /\ held' = [held EXCEPT ![SubSeq(addr, 1, bitlen)] = @ + 1]
  /\ UNCHANGED nicks

Release(p) ==
  /\ held[p] > 0
  /\ tree' = derefnode(tree, p)
  /\ held' = [held EXCEPT ![p] = @ - 1]
  /\ UNCHANGED nicks

Next ==
  \/ \E addr \in Addresses : NewNick(addr) \/ LostNick(addr)
  \/ \E addr \in Addresses, bitlen \in Lengths : Hold(addr, bitlen)
  \/ \E p \in AllPrefixes : Release(p)

Spec == Init /\ [][Next]_vars

-----------------------------------------------------------------------------
\* patricia_lookup(), patricia_remove(): the nodes hang on each other as one tree, each below and on
\* the side of the bits it starts with, and glue holds two subtrees together: nothing is left over
\* of prefixes that are gone.
TreeExact ==
  LET nodes == tree.nodes IN
    /\ (tree.head = NULL) <=> (DOMAIN nodes = {})
    /\ \A n \in DOMAIN nodes :
         /\ n = tree.head <=> nodes[n].parent = NULL
         /\ \A s \in {"l", "r"} :
              LET c == nodes[n][s] IN
                c # NULL => /\ c \in DOMAIN nodes
                            /\ nodes[c].parent = n
                            /\ IsStrictPrefix(n, c)
                            /\ Side(c, Len(n)) = s
         /\ nodes[n].parent # NULL => n \in {nodes[nodes[n].parent].l, nodes[nodes[n].parent].r}
         /\ ~HasPrefix(tree, n) => nodes[n].l # NULL /\ nodes[n].r # NULL

\* refnode(), derefnode(), node_increment_usercount(): in whatever order nicks and the others come
\* and go, a prefix is found while somebody refers to it, counts its references, and counts the
\* nicks below it, by which trusts are limited.
CountsExact ==
  \A p \in AllPrefixes :
    LET references == held[p] + IF Len(p) = MaxBits THEN nicks[p] ELSE 0
        below == {a \in Addresses : IsPrefix(p, a)}
        found == patricia_search_exact(tree, CHOOSE a \in below : TRUE, Len(p))
    IN /\ found = NULL <=> references = 0
       /\ found # NULL => /\ tree.nodes[found].ref = references
                          /\ tree.nodes[found].usercount = MapThenSumSet(LAMBDA a : nicks[a], below)
=============================================================================
