-------------------------------- MODULE Hooks -------------------------------
(***************************************************************************)
(* The hook lists of core/hooks.c.  A callback run by triggerhook() may    *)
(* register and deregister callbacks of any hook, the one being run        *)
(* included, and may trigger hooks itself.  hookqueuelength counts the     *)
(* triggerhook() calls that are running; when the outermost one is done,   *)
(* it triggers HOOK_CORE_ENDOFHOOKSQUEUE and frees the list nodes whose    *)
(* callbacks were deregistered meanwhile.                                  *)
(***************************************************************************)
EXTENDS Integers, Sequences, FiniteSets, SequencesExt

CONSTANTS
  HookNums,      \* the hooks in use
  ENDOFHOOKSQUEUE,
  Callbacks,
  Priorities,
  Nodes,         \* the memory of list nodes
  MaxDepth,      \* bound: nesting of triggerhook()
  NULL

ASSUME HooksAssumption ==
  /\ IsFiniteSet(HookNums) /\ ENDOFHOOKSQUEUE \in HookNums
  /\ Priorities \subseteq Int
  /\ NULL \notin Callbacks \cup Nodes

VARIABLES
  head,          \* head[h]: the nodes of hook h in list order
  callback,      \* callback[n], NULL once deregistered
  priority,      \* priority[n]
  frames,        \* the running triggerhook() calls, innermost last
  dirtyhooks,    \* hooks that have deregistered nodes, in the order they were marked
  closing        \* the outermost triggerhook() has got to its end-of-queue part

vars == <<head, callback, priority, frames, dirtyhooks, closing>>

hookqueuelength == Len(frames)

\* A frame: its hook, the node hp (NULL before the first), and as history the callbacks
\* that were there when it started and have stayed (due) and those called so far (called).
Frame == [hook : HookNums, hp : Nodes \cup {NULL}, due : SUBSET Callbacks, called : SUBSET Callbacks]

Used == UNION {ToSet(head[h]) : h \in HookNums}
Registered(h) == {callback[n] : n \in ToSet(head[h])} \ {NULL}
Place(s, n) == CHOOSE i \in DOMAIN s : s[i] = n

Init ==
  /\ head = [h \in HookNums |-> <<>>]
  /\ callback = [n \in Nodes |-> NULL]
  /\ priority = [n \in Nodes |-> 0]
  /\ frames = <<>>
  /\ dirtyhooks = <<>>
  /\ closing = FALSE

\* Callbacks run only while a node of the innermost frame is being called; with no frame,
\* any other code of the daemon runs.
Running == frames # <<>> => Last(frames).hp # NULL

-----------------------------------------------------------------------------
\* MUTANT: the new node goes before the nodes of its own priority.
Bug_Pred(h, p, k) ==
  /\ k > 0 => priority[head[h][k]] < p
  /\ \A i \in k + 1 .. Len(head[h]) : priority[head[h][i]] >= p

\* pred is the k-th node, or none if k is 0: the last whose priority is no higher, deregistered ones
\* included.
Pred(h, p, k) ==
  /\ k > 0 => priority[head[h][k]] <= p
  /\ \A i \in k + 1 .. Len(head[h]) : priority[head[h][i]] > p

registerpriorityhook(h, cb, p) ==
  /\ Running
  /\ cb \notin Registered(h)
  /\ \E n \in Nodes \ Used, k \in 0 .. Len(head[h]) :
       /\ Pred(h, p, k)
       /\ head' = [head EXCEPT ![h] = InsertAt(@, k + 1, n)]
       /\ callback' = [callback EXCEPT ![n] = cb]
       /\ priority' = [priority EXCEPT ![n] = p]
  /\ UNCHANGED <<frames, dirtyhooks, closing>>

markdirty(h) == IF h \in ToSet(dirtyhooks) THEN dirtyhooks ELSE Append(dirtyhooks, h)

\* MUTANT: the node is unlinked and freed at once.
Bug_deregister(h, cb) ==
  /\ Running
  /\ \E n \in ToSet(head[h]) : callback[n] = cb /\ head' = [head EXCEPT ![h] = Remove(@, n)]
  /\ frames' = [i \in DOMAIN frames |->
                  IF frames[i].hook = h THEN [frames[i] EXCEPT !.due = @ \ {cb}] ELSE frames[i]]
  /\ UNCHANGED <<callback, priority, dirtyhooks, closing>>

deregisterhook(h, cb) ==
  /\ Running
  /\ \E n \in ToSet(head[h]) : callback[n] = cb /\ callback' = [callback EXCEPT ![n] = NULL]
  /\ dirtyhooks' = markdirty(h)
  /\ frames' = [i \in DOMAIN frames |->
                  IF frames[i].hook = h THEN [frames[i] EXCEPT !.due = @ \ {cb}] ELSE frames[i]]
  /\ UNCHANGED <<head, priority, closing>>

Begin(h) == [hook |-> h, hp |-> NULL, due |-> Registered(h), called |-> {}]

triggerhook(h) ==
  /\ Running
  /\ h # ENDOFHOOKSQUEUE
  /\ hookqueuelength < MaxDepth
  /\ frames' = Append(frames, Begin(h))
  /\ UNCHANGED <<head, callback, priority, dirtyhooks, closing>>

\* The place of the node a frame is at.
At(f) == IF f.hp = NULL THEN 0 ELSE Place(head[f.hook], f.hp)

\* MUTANT: the walk ends at a node that has no callback any more.
Bug_Ahead(f) ==
  {i \in At(f) + 1 .. Len(head[f.hook]) : \A j \in At(f) + 1 .. i : callback[head[f.hook][j]] # NULL}

\* The places in a frame's list it has not got to.
Ahead(f) == At(f) + 1 .. Len(head[f.hook])

\* Those with a callback.
AheadLive(f) == {i \in Ahead(f) : callback[head[f.hook][i]] # NULL}

\* The frame's callback, if any, returns and the next node with a callback is called.
CallNext ==
  /\ frames # <<>>
  /\ LET f == Last(frames) IN
     \E i \in AheadLive(f) :
       LET n == head[f.hook][i] IN
       /\ \A j \in AheadLive(f) : i <= j
       /\ frames' = Front(frames) \o <<[f EXCEPT !.hp = n, !.called = @ \cup {callback[n]}]>>
  /\ UNCHANGED <<head, callback, priority, dirtyhooks, closing>>

Outermost == Len(frames) = 1

ListDone ==
  /\ frames # <<>>
  /\ AheadLive(Last(frames)) = {}

\* An inner frame returns to the callback that triggered it.
Return ==
  /\ ListDone
  /\ ~Outermost
  /\ frames' = Front(frames)
  /\ UNCHANGED <<head, callback, priority, dirtyhooks, closing>>

\* The outermost frame is done with its own hook and triggers HOOK_CORE_ENDOFHOOKSQUEUE.
EndOfHooksQueue ==
  /\ ListDone
  /\ Outermost /\ ~closing
  /\ frames' = <<Begin(ENDOFHOOKSQUEUE)>>
  /\ closing' = TRUE
  /\ UNCHANGED <<head, callback, priority, dirtyhooks>>

\* What is left of a list: the nodes with a callback, in their order.
Swept(s) ==
  CHOOSE t \in SetToSeqs({n \in ToSet(s) : callback[n] # NULL}) :
    \A i, j \in DOMAIN t : i < j => Place(s, t[i]) < Place(s, t[j])

\* The end-of-queue hook is done: the deregistered nodes of the dirty hooks are freed.
collectgarbage ==
  /\ ListDone
  /\ Outermost /\ closing
  /\ head' = [h \in HookNums |-> IF h \in ToSet(dirtyhooks) THEN Swept(head[h]) ELSE head[h]]
  /\ dirtyhooks' = <<>>
  /\ frames' = <<>>
  /\ closing' = FALSE
  /\ UNCHANGED <<callback, priority>>

Next ==
  \/ \E h \in HookNums, cb \in Callbacks : deregisterhook(h, cb)
  \/ \E h \in HookNums, cb \in Callbacks, p \in Priorities : registerpriorityhook(h, cb, p)
  \/ \E h \in HookNums : triggerhook(h)
  \/ CallNext \/ Return \/ EndOfHooksQueue \/ collectgarbage

Spec == Init /\ [][Next]_vars

-----------------------------------------------------------------------------
\* Types of the hook state; no node is in two lists or twice in one.
TypeOK ==
  /\ head \in [HookNums -> Seq(Nodes)]
  /\ \A h \in HookNums : IsInjective(head[h])
  /\ \A h, k \in HookNums : h # k => ToSet(head[h]) \cap ToSet(head[k]) = {}
  /\ callback \in [Nodes -> Callbacks \cup {NULL}]
  /\ priority \in [Nodes -> Int]
  /\ frames \in Seq(Frame)
  /\ dirtyhooks \in Seq(HookNums)
  /\ closing \in BOOLEAN

\* collectgarbage() and every running triggerhook(): the node whose callback a frame is in,
\* from which it will read the next pointer, has not been freed, at any depth of nesting, and no
\* list of nodes runs into another; yet every node that was deregistered will be freed, as its hook
\* is in dirtyhooks[HOOKMAX], which has one place for each hook and must not overflow.
NoDanglingNode ==
  /\ TypeOK
  /\ \A i \in DOMAIN frames : frames[i].hp # NULL => frames[i].hp \in ToSet(head[frames[i].hook])
  /\ Len(dirtyhooks) <= Cardinality(HookNums)
  /\ \A h \in HookNums : (\E n \in ToSet(head[h]) : callback[n] = NULL) => h \in ToSet(dirtyhooks)

\* triggerhook(): when a frame has reached the end of its list, every callback that was
\* registered when it started, and was not deregistered since, has been called, whatever
\* the callbacks before it registered, deregistered or triggered.
AllCalled ==
  \A i \in DOMAIN frames :
    frames[i].hp # NULL /\ AheadLive(frames[i]) = {} => frames[i].due \subseteq frames[i].called

\* The order of a hook's list after a step.
KeepsOrder(h) ==
  /\ \A i, j \in DOMAIN head'[h] : i < j => priority'[head'[h][i]] <= priority'[head'[h][j]]
  /\ \A n, m \in ToSet(head[h]) \cap ToSet(head'[h]) :
       Place(head[h], n) < Place(head[h], m) => Place(head'[h], n) < Place(head'[h], m)
  /\ \A n \in ToSet(head'[h]) \ ToSet(head[h]) : \A m \in ToSet(head[h]) :
       priority[m] = priority'[n] => Place(head'[h], m) < Place(head'[h], n)

\* registerpriorityhook(): callbacks run lowest priority number first and, within one
\* priority, in the order they were registered; nothing that happens to a list changes the
\* order of the nodes that stay on it.
OrderKept == [][\A h \in HookNums : KeepsOrder(h)]_vars
=============================================================================
