------------------------------ MODULE PqQueue -------------------------------
(***************************************************************************)
(* The queue of asynchronous queries of pqsql/pqsql.c. Its head is at the  *)
(* server; dbhandler() calls the head's callback when the answer is there, *)
(* frees it and sends the next one. pqfreeid() calls the callbacks of a    *)
(* module that goes with NULL. Callbacks ask further queries, in both.     *)
(*                                                                         *)
(* The list is a sequence; querytail is a pointer of its own, since a      *)
(* query is linked behind whatever it points to. A frame is a C function   *)
(* that has called a callback, with the query it is about.                 *)
(***************************************************************************)
EXTENDS Naturals, Sequences, SequencesExt, FiniteSetsExt

CONSTANTS
  Query, Modules, NULL, NOBODY,
  ANON,        \* DB_NULLIDENTIFIER
  FIRED,       \* QH_ALREADYFIRED
  BareNamed,   \* whether queries without a callback carry a module's identifier
  Unnamed      \* whether queries with a callback carry none

VARIABLES
  queue,       \* queryhead and what follows it
  querytail,
  sent,        \* the query the server is working on
  identifier, owner, calls,
  stack,       \* frames, the innermost first
  gone

vars == <<queue, querytail, sent, identifier, owner, calls, stack, gone>>

\* What the identifiers of pqsql.h are: none of them is a module's, and no pointer is NULL.
QueueAssumption ==
  /\ NULL \notin Query \cup Modules \cup {NOBODY}
  /\ NOBODY \notin Modules /\ ANON \notin Modules /\ FIRED \notin Modules /\ ANON # FIRED

\* The identifier and the owner a query can be asked with.
Kinds ==
  {<<m, m>> : m \in Modules} \cup {<<ANON, NOBODY>>}
    \cup (IF BareNamed THEN Modules \X {NOBODY} ELSE {})
    \cup (IF Unnamed THEN {ANON} \X Modules ELSE {})

Init ==
  /\ queue = <<>>
  /\ querytail = NULL
  /\ sent = NULL
  /\ identifier = [q \in Query |-> ANON]
  /\ owner = [q \in Query |-> NULL]
  /\ calls = [q \in Query |-> <<>>]
  /\ stack = <<>>
  /\ gone = {}

\* The place of q in list s.
Place(s, q) == CHOOSE i \in DOMAIN s : s[i] = q

Freeing == \E i \in DOMAIN stack : stack[i].f = "freeid"

-----------------------------------------------------------------------------
\* querytail->next = qp: a stale querytail cuts the list off or loses the query.
Linked(q) ==
  IF querytail = NULL THEN <<q>>
  ELSE IF Contains(queue, querytail)
       THEN Append(SubSeq(queue, 1, Place(queue, querytail)), q)
       ELSE queue

\* MUTANT: the query is linked and not sent.
Bug_NotSubmitted(q) == sent' = sent

\* Only a query that waits for no other is sent at once.
Submitted(q) == sent' = IF querytail = NULL THEN q ELSE sent

pqasyncqueryf(q, kind) ==
  /\ owner[q] = NULL
  /\ {kind[1], kind[2]} \cap gone = {}
  /\ identifier' = [identifier EXCEPT ![q] = kind[1]]
  /\ owner' = [owner EXCEPT ![q] = kind[2]]
  /\ queue' = Linked(q)
  /\ querytail' = q
  /\ Submitted(q)
  /\ UNCHANGED <<calls, stack, gone>>

\* MUTANT: the tail is not reset when the last query leaves.
Bug_TailKept ==
  /\ queue' = Tail(queue)
  /\ querytail' = querytail
  /\ sent' = IF Len(queue) > 1 THEN queue[2] ELSE NULL

\* dbhandler() from line 210: free the head and send the next query.
Advance ==
  /\ queue' = Tail(queue)
  /\ querytail' = IF querytail = Head(queue) THEN NULL ELSE querytail
  /\ sent' = IF Len(queue) > 1 THEN queue[2] ELSE NULL

Callable(q) == owner[q] # NOBODY /\ identifier[q] # FIRED

\* The answer of the query at the server goes to the callback of the head.
dbhandler ==
  /\ stack = <<>>
  /\ queue # <<>> /\ sent # NULL
  /\ LET q == Head(queue) IN
     IF Callable(q)
     THEN /\ calls' = [calls EXCEPT ![q] = Append(@, sent)]
          /\ stack' = <<[f |-> "dbhandler", q |-> q, m |-> NULL]>>
          /\ UNCHANGED <<queue, querytail, sent>>
     ELSE /\ Advance
          /\ UNCHANGED <<calls, stack>>
  /\ UNCHANGED <<identifier, owner, gone>>

Answered ==
  /\ stack # <<>>
  /\ Head(stack).f = "dbhandler"
  /\ Advance
  /\ stack' = Tail(stack)
  /\ UNCHANGED <<identifier, owner, calls, gone>>

-----------------------------------------------------------------------------
\* The places of list s behind place i that pqfreeid(m) is going to fire.
Matches(s, i, m) == {j \in DOMAIN s : j > i /\ identifier[s[j]] = m}

\* pqfreeid() walks on from place i of list s until the next callback, or to its end, where the
\* module that called it is unloaded.
Walk(s, i, m, below) ==
  LET js == Matches(s, i, m) IN
  /\ queue' = s
  /\ IF js = {}
     THEN /\ querytail' = Last(s)
          /\ stack' = below
          /\ gone' = gone \cup {m}
          /\ UNCHANGED calls
     ELSE LET q == s[Min(js)] IN
          /\ calls' = [calls EXCEPT ![q] = Append(@, NULL)]
          /\ stack' = <<[f |-> "freeid", q |-> q, m |-> m]>> \o below
          /\ UNCHANGED <<querytail, gone>>

\* A module is not unloaded from inside of its own callback, nor while another is being unloaded.
pqfreeid(m) ==
  /\ m \notin gone
  /\ ~Freeing
  /\ stack # <<>> => owner[Head(stack).q] # m
  /\ IF queue = <<>>
     THEN gone' = gone \cup {m} /\ UNCHANGED <<queue, querytail, stack, calls>>
     ELSE Walk(queue, 0, m, stack)
  /\ UNCHANGED <<sent, identifier, owner>>

\* The callback returns: the head stays, for its answer is still to come; others are unlinked.
Fired ==
  /\ stack # <<>>
  /\ Head(stack).f = "freeid"
  /\ LET q == Head(stack).q
         m == Head(stack).m
         i == Place(queue, q) IN
     IF i = 1
     THEN /\ identifier' = [identifier EXCEPT ![q] = FIRED]
          /\ Walk(queue, 1, m, Tail(stack))
     ELSE /\ Walk(RemoveAt(queue, i), i - 1, m, Tail(stack))
          /\ UNCHANGED identifier
  /\ UNCHANGED <<sent, owner>>

Next ==
  \/ \E q \in Query, kind \in Kinds : pqasyncqueryf(q, kind)
  \/ dbhandler
  \/ Answered
  \/ \E m \in Modules : pqfreeid(m)
  \/ Fired

Fairness == WF_vars(dbhandler) /\ WF_vars(Answered) /\ WF_vars(Fired)
Spec == Init /\ [][Next]_vars
FairSpec == Spec /\ Fairness

-----------------------------------------------------------------------------
\* The places of list s at which there is an element of S, and which of some places i is.
PlacesOf(s, S) == {i \in DOMAIN s : s[i] \in S}
Rank(P, i) == Cardinality({j \in P : j <= i})

\* The elements of list s that are in S, in their order.
Only(s, S) ==
  LET P == PlacesOf(s, S) IN
  [k \in 1 .. Cardinality(P) |-> s[CHOOSE i \in P : Rank(P, i) = k]]

\* A query whose callback has been called waits no longer, though it may still be in the list.
Uncalled == {q \in Query : calls[q] = <<>>}
Waiting == Only(queue, Uncalled)
Contract == INSTANCE Queries WITH waiting <- Waiting

\* pqasyncqueryf(), dbhandler(), pqfreeid(): each callback is called once, in order and with its
\* own answer, or with NULL before its module goes, however callbacks and unloads fall together.
ImplementsQueries == Contract!Spec

\* dbhandler(): every query that waits is answered or cancelled.
NoneForgotten == Contract!NoneForgotten
=============================================================================
