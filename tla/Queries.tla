------------------------------ MODULE Queries -------------------------------
(***************************************************************************)
(* What modules rely on when they ask the database something with          *)
(* dbasyncqueryf() (dbapi/dbapi.h): each query is answered once, in the    *)
(* order of asking, or its callback is called with NULL when the module    *)
(* that asked goes, and nothing is called in a module that is gone.        *)
(***************************************************************************)
EXTENDS Sequences, SequencesExt

CONSTANTS Query, Modules, NULL, NOBODY   \* NOBODY owns queries without a callback

VARIABLES
  waiting,  \* queries asked whose callback has not been called, oldest first
  owner,    \* the module a query's callback is in, NULL before it is asked
  calls,    \* what the callback was called with: the query's own answer, or NULL
  gone      \* modules that were unloaded

vars == <<waiting, owner, calls, gone>>

Init ==
  /\ waiting = <<>>
  /\ owner = [q \in Query |-> NULL]
  /\ calls = [q \in Query |-> <<>>]
  /\ gone = {}

Own(q, m) ==
  /\ owner[q] = NULL
  /\ m \notin gone
  /\ owner' = [owner EXCEPT ![q] = m]

Ask(q, m) ==
  /\ Own(q, m)
  /\ waiting' = Append(waiting, q)
  /\ UNCHANGED <<calls, gone>>

\* A query the database does not understand.
Refuse(q, m) ==
  /\ Own(q, m)
  /\ calls' = [calls EXCEPT ![q] = IF m = NOBODY THEN @ ELSE Append(@, NULL)]
  /\ UNCHANGED <<waiting, gone>>

Answer ==
  /\ waiting # <<>>
  /\ LET q == Head(waiting) IN
       /\ owner[q] \notin gone
       /\ calls' = [calls EXCEPT ![q] = IF owner[q] = NOBODY THEN @ ELSE Append(@, q)]
  /\ waiting' = Tail(waiting)
  /\ UNCHANGED <<owner, gone>>

Cancel(q) ==
  /\ owner[q] \in Modules \ gone
  /\ calls' = [calls EXCEPT ![q] = Append(@, NULL)]
  /\ \E i \in DOMAIN waiting : waiting[i] = q /\ waiting' = RemoveAt(waiting, i)
  /\ UNCHANGED <<owner, gone>>

Unload(m) ==
  /\ \A q \in ToSet(waiting) : owner[q] # m
  /\ gone' = gone \cup {m}
  /\ UNCHANGED <<waiting, owner, calls>>

Next ==
  \/ \E q \in Query, m \in Modules \cup {NOBODY} : Ask(q, m) \/ Refuse(q, m)
  \/ Answer
  \/ \E q \in Query : Cancel(q)
  \/ \E m \in Modules : Unload(m)

Spec == Init /\ [][Next]_vars

-----------------------------------------------------------------------------
\* The modules keep state between a query and its answer (a channel being registered, a
\* login going on): every query leaves the queue.
NoneForgotten == \A q \in Query : (q \in ToSet(waiting)) ~> (q \notin ToSet(waiting))
=============================================================================
