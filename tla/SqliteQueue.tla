----------------------------- MODULE SqliteQueue ----------------------------
(***************************************************************************)
(* The queue of asynchronous queries of sqlite/sqlite.c. A query is run at *)
(* once if nothing is queued and the database is not busy, and its callback*)
(* called before sqliteasyncqueryf() returns; otherwise it waits for the   *)
(* timer's sqlitequeueprocessor(). sqlitefreeid() cancels the queries of a *)
(* module that goes. Callbacks ask further queries, in all three.          *)
(*                                                                         *)
(* A frame is a C function that is about to step a statement ("run") or    *)
(* has called a callback, with the query it is about.                      *)
(***************************************************************************)
EXTENDS Naturals, Sequences, SequencesExt, FiniteSetsExt

CONSTANTS
  Query, Modules, NULL, NOBODY,
  ANON,        \* identifier 0
  BareNamed,   \* whether queries without a callback carry a module's identifier
  Unnamed      \* whether queries with a callback carry none, as those of sqliteloadtable()

VARIABLES
  queue,       \* head and what follows it
  tail,
  identifier, owner, calls,
  stack,       \* frames, the innermost first
  gone

vars == <<queue, tail, identifier, owner, calls, stack, gone>>

\* What the identifiers of dbapi.h are: 0 is no module's, and no pointer is NULL.
QueueAssumption ==
  /\ NULL \notin Query \cup Modules \cup {NOBODY}
  /\ NOBODY \notin Modules /\ ANON \notin Modules

\* The identifier and the owner a query can be asked with.
Kinds ==
  {<<m, m>> : m \in Modules} \cup {<<ANON, NOBODY>>}
    \cup (IF BareNamed THEN Modules \X {NOBODY} ELSE {})
    \cup (IF Unnamed THEN {ANON} \X Modules ELSE {})

Init ==
  /\ queue = <<>>
  /\ tail = NULL
  /\ identifier = [q \in Query |-> ANON]
  /\ owner = [q \in Query |-> NULL]
  /\ calls = [q \in Query |-> <<>>]
  /\ stack = <<>>
  /\ gone = {}

In(f) == stack # <<>> /\ Head(stack).f = f
Freeing == \E i \in DOMAIN stack : stack[i].f = "free"
Frame(f, q, m) == [f |-> f, q |-> q, m |-> m]

\* processstatement() calls the callback with a result, if there is one.
Called(q) == calls' = [calls EXCEPT ![q] = IF owner[q] = NOBODY THEN @ ELSE Append(@, q)]

-----------------------------------------------------------------------------
\* pushqueue(): the list loses its elements if tail is NULL, and is cut off if tail is stale.
Pushed(q) ==
  IF tail = NULL THEN <<q>>
  ELSE IF Contains(queue, tail)
       THEN Append(SubSeq(queue, 1, CHOOSE i \in DOMAIN queue : queue[i] = tail), q)
       ELSE queue

\* Nobody asks while a statement is being run: that is a call of SQLite.
Asks(q, kind) ==
  /\ owner[q] = NULL
  /\ ~In("run")
  /\ {kind[1], kind[2]} \cap gone = {}
  /\ identifier' = [identifier EXCEPT ![q] = kind[1]]
  /\ owner' = [owner EXCEPT ![q] = kind[2]]
  /\ UNCHANGED gone

\* sqlite3_prepare() fails; the callback is called with NULL.
AskRefused(q, kind) ==
  /\ Asks(q, kind)
  /\ IF kind[2] = NOBODY THEN UNCHANGED <<calls, stack>>
     ELSE /\ calls' = [calls EXCEPT ![q] = Append(@, NULL)]
          /\ stack' = <<Frame("called", q, NULL)>> \o stack
  /\ UNCHANGED <<queue, tail>>

\* MUTANT: a query is run at once when the database is free, whatever waits.
Bug_RunAtOnce(q, kind) ==
  /\ Asks(q, kind)
  /\ stack' = <<Frame("run", q, NULL)>> \o stack
  /\ UNCHANGED <<queue, tail, calls>>

AskRun(q, kind) ==
  /\ Asks(q, kind)
  /\ queue = <<>>
  /\ stack' = <<Frame("run", q, NULL)>> \o stack
  /\ UNCHANGED <<queue, tail, calls>>

\* Something is queued, or the database turns out to be busy.
AskQueued(q, kind) ==
  /\ Asks(q, kind)
  /\ queue' = Pushed(q)
  /\ tail' = q
  /\ UNCHANGED <<calls, stack>>

sqliteasyncqueryf(q, kind) == AskRefused(q, kind) \/ AskRun(q, kind) \/ AskQueued(q, kind)

\* The statement of a query that is run at once has been stepped.
Ran ==
  /\ In("run")
  /\ LET q == Head(stack).q IN
       /\ Called(q)
       /\ stack' = (IF owner[q] = NOBODY THEN <<>> ELSE <<Frame("called", q, NULL)>>) \o Tail(stack)
  /\ UNCHANGED <<queue, tail, identifier, owner, gone>>

\* The callback of a query that was not queued returns.
Returned ==
  /\ In("called")
  /\ stack' = Tail(stack)
  /\ UNCHANGED <<queue, tail, identifier, owner, calls, gone>>

-----------------------------------------------------------------------------
\* sqlitequeueprocessor() goes on with list s: the head's statement is stepped, and the callback
\* called, unless the list is at its end or the database is busy.
ProcessNext(s) ==
  \/ stack' = <<>> /\ UNCHANGED calls
  \/ /\ s # <<>>
     /\ Called(Head(s))
     /\ stack' = <<Frame("process", Head(s), NULL)>>

sqlitequeueprocessor ==
  /\ stack = <<>>
  /\ queue # <<>>
  /\ ProcessNext(queue)
  /\ stack' # <<>>
  /\ UNCHANGED <<queue, tail, identifier, owner, gone>>

popqueue ==
  /\ queue' = Tail(queue)
  /\ tail' = IF Head(queue) = tail THEN NULL ELSE tail

Processed ==
  /\ In("process")
  /\ popqueue
  /\ ProcessNext(queue')
  /\ UNCHANGED <<identifier, owner, gone>>

-----------------------------------------------------------------------------
\* sqlitefreeid() walks on from place i: the next query of the module is unlinked, its callback called.
\* At the end of the list the module that called it is unloaded.
Walk(i, m, below) ==
  LET js == {j \in DOMAIN queue : j > i /\ identifier[queue[j]] = m} IN
  IF js = {}
  THEN /\ stack' = below
       /\ gone' = gone \cup {m}
       /\ UNCHANGED <<queue, tail, calls>>
  ELSE LET j == Min(js)
           q == queue[j] IN
       /\ queue' = RemoveAt(queue, j)
       /\ tail' = IF q # tail THEN tail ELSE IF j = 1 THEN NULL ELSE queue[j - 1]
       /\ calls' = [calls EXCEPT ![q] = Append(@, NULL)]
       /\ stack' = <<[f |-> "free", q |-> q, m |-> m, at |-> j - 1]>> \o below
       /\ UNCHANGED gone

\* A module is not unloaded from inside of its own callback, nor while another is being unloaded.
sqlitefreeid(m) ==
  /\ m \notin gone
  /\ ~Freeing
  /\ ~In("run")
  /\ \A i \in DOMAIN stack : owner[stack[i].q] # m
  /\ Walk(0, m, stack)
  /\ UNCHANGED <<identifier, owner>>

Freed ==
  /\ In("free")
  /\ Walk(Head(stack).at, Head(stack).m, Tail(stack))
  /\ UNCHANGED <<identifier, owner>>

Next ==
  \/ \E q \in Query, kind \in Kinds : sqliteasyncqueryf(q, kind)
  \/ Ran
  \/ Returned
  \/ sqlitequeueprocessor
  \/ Processed
  \/ \E m \in Modules : sqlitefreeid(m)
  \/ Freed

Fairness ==
  /\ WF_vars(Ran) /\ WF_vars(Returned) /\ WF_vars(Processed) /\ WF_vars(Freed)
  /\ WF_vars(sqlitequeueprocessor)
Spec == Init /\ [][Next]_vars
FairSpec == Spec /\ Fairness

-----------------------------------------------------------------------------
\* The head whose callback sqlitequeueprocessor() has called waits no longer; a query that is about
\* to be run at once waits, too, behind nothing.
Processing == stack # <<>> /\ Last(stack).f = "process"
Listed == IF Processing THEN Tail(queue) ELSE queue
Waiting == IF In("run") THEN Append(Listed, Head(stack).q) ELSE Listed
Contract == INSTANCE Queries WITH waiting <- Waiting

\* sqliteasyncqueryf(), sqlitequeueprocessor(), sqlitefreeid(): each callback is called once, in
\* order and with its own answer, or with NULL when its query is refused or before its module goes.
ImplementsQueries == Contract!Spec

\* sqlitequeueprocessor(): every query that waits is answered or cancelled.
NoneForgotten == Contract!NoneForgotten

\* _fini(): "we assume every module that's being unloaded" has cleaned up its queries with
\* freeid(): no query waits whose callback is in a module that is gone.
CleanedUp == \A i \in DOMAIN queue : owner[queue[i]] \notin gone
=============================================================================
