------------------------------- MODULE MCLinks ------------------------------
(***************************************************************************)
(* What newserv waits for: the hub (four hubs, one of each behaviour: only *)
(* the third, behind the mute one, ever links), or the answers of either   *)
(* database to the queries of two modules. Each behaviour is one of the    *)
(* three, named by part; the others stay as they were initialised.         *)
(***************************************************************************)
EXTENDS IrcLink, TLC

CONSTANTS Query, Statements, Modules, NULL, NOBODY, ANON, FIRED

VARIABLES
  part,
  queue, querytail, sent, identifier, owner, calls, stack, gone,
  squeue, tail, sidentifier, sowner, scalls, sstack, sgone

BehaviourAll == (0 :> "closing") @@ (1 :> "mute") @@ (2 :> "good") @@ (3 :> "down")

pqsql == <<queue, querytail, sent, identifier, owner, calls, stack, gone>>
Pq == INSTANCE PqQueue WITH BareNamed <- FALSE, Unnamed <- FALSE

sqlite == <<squeue, tail, sidentifier, sowner, scalls, sstack, sgone>>
Sqlite == INSTANCE SqliteQueue WITH
  Query <- Statements, BareNamed <- FALSE, Unnamed <- FALSE, queue <- squeue, identifier <- sidentifier,
  owner <- sowner, calls <- scalls, stack <- sstack, gone <- sgone

\* QueriesProofs proves both refinements of all values that satisfy these.
ASSUME PqAssumption == Pq!QueueAssumption
ASSUME SqliteAssumption == Sqlite!QueueAssumption

MCInit == part \in {"irc", "pqsql", "sqlite"} /\ Init /\ Pq!Init /\ Sqlite!Init

\* When all modules are gone, nobody asks anything any more.
AllGone ==
  /\ \/ part = "pqsql" /\ gone = Modules /\ queue = <<>>
     \/ part = "sqlite" /\ sgone = Modules /\ squeue = <<>>
  /\ UNCHANGED <<vars, pqsql, sqlite>>

MCNext ==
  /\ UNCHANGED part
  /\ \/ part = "irc" /\ Next /\ UNCHANGED <<pqsql, sqlite>>
     \/ part = "pqsql" /\ Pq!Next /\ UNCHANGED <<vars, sqlite>>
     \/ part = "sqlite" /\ Sqlite!Next /\ UNCHANGED <<vars, pqsql>>
     \/ AllGone

MCSpec ==
  /\ MCInit /\ [][MCNext]_<<part, vars, pqsql, sqlite>>
  /\ part = "irc" => Fairness
  /\ Pq!Fairness /\ Sqlite!Fairness

-----------------------------------------------------------------------------
\* IrcLink: as long as one configured hub is good, the daemon ends up linked.
LinkedInTheEnd == part = "irc" => EventuallyLinked

\* PqQueue: pqsql.c does what dbapi.h promises.
PqImplementsQueries == Pq!ImplementsQueries

\* SqliteQueue: sqlite.c does what dbapi.h promises.
SqliteImplementsQueries == Sqlite!ImplementsQueries

\* PqQueue, SqliteQueue: every query that waits is answered or cancelled.
NoneForgotten == Pq!NoneForgotten /\ Sqlite!NoneForgotten
=============================================================================
