----------------------------- MODULE AuthRecords -----------------------------
(***************************************************************************)
(* Records of accounts, authext/authext.c, and who keeps them alive: nicks *)
(* that are logged in, the channel service's registered users (chanserv/)  *)
(* and the operator service's users (control/control_db.c). Services hang  *)
(* their own structure on the record as a persistent extension; a record   *)
(* goes with the last nick or extension.                                   *)
(*                                                                         *)
(* The channel service frees the user of a deleted account at once, or     *)
(* marks him dead while somebody is logged in.                             *)
(***************************************************************************)
EXTENDS Naturals, FiniteSets, FiniteSetsExt

CONSTANTS
  Users,        \* user IDs, 1..n
  Nicks,
  Regusers,     \* structures of the channel service
  Authedusers,  \* structures of the operator service
  NULL

VARIABLES
  authnametable,  \* for each user ID his record, or NULL
  auth,           \* the user ID of the record a nick points to, or NULL
  reguser,        \* NULL, or the ID and status of a reguser in use
  autheduser,     \* NULL, or the user ID of a no_autheduser in use
  lastuserID,
  loaded          \* the services that have not been unloaded

vars == <<authnametable, auth, reguser, autheduser, lastuserID, loaded>>

\* A record and a structure of the channel service.
AuthName == [usercount : Nat, nicks : SUBSET Nicks, chanserv : Regusers \cup {NULL}, noperserv : Authedusers \cup {NULL}]
Reguser == [ID : Users, dead : BOOLEAN]

\* There is a largest user ID, memory is finite, and the null pointer points at nothing.
AuthAssumption ==
  /\ Users \subseteq Nat
  /\ \E n \in Users \cup {0} : Users \subseteq 1 .. n
  /\ IsFiniteSet(Nicks)
  /\ NULL \notin Users \cup Regusers \cup Authedusers \cup AuthName \cup Reguser

NewRecord == [usercount |-> 0, nicks |-> {}, chanserv |-> NULL, noperserv |-> NULL]

\* findorcreateauthname()
FindOrCreate(u) == IF authnametable[u] = NULL THEN NewRecord ELSE authnametable[u]

\* MUTANT: a record goes with the last nick.
Bug_Released(anp) == IF anp.usercount = 0 THEN NULL ELSE anp

\* releaseauthname()
Released(anp) ==
  IF anp.usercount = 0 /\ anp.chanserv = NULL /\ anp.noperserv = NULL THEN NULL ELSE anp

Free(structs) == {s \in DOMAIN structs : structs[s] = NULL}

\* The databases' users, as loadsomeusers() and noperserv_load_users() make records of them.
Loaded(registered, authed) ==
  /\ authnametable = [u \in Users |->
       IF u \notin DOMAIN registered \cup DOMAIN authed THEN NULL
       ELSE [NewRecord EXCEPT !.chanserv = IF u \in DOMAIN registered THEN registered[u] ELSE NULL,
                              !.noperserv = IF u \in DOMAIN authed THEN authed[u] ELSE NULL]]
  /\ reguser = [r \in Regusers |-> IF \E u \in DOMAIN registered : registered[u] = r
                                   THEN [ID |-> CHOOSE u \in DOMAIN registered : registered[u] = r, dead |-> FALSE]
                                   ELSE NULL]
  /\ autheduser = [a \in Authedusers |-> IF \E u \in DOMAIN authed : authed[u] = a
                                         THEN CHOOSE u \in DOMAIN authed : authed[u] = a ELSE NULL]
  /\ lastuserID = Max({0} \cup DOMAIN registered)

Distinct(S, T) == {f \in [S -> T] : \A x, y \in S : f[x] = f[y] => x = y}

Init ==
  /\ auth = [n \in Nicks |-> NULL]
  /\ loaded = {"chanserv", "noperserv"}
  /\ \E S, T \in SUBSET Users : \E f \in Distinct(S, Regusers), g \in Distinct(T, Authedusers) : Loaded(f, g)

-----------------------------------------------------------------------------
\* handlenickmsg(), handleaccountmsg() and localusersetaccount() log a nick in and call hooks, in
\* which cs_checknick() registers a user it does not know.
Login(n, u) ==
  /\ auth[n] = NULL
  /\ auth' = [auth EXCEPT ![n] = u]
  /\ LET anp == [FindOrCreate(u) EXCEPT !.usercount = @ + 1, !.nicks = @ \cup {n}] IN
       IF "chanserv" \in loaded /\ anp.chanserv = NULL
       THEN \E r \in Free(reguser) :
              /\ reguser' = [reguser EXCEPT ![r] = [ID |-> u, dead |-> FALSE]]
              /\ authnametable' = [authnametable EXCEPT ![u] = [anp EXCEPT !.chanserv = r]]
              /\ lastuserID' = Max({u, lastuserID})
       ELSE /\ authnametable' = [authnametable EXCEPT ![u] = anp]
            /\ UNCHANGED <<reguser, lastuserID>>
  /\ UNCHANGED <<autheduser, loaded>>

\* deletenick(), with cs_handlelostnick() in the hook that it calls first.
deletenick(n) ==
  /\ auth[n] # NULL
  /\ LET u == auth[n]
         anp == authnametable[u]
         r == anp.chanserv
     IN /\ reguser' = IF "chanserv" \in loaded /\ r # NULL /\ reguser[r].dead /\ anp.usercount = 1
                      THEN [reguser EXCEPT ![r] = NULL] ELSE reguser
        /\ authnametable' = [authnametable EXCEPT
                               ![u] = Released([anp EXCEPT !.usercount = @ - 1, !.nicks = @ \ {n}])]
  /\ auth' = [auth EXCEPT ![n] = NULL]
  /\ UNCHANGED <<autheduser, lastuserID, loaded>>

\* csa_createaccount()
CreateAccount ==
  /\ "chanserv" \in loaded
  /\ lastuserID + 1 \in Users
  /\ lastuserID' = lastuserID + 1
  /\ \E r \in Free(reguser) :
       /\ reguser' = [reguser EXCEPT ![r] = [ID |-> lastuserID', dead |-> FALSE]]
       /\ authnametable' = [authnametable EXCEPT ![lastuserID'] = [FindOrCreate(lastuserID') EXCEPT !.chanserv = r]]
  /\ UNCHANGED <<auth, autheduser, loaded>>

\* cs_removeuser(), by the command DELUSER or by the clean-up of unused accounts. The last user
\* stays, so that his ID is not given away again.
cs_removeuser(r) ==
  /\ "chanserv" \in loaded
  /\ reguser[r] # NULL
  /\ ~reguser[r].dead
  /\ reguser[r].ID # lastuserID
  /\ LET u == reguser[r].ID
         anp == Released([authnametable[u] EXCEPT !.chanserv = NULL])
     IN /\ authnametable' = [authnametable EXCEPT ![u] = anp]
        /\ reguser' = [reguser EXCEPT ![r] = IF anp # NULL /\ anp.nicks # {} THEN [@ EXCEPT !.dead = TRUE] ELSE NULL]
  /\ UNCHANGED <<auth, autheduser, lastuserID, loaded>>

\* The operator service's ADDUSER, for somebody who is logged in.
AddUser(u) ==
  /\ "noperserv" \in loaded
  /\ authnametable[u] # NULL
  /\ authnametable[u].nicks # {}
  /\ authnametable[u].noperserv = NULL
  /\ \E a \in Free(autheduser) :
       /\ autheduser' = [autheduser EXCEPT ![a] = u]
       /\ authnametable' = [authnametable EXCEPT ![u].noperserv = a]
  /\ UNCHANGED <<auth, reguser, lastuserID, loaded>>

\* noperserv_delete_autheduser()
DelUser(a) ==
  /\ "noperserv" \in loaded
  /\ autheduser[a] # NULL
  /\ autheduser' = [autheduser EXCEPT ![a] = NULL]
  /\ authnametable' = [authnametable EXCEPT ![autheduser[a]] = Released([@ EXCEPT !.noperserv = NULL])]
  /\ UNCHANGED <<auth, reguser, lastuserID, loaded>>

\* releaseauthnameext() clears the extension of all records, and releases none of them.
Cleared(ext) ==
  authnametable' = [u \in Users |-> IF authnametable[u] = NULL THEN NULL ELSE [authnametable[u] EXCEPT ![ext] = NULL]]

\* chanservdb's memory goes with the module.
UnloadChanserv ==
  /\ "chanserv" \in loaded
  /\ loaded' = loaded \ {"chanserv"}
  /\ Cleared("chanserv")
  /\ reguser' = [r \in Regusers |-> NULL]
  /\ UNCHANGED <<auth, autheduser, lastuserID>>

\* The extensions are cleared before noperserv_cleanup_db() looks for users to free: it finds none.
UnloadNoperserv ==
  /\ "noperserv" \in loaded
  /\ loaded' = loaded \ {"noperserv"}
  /\ Cleared("noperserv")
  /\ UNCHANGED <<auth, reguser, autheduser, lastuserID>>

Next ==
  \/ \E n \in Nicks, u \in Users : Login(n, u)
  \/ \E n \in Nicks : deletenick(n)
  \/ CreateAccount
  \/ \E r \in Regusers : cs_removeuser(r)
  \/ \E u \in Users : AddUser(u)
  \/ \E a \in Authedusers : DelUser(a)
  \/ UnloadChanserv
  \/ UnloadNoperserv

Spec == Init /\ [][Next]_vars

-----------------------------------------------------------------------------
\* findorcreateauthname(), releaseauthname(): nicks and services that come and go in any order share
\* one record, which knows all of them; no service's user is lost with his last nick, and no record
\* stays for nobody unless a service was unloaded.
RecordsExact ==
  /\ \A u \in Users :
       LET on == {n \in Nicks : auth[n] = u}
           anp == authnametable[u]
       IN IF anp = NULL THEN on = {}
          ELSE /\ anp.nicks = on
               /\ anp.usercount = Cardinality(on)
               /\ anp.chanserv # NULL => reguser[anp.chanserv] = [ID |-> u, dead |-> FALSE]
               /\ anp.noperserv # NULL => autheduser[anp.noperserv] = u
               /\ on # {} \/ anp.chanserv # NULL \/ anp.noperserv # NULL \/ loaded # {"chanserv", "noperserv"}
  /\ \A r \in Regusers \ Free(reguser) :
       ~reguser[r].dead => authnametable[reguser[r].ID] # NULL /\ authnametable[reguser[r].ID].chanserv = r
  /\ \A a \in Authedusers \ Free(autheduser) :
       "noperserv" \in loaded => authnametable[autheduser[a]] # NULL /\ authnametable[autheduser[a]].noperserv = a

\* cs_handlelostnick(): the user of a deleted account is freed when the last nick that is logged in
\* to the account leaves.
DeadAreFreed ==
  \A r \in Regusers \ Free(reguser) : reguser[r].dead => \E n \in Nicks : auth[n] = reguser[r].ID
=============================================================================
