--------------------------- MODULE AccountsProofs ---------------------------
(***************************************************************************)
(* Proofs about AuthRecords as MCAccounts instantiates it, for any users,  *)
(* nicks and structures of the two services.                               *)
(***************************************************************************)
EXTENDS MCAccounts, FiniteSetTheorems, WellFoundedInduction, TLAPS

Typed ==
  /\ records \in [UserIDs -> Accounts!AuthName \cup {NULL}]
  /\ auth \in [AuthNicks -> UserIDs \cup {NULL}]
  /\ reguser \in [Regusers -> Accounts!Reguser \cup {NULL}]
  /\ autheduser \in [Authedusers -> UserIDs \cup {NULL}]
  /\ lastuserID \in Nat

\* Who is logged in.
On(u) == {n \in AuthNicks : auth[n] = u}

\* The record of u is as it should be.
RecordOK(u) ==
  IF records[u] = NULL THEN On(u) = {}
  ELSE /\ records[u].nicks = On(u)
       /\ records[u].usercount = Cardinality(On(u))
       /\ records[u].chanserv # NULL => reguser[records[u].chanserv] = [ID |-> u, dead |-> FALSE]
       /\ records[u].noperserv # NULL => autheduser[records[u].noperserv] = u
       /\ \/ On(u) # {} \/ records[u].chanserv # NULL \/ records[u].noperserv # NULL
          \/ loaded # {"chanserv", "noperserv"}

\* A structure of a service is in the record of its user.
ReguserOK(r) ==
  reguser[r] # NULL /\ ~reguser[r].dead =>
    records[reguser[r].ID] # NULL /\ records[reguser[r].ID].chanserv = r
AutheduserOK(a) ==
  autheduser[a] # NULL /\ "noperserv" \in loaded =>
    records[autheduser[a]] # NULL /\ records[autheduser[a]].noperserv = a

\* IDs are not given away twice.
IDsTaken == \A r \in Regusers : reguser[r] # NULL => reguser[r].ID <= lastuserID

AccountsInv ==
  /\ Typed
  /\ \A u \in UserIDs : RecordOK(u)
  /\ \A r \in Regusers : ReguserOK(r)
  /\ \A a \in Authedusers : AutheduserOK(a)
  /\ IDsTaken

-----------------------------------------------------------------------------
(* Numbers and sets. *)

LEMMA SameCardinality == \A S : Accounts!Cardinality(S) = Cardinality(S)
  BY DEF Accounts!Cardinality, Cardinality

\* Who is on an account can be counted.
LEMMA OnFacts ==
  ASSUME IsFiniteSet(AuthNicks), NEW u
  PROVE  /\ IsFiniteSet(On(u)) /\ Cardinality(On(u)) \in Nat
         /\ Cardinality(On(u)) = 0 <=> On(u) = {}
<1>1. On(u) \in SUBSET AuthNicks
  BY DEF On
<1>2. IsFiniteSet(On(u))
  BY <1>1, FS_Subset
<1> QED BY <1>2, FS_CardinalityType, FS_EmptySet

\* The larger of two numbers.
LEMMA LargerOfTwo ==
  ASSUME NEW m \in Nat, NEW n \in Nat
  PROVE  Accounts!Max({m, n}) \in Nat /\ m <= Accounts!Max({m, n}) /\ n <= Accounts!Max({m, n})
<1>1. \E x \in {m, n} : \A y \in {m, n} : x >= y
  OBVIOUS
<1>2. Accounts!Max({m, n}) \in {m, n} /\ \A y \in {m, n} : Accounts!Max({m, n}) >= y
  BY <1>1 DEF Accounts!Max
<1> QED BY <1>2

\* A set of numbers that is not empty has a least one: what induction over numbers is made of.
LEMMA LeastNat ==
  ASSUME NEW T, T \subseteq Nat, T # {}
  PROVE  \E x \in T : \A y \in T : x <= y
<1> DEFINE R == OpToRel(<, Nat)
<1>1. IsWellFoundedOn(R, Nat)
  BY NatLessThanWellFounded
<1>2. \A x, y \in Nat : x < y => <<x, y>> \in R
  BY DEF OpToRel
<1> HIDE DEF R
<1>3. \E x \in T : \A y \in T : ~ (<<y, x>> \in R)
  BY <1>1, WFMin
<1>4. \A x, y \in Nat : ~(y < x) => x <= y
  OBVIOUS
<1> QED BY <1>2, <1>3, <1>4

\* The largest ID of some users: the least of their bounds.
LEMMA LargestID ==
  ASSUME Accounts!AuthAssumption, NEW S \in SUBSET UserIDs
  PROVE  /\ Accounts!Max({0} \cup S) \in Nat
         /\ \A u \in S : u <= Accounts!Max({0} \cup S)
<1> DEFINE T == {0} \cup S
           B == {b \in Nat : \A u \in T : u <= b}
<1>1. T \subseteq Nat
  BY DEF Accounts!AuthAssumption
<1>2. PICK m \in UserIDs \cup {0} : UserIDs \subseteq 1 .. m
  BY DEF Accounts!AuthAssumption
<1>3. m \in Nat
  BY DEF Accounts!AuthAssumption
<1>4. m \in B
  BY <1>1, <1>2, <1>3
<1>5. PICK b \in B : \A c \in B : b <= c
  BY <1>4, LeastNat
<1>6. b \in T
  <2>1. SUFFICES ASSUME b \notin T PROVE FALSE
    OBVIOUS
  <2>2. b - 1 \in Nat /\ \A u \in T : u <= b - 1
    BY <1>1, <1>5, <2>1
  <2>3. b - 1 \in B
    BY <2>2
  <2> QED BY <1>5, <2>3
<1>7. \E x \in T : \A y \in T : x >= y
  BY <1>1, <1>5, <1>6
<1>8. Accounts!Max(T) \in T /\ \A y \in T : Accounts!Max(T) >= y
  BY <1>7 DEF Accounts!Max
<1> QED BY <1>1, <1>8

-----------------------------------------------------------------------------
(* The records. *)

LEMMA NameFields ==
  ASSUME NEW a \in Accounts!AuthName
  PROVE  /\ a = [usercount |-> a.usercount, nicks |-> a.nicks, chanserv |-> a.chanserv,
           noperserv |-> a.noperserv]
         /\ a.usercount \in Nat /\ a.nicks \subseteq AuthNicks
         /\ a.chanserv \in Regusers \cup {NULL} /\ a.noperserv \in Authedusers \cup {NULL}
  BY DEF Accounts!AuthName

\* findorcreateauthname()
LEMMA FoundOrCreated ==
  ASSUME Accounts!AuthAssumption, AccountsInv, NEW u \in UserIDs
  PROVE  LET a == Accounts!FindOrCreate(u) IN
         /\ a \in Accounts!AuthName
         /\ a.nicks = On(u) /\ a.usercount = Cardinality(On(u))
         /\ a.chanserv = IF records[u] = NULL THEN NULL ELSE records[u].chanserv
         /\ a.noperserv = IF records[u] = NULL THEN NULL ELSE records[u].noperserv
<1> DEFINE a == Accounts!FindOrCreate(u)
<1>1. RecordOK(u) /\ records[u] \in Accounts!AuthName \cup {NULL}
  BY DEF AccountsInv, Typed
<1>2. CASE records[u] = NULL
  <2>1. a = Accounts!NewRecord /\ On(u) = {} /\ Cardinality(On(u)) = 0
    BY <1>1, <1>2, FS_EmptySet DEF Accounts!FindOrCreate, RecordOK
  <2> QED BY <1>2, <2>1 DEF Accounts!NewRecord, Accounts!AuthName
<1>3. CASE records[u] # NULL
  <2>1. a = records[u] /\ a \in Accounts!AuthName
    BY <1>1, <1>3 DEF Accounts!FindOrCreate
  <2> QED BY <1>1, <1>3, <2>1 DEF RecordOK
<1> QED BY <1>2, <1>3

\* releaseauthname()
LEMMA ReleasedIs ==
  ASSUME NEW a
  PROVE  Accounts!Released(a) = IF a.usercount = 0 /\ a.chanserv = NULL /\ a.noperserv = NULL THEN NULL ELSE a
  BY DEF Accounts!Released

\* Two users do not share a structure.
LEMMA OwnStructures ==
  ASSUME Accounts!AuthAssumption, AccountsInv, NEW u \in UserIDs, records[u] # NULL
  PROVE  /\ records[u] \in Accounts!AuthName
         /\ records[u].chanserv # NULL =>
              /\ records[u].chanserv \in Regusers
              /\ reguser[records[u].chanserv] = [ID |-> u, dead |-> FALSE]
              /\ reguser[records[u].chanserv] # NULL
         /\ records[u].noperserv # NULL =>
              records[u].noperserv \in Authedusers /\ autheduser[records[u].noperserv] = u
<1>1. RecordOK(u) /\ records[u] \in Accounts!AuthName
  BY DEF AccountsInv, Typed
<1>2. [ID |-> u, dead |-> FALSE] \in Accounts!Reguser
  BY DEF Accounts!Reguser
<1> QED BY <1>1, <1>2, NameFields DEF RecordOK, Accounts!AuthAssumption

-----------------------------------------------------------------------------
(* The steps. *)

LEMMA AccountsStart ==
  ASSUME Accounts!AuthAssumption, Accounts!Init
  PROVE  AccountsInv
<1>1. PICK S \in SUBSET UserIDs, T \in SUBSET UserIDs :
        \E f \in Accounts!Distinct(S, Regusers), g \in Accounts!Distinct(T, Authedusers) : Accounts!Loaded(f,
            g)
  BY DEF Accounts!Init
<1>2. PICK f \in Accounts!Distinct(S, Regusers), g \in Accounts!Distinct(T, Authedusers) : Accounts!Loaded(f,
      g)
  BY <1>1
<1>3. /\ f \in [S -> Regusers] /\ \A x, y \in S : f[x] = f[y] => x = y
      /\ g \in [T -> Authedusers] /\ \A x, y \in T : g[x] = g[y] => x = y
      /\ DOMAIN f = S /\ DOMAIN g = T
  BY DEF Accounts!Distinct
<1>4. auth = [n \in AuthNicks |-> NULL] /\ loaded = {"chanserv", "noperserv"}
  BY DEF Accounts!Init
<1>5. NULL \notin UserIDs \cup Regusers \cup Authedusers \cup Accounts!AuthName \cup Accounts!Reguser
  BY DEF Accounts!AuthAssumption
<1>6. \A u \in UserIDs : On(u) = {} /\ Cardinality(On(u)) = 0
  BY <1>4, <1>5, FS_EmptySet DEF On
<1>7. \A u \in UserIDs :
        IF u \notin S \cup T THEN records[u] = NULL
        ELSE /\ records[u].usercount = 0 /\ records[u].nicks = {}
             /\ records[u].chanserv = IF u \in S THEN f[u] ELSE NULL
             /\ records[u].noperserv = IF u \in T THEN g[u] ELSE NULL
             /\ records[u] \in Accounts!AuthName
  <2> TAKE u \in UserIDs
  <2> DEFINE c == IF u \in S THEN f[u] ELSE NULL
             d == IF u \in T THEN g[u] ELSE NULL
  <2>1. records[u] = IF u \notin S \cup T THEN NULL
                     ELSE [Accounts!NewRecord EXCEPT !.chanserv = c, !.noperserv = d]
    BY <1>2, <1>3 DEF Accounts!Loaded
  <2>2. c \in Regusers \cup {NULL} /\ d \in Authedusers \cup {NULL}
    BY <1>3
  <2> HIDE DEF c, d
  <2>3. IF u \notin S \cup T THEN records[u] = NULL
        ELSE records[u] = [usercount |-> 0, nicks |-> {}, chanserv |-> c, noperserv |-> d]
    BY <2>1 DEF Accounts!NewRecord
  <2>4. IF u \notin S \cup T THEN records[u] = NULL
        ELSE /\ records[u].usercount = 0 /\ records[u].nicks = {}
             /\ records[u].chanserv = c /\ records[u].noperserv = d
             /\ records[u] \in Accounts!AuthName
    BY <2>2, <2>3 DEF Accounts!AuthName
  <2> QED BY <2>4 DEF c, d
<1>8. records = [u \in UserIDs |-> records[u]]
  BY <1>2 DEF Accounts!Loaded
<1>9. \A u \in S : reguser[f[u]] = [ID |-> u, dead |-> FALSE]
  <2> TAKE u \in S
  <2>1. reguser[f[u]] = [ID |-> CHOOSE v \in S : f[v] = f[u], dead |-> FALSE]
    BY <1>2, <1>3 DEF Accounts!Loaded
  <2>2. (CHOOSE v \in S : f[v] = f[u]) = u
    BY <1>3
  <2> QED BY <2>1, <2>2
<1>10. \A r \in Regusers : reguser[r] # NULL => \E u \in S : r = f[u]
  BY <1>2, <1>3 DEF Accounts!Loaded
<1>11. \A u \in T : autheduser[g[u]] = u
  <2> TAKE u \in T
  <2>1. autheduser[g[u]] = CHOOSE v \in T : g[v] = g[u]
    BY <1>2, <1>3 DEF Accounts!Loaded
  <2>2. (CHOOSE v \in T : g[v] = g[u]) = u
    BY <1>3
  <2> QED BY <2>1, <2>2
<1>12. \A a \in Authedusers : autheduser[a] # NULL => \E u \in T : a = g[u]
  BY <1>2, <1>3 DEF Accounts!Loaded
<1>13. lastuserID \in Nat /\ \A u \in S : u <= lastuserID
  BY <1>2, <1>3, LargestID DEF Accounts!Loaded
<1>14. Typed
  <2>1. records \in [UserIDs -> Accounts!AuthName \cup {NULL}]
    <3>1. \A u \in UserIDs : records[u] \in Accounts!AuthName \cup {NULL}
      BY <1>7
    <3> QED BY <1>8, <3>1
  <2>2. reguser \in [Regusers -> Accounts!Reguser \cup {NULL}]
    <3>1. \A r \in Regusers : reguser[r] \in Accounts!Reguser \cup {NULL}
      <4> TAKE r \in Regusers
      <4>1. CASE reguser[r] # NULL
        <5>1. PICK u \in S : r = f[u]
          BY <1>10, <4>1
        <5>2. reguser[r] = [ID |-> u, dead |-> FALSE] /\ u \in UserIDs
          BY <1>1, <1>9, <5>1
        <5> QED BY <5>2 DEF Accounts!Reguser
      <4> QED BY <4>1
    <3>2. reguser = [r \in Regusers |-> reguser[r]]
      BY <1>2 DEF Accounts!Loaded
    <3> QED BY <3>1, <3>2
  <2>3. autheduser \in [Authedusers -> UserIDs \cup {NULL}]
    <3>1. \A a \in Authedusers : autheduser[a] \in UserIDs \cup {NULL}
      BY <1>11, <1>12
    <3>2. autheduser = [a \in Authedusers |-> autheduser[a]]
      BY <1>2 DEF Accounts!Loaded
    <3> QED BY <3>1, <3>2
  <2> QED BY <1>4, <1>13, <2>1, <2>2, <2>3 DEF Typed
<1>15. \A u \in UserIDs : RecordOK(u)
  <2> TAKE u \in UserIDs
  <2>1. CASE u \notin S \cup T
    BY <1>6, <1>7, <2>1 DEF RecordOK
  <2>2. CASE u \in S \cup T
    <3>1. /\ records[u] # NULL /\ records[u].usercount = 0 /\ records[u].nicks = {}
          /\ records[u].chanserv = IF u \in S THEN f[u] ELSE NULL
          /\ records[u].noperserv = IF u \in T THEN g[u] ELSE NULL
      BY <1>5, <1>7, <2>2
    <3>2. records[u].chanserv # NULL \/ records[u].noperserv # NULL
      BY <1>3, <1>5, <2>2, <3>1
    <3> QED BY <1>6, <1>9, <1>11, <3>1, <3>2 DEF RecordOK
  <2> QED BY <2>1, <2>2
<1>16. \A r \in Regusers : ReguserOK(r)
  <2> TAKE r \in Regusers
  <2>1. CASE reguser[r] # NULL
    <3>1. PICK u \in S : r = f[u]
      BY <1>10, <2>1
    <3>2. reguser[r] = [ID |-> u, dead |-> FALSE] /\ u \in UserIDs
      BY <1>1, <1>9, <3>1
    <3>3. reguser[r].ID = u /\ records[u] # NULL /\ records[u].chanserv = r
      BY <1>5, <1>7, <3>1, <3>2
    <3> QED BY <3>3 DEF ReguserOK
  <2> QED BY <2>1 DEF ReguserOK
<1>17. \A a \in Authedusers : AutheduserOK(a)
  <2> TAKE a \in Authedusers
  <2>1. CASE autheduser[a] # NULL
    <3>1. PICK u \in T : a = g[u]
      BY <1>12, <2>1
    <3>2. autheduser[a] = u /\ records[u] # NULL /\ records[u].noperserv = a
      BY <1>5, <1>7, <1>11, <3>1
    <3> QED BY <3>2 DEF AutheduserOK
  <2> QED BY <2>1 DEF AutheduserOK
<1>18. IDsTaken
  <2>1. SUFFICES ASSUME NEW r \in Regusers, reguser[r] # NULL PROVE reguser[r].ID <= lastuserID
    BY DEF IDsTaken
  <2>2. PICK u \in S : r = f[u]
    BY <1>10, <2>1
  <2>3. reguser[r] = [ID |-> u, dead |-> FALSE]
    BY <1>9, <2>2
  <2> QED BY <1>13, <2>3
<1> QED BY <1>14, <1>15, <1>16, <1>17, <1>18 DEF AccountsInv

LEMMA LoginInv ==
  ASSUME Accounts!AuthAssumption, AccountsInv, NEW n \in AuthNicks, NEW u \in UserIDs, Accounts!Login(n, u)
  PROVE  AccountsInv'
<1> DEFINE old == Accounts!FindOrCreate(u)
           a == [old EXCEPT !.usercount = @ + 1, !.nicks = @ \cup {n}]
<1>1. /\ auth[n] = NULL /\ auth' = [auth EXCEPT ![n] = u]
      /\ UNCHANGED <<autheduser, loaded>>
  BY DEF Accounts!Login
<1>2. Typed /\ IDsTaken /\ NULL \notin UserIDs /\ IsFiniteSet(AuthNicks)
  <2>1. IsFiniteSet(AuthNicks)
    BY DEF Accounts!AuthAssumption, Accounts!IsFiniteSet, IsFiniteSet
  <2> QED BY <2>1 DEF AccountsInv, Accounts!AuthAssumption
<1>3. On(u)' = On(u) \cup {n} /\ n \notin On(u) /\ \A v \in UserIDs \ {u} : On(v)' = On(v)
  BY <1>1, <1>2 DEF On, Typed
<1>4. Cardinality(On(u)') = Cardinality(On(u)) + 1 /\ Cardinality(On(u)') \in Nat
  <2>1. IsFiniteSet(On(u)) /\ Cardinality(On(u)) \in Nat
    BY <1>2, OnFacts
  <2>2. Cardinality(On(u) \cup {n}) = Cardinality(On(u)) + 1
    BY <1>3, <2>1, FS_AddElement
  <2> QED BY <1>3, <2>1, <2>2
<1>5. /\ old \in Accounts!AuthName
      /\ old.nicks = On(u) /\ old.usercount = Cardinality(On(u))
      /\ old.chanserv = IF records[u] = NULL THEN NULL ELSE records[u].chanserv
      /\ old.noperserv = IF records[u] = NULL THEN NULL ELSE records[u].noperserv
  BY FoundOrCreated
<1> HIDE DEF old
<1>6. /\ a \in Accounts!AuthName
      /\ a.nicks = On(u)' /\ a.usercount = Cardinality(On(u)')
      /\ a.chanserv = old.chanserv /\ a.noperserv = old.noperserv
  BY <1>3, <1>4, <1>5 DEF Accounts!AuthName
<1>7. CASE "chanserv" \in loaded /\ a.chanserv = NULL
  <2>1. PICK r \in Accounts!Free(reguser) :
          /\ reguser' = [reguser EXCEPT ![r] = [ID |-> u, dead |-> FALSE]]
          /\ records' = [records EXCEPT ![u] = [a EXCEPT !.chanserv = r]]
          /\ lastuserID' = Accounts!Max({u, lastuserID})
    BY <1>7 DEF Accounts!Login, old
  <2>2. r \in Regusers /\ reguser[r] = NULL
    BY <1>2, <2>1 DEF Accounts!Free, Typed
  <2> DEFINE b == [a EXCEPT !.chanserv = r]
  <2>3. /\ b \in Accounts!AuthName /\ b # NULL
        /\ b.nicks = On(u)' /\ b.usercount = Cardinality(On(u)')
        /\ b.chanserv = r /\ b.noperserv = old.noperserv
    BY <1>6, <2>2 DEF Accounts!AuthName, Accounts!AuthAssumption
  <2>4. [ID |-> u, dead |-> FALSE] \in Accounts!Reguser
    BY DEF Accounts!Reguser
  <2>5. lastuserID' \in Nat /\ u <= lastuserID' /\ lastuserID <= lastuserID'
    BY <1>2, <2>1, LargerOfTwo DEF Typed, Accounts!AuthAssumption
  <2>6. records' = [records EXCEPT ![u] = b]
    BY <2>1
  <2> HIDE DEF a, b
  <2>7. Typed'
    BY <1>1, <1>2, <2>1, <2>2, <2>3, <2>4, <2>5, <2>6 DEF Typed
  <2>8. \A v \in UserIDs : RecordOK(v)'
    <3> TAKE v \in UserIDs
    <3>1. CASE v = u
      <4>1. records'[u] = b /\ reguser'[r] = [ID |-> u, dead |-> FALSE]
        BY <1>2, <2>1, <2>2, <2>6 DEF Typed
      <4>2. b.noperserv # NULL => autheduser'[b.noperserv] = u
        BY <1>1, <1>5, <2>3, OwnStructures
      <4>3. On(u)' # {}
        BY <1>3
      <4> QED BY <2>3, <3>1, <4>1, <4>2, <4>3 DEF RecordOK
    <3>2. CASE v # u
      <4>1. records'[v] = records[v] /\ On(v)' = On(v)
        BY <1>2, <1>3, <2>6, <3>2 DEF Typed
      <4>2. records[v] # NULL /\ records[v].chanserv # NULL
              => reguser'[records[v].chanserv] = reguser[records[v].chanserv]
        BY <1>2, <2>1, <2>2, OwnStructures DEF Typed
      <4>3. RecordOK(v)
        BY DEF AccountsInv
      <4> QED BY <1>1, <4>1, <4>2, <4>3 DEF RecordOK
    <3> QED BY <3>1, <3>2
  <2>9. \A s \in Regusers : ReguserOK(s)'
    <3> TAKE s \in Regusers
    <3>1. ReguserOK(s) /\ (reguser[s] # NULL => reguser[s] \in Accounts!Reguser)
      BY <1>2 DEF AccountsInv, Typed
    <3>2. CASE s = r
      BY <1>2, <2>1, <2>2, <2>3, <2>6, <3>2 DEF ReguserOK, Typed
    <3>3. CASE s # r
      <4>1. reguser'[s] = reguser[s]
        BY <1>2, <2>1, <3>3 DEF Typed
      <4>2. reguser[s] # NULL /\ ~reguser[s].dead => reguser[s].ID # u /\ reguser[s].ID \in UserIDs
        BY <1>5, <1>6, <1>7, <3>1 DEF ReguserOK, Accounts!Reguser, Accounts!AuthAssumption
      <4> QED BY <1>2, <2>6, <3>1, <4>1, <4>2 DEF ReguserOK, Typed
    <3> QED BY <3>2, <3>3
  <2>10. \A d \in Authedusers : AutheduserOK(d)'
    <3> TAKE d \in Authedusers
    <3>1. AutheduserOK(d) /\ autheduser[d] \in UserIDs \cup {NULL}
      BY <1>2 DEF AccountsInv, Typed
    <3> QED BY <1>1, <1>2, <1>5, <2>3, <2>6, <3>1 DEF AutheduserOK, Typed
  <2>11. IDsTaken'
    BY <1>2, <2>1, <2>2, <2>5 DEF IDsTaken, Typed, Accounts!Reguser, Accounts!AuthAssumption
  <2> QED BY <2>7, <2>8, <2>9, <2>10, <2>11 DEF AccountsInv
<1>8. CASE ~("chanserv" \in loaded /\ a.chanserv = NULL)
  <2>1. records' = [records EXCEPT ![u] = a] /\ UNCHANGED <<reguser, lastuserID>>
    BY <1>8 DEF Accounts!Login, old
  <2>2. a # NULL
    BY <1>6 DEF Accounts!AuthAssumption
  <2> HIDE DEF a
  <2>3. Typed'
    BY <1>1, <1>2, <1>6, <2>1 DEF Typed
  <2>4. \A v \in UserIDs : RecordOK(v)'
    <3> TAKE v \in UserIDs
    <3>1. RecordOK(v)
      BY DEF AccountsInv
    <3>2. CASE v = u
      <4>1. records'[u] = a
        BY <1>2, <2>1 DEF Typed
      <4>2. a.noperserv # NULL => autheduser'[a.noperserv] = u
        BY <1>1, <1>5, <1>6, OwnStructures
      <4>3. a.chanserv # NULL => reguser'[a.chanserv] = [ID |-> u, dead |-> FALSE]
        BY <1>5, <1>6, <2>1, OwnStructures
      <4>4. On(u)' # {}
        BY <1>3
      <4> QED BY <1>6, <2>2, <3>2, <4>1, <4>2, <4>3, <4>4 DEF RecordOK
    <3>3. CASE v # u
      <4>1. records'[v] = records[v] /\ On(v)' = On(v)
        BY <1>2, <1>3, <2>1, <3>3 DEF Typed
      <4> QED BY <1>1, <2>1, <3>1, <4>1 DEF RecordOK
    <3> QED BY <3>2, <3>3
  <2>5. \A s \in Regusers : ReguserOK(s)'
    <3> TAKE s \in Regusers
    <3>1. ReguserOK(s) /\ (reguser[s] # NULL => reguser[s] \in Accounts!Reguser)
      BY <1>2 DEF AccountsInv, Typed
    <3> QED BY <1>2, <1>5, <1>6, <2>1, <2>2, <3>1 DEF ReguserOK, Typed
  <2>6. \A d \in Authedusers : AutheduserOK(d)'
    <3> TAKE d \in Authedusers
    <3>1. AutheduserOK(d) /\ autheduser[d] \in UserIDs \cup {NULL}
      BY <1>2 DEF AccountsInv, Typed
    <3> QED BY <1>1, <1>2, <1>5, <1>6, <2>1, <2>2, <3>1 DEF AutheduserOK, Typed
  <2>7. IDsTaken'
    BY <1>2, <2>1 DEF IDsTaken
  <2> QED BY <2>3, <2>4, <2>5, <2>6, <2>7 DEF AccountsInv
<1> QED BY <1>7, <1>8

LEMMA DeleteNickInv ==
  ASSUME Accounts!AuthAssumption, AccountsInv, NEW n \in AuthNicks, Accounts!deletenick(n)
  PROVE  AccountsInv'
<1>0. PICK u \in UserIDs : u = auth[n]
  BY DEF AccountsInv, Typed, Accounts!deletenick
<1> DEFINE a == [records[u] EXCEPT !.usercount = @ - 1, !.nicks = @ \ {n}]
<1>1. Typed /\ IDsTaken /\ NULL \notin UserIDs /\ IsFiniteSet(AuthNicks)
  <2>1. IsFiniteSet(AuthNicks)
    BY DEF Accounts!AuthAssumption, Accounts!IsFiniteSet, IsFiniteSet
  <2> QED BY <2>1 DEF AccountsInv, Accounts!AuthAssumption
<1>2. /\ n \in On(u)
      /\ auth' = [auth EXCEPT ![n] = NULL]
      /\ records' = [records EXCEPT ![u] = Accounts!Released(a)]
      /\ UNCHANGED <<autheduser, lastuserID, loaded>>
  BY <1>0, <1>1 DEF Accounts!deletenick, On
<1>3. On(u)' = On(u) \ {n} /\ \A v \in UserIDs \ {u} : On(v)' = On(v)
  BY <1>1, <1>2 DEF On, Typed
<1>4. /\ records[u] # NULL /\ RecordOK(u)
      /\ records[u].nicks = On(u) /\ records[u].usercount = Cardinality(On(u))
  BY <1>2 DEF AccountsInv, RecordOK
<1>5. /\ records[u] \in Accounts!AuthName
      /\ records[u].chanserv # NULL =>
           /\ records[u].chanserv \in Regusers
           /\ reguser[records[u].chanserv] = [ID |-> u, dead |-> FALSE]
      /\ records[u].noperserv # NULL => autheduser[records[u].noperserv] = u
  BY <1>2, <1>4, OwnStructures
<1>6. /\ Cardinality(On(u)') = Cardinality(On(u)) - 1 /\ Cardinality(On(u)') \in Nat
      /\ Cardinality(On(u)') = 0 <=> On(u)' = {}
  <2>1. IsFiniteSet(On(u)) /\ Cardinality(On(u)) \in Nat
    BY <1>1, OnFacts
  <2>2. Cardinality(On(u) \ {n}) = Cardinality(On(u)) - 1 /\ IsFiniteSet(On(u) \ {n})
    BY <1>2, <2>1, FS_RemoveElement
  <2>3. Cardinality(On(u) \ {n}) \in Nat /\ (Cardinality(On(u) \ {n}) = 0 <=> On(u) \ {n} = {})
    BY <2>2, FS_CardinalityType, FS_EmptySet
  <2> QED BY <1>3, <2>2, <2>3
<1>7. /\ a \in Accounts!AuthName /\ a # NULL
      /\ a.nicks = On(u)' /\ a.usercount = Cardinality(On(u)')
      /\ a.chanserv = records[u].chanserv /\ a.noperserv = records[u].noperserv
  <2>1. a.nicks = On(u)' /\ a.usercount = Cardinality(On(u)')
    BY <1>3, <1>4, <1>5, <1>6 DEF Accounts!AuthName
  <2>2. a \in Accounts!AuthName
    <3>1. records[u].usercount - 1 \in Nat
      BY <1>4, <1>6
    <3> QED BY <1>5, <3>1 DEF Accounts!AuthName
  <2>3. a.chanserv = records[u].chanserv /\ a.noperserv = records[u].noperserv
    BY <1>5 DEF Accounts!AuthName
  <2> QED BY <2>1, <2>2, <2>3 DEF Accounts!AuthAssumption
<1>8. UNCHANGED reguser
  \* The record's reguser is not dead: who is dead has been taken off it.
  BY <1>0, <1>5 DEF Accounts!deletenick
<1> HIDE DEF a
<1> DEFINE b == Accounts!Released(a)
<1>9. b = IF On(u)' = {} /\ a.chanserv = NULL /\ a.noperserv = NULL THEN NULL ELSE a
  BY <1>6, <1>7, ReleasedIs
<1> HIDE DEF b
<1>10. records' = [records EXCEPT ![u] = b]
  BY <1>2 DEF b
<1>11. Typed'
  BY <1>1, <1>2, <1>7, <1>8, <1>9, <1>10 DEF Typed
<1>12. \A v \in UserIDs : RecordOK(v)'
  <2> TAKE v \in UserIDs
  <2>1. CASE v = u
    <3>1. records'[u] = b
      BY <1>1, <1>2, <1>10 DEF Typed
    <3>2. b = NULL => On(u)' = {}
      BY <1>7, <1>9
    <3>3. b # NULL => b = a /\ (On(u)' # {} \/ b.chanserv # NULL \/ b.noperserv # NULL)
      BY <1>9
    <3>4. UNCHANGED <<reguser, autheduser>>
      BY <1>2, <1>8
    <3>5. b # NULL /\ b.chanserv # NULL => reguser[b.chanserv] = [ID |-> u, dead |-> FALSE]
      BY <1>5, <1>7, <3>3
    <3>6. b # NULL /\ b.noperserv # NULL => autheduser[b.noperserv] = u
      BY <1>5, <1>7, <3>3
    <3> QED BY <1>7, <2>1, <3>1, <3>2, <3>3, <3>4, <3>5, <3>6 DEF RecordOK
  <2>2. CASE v # u
    <3>1. records'[v] = records[v] /\ On(v)' = On(v)
      BY <1>1, <1>3, <1>10, <2>2 DEF Typed
    <3>2. RecordOK(v)
      BY DEF AccountsInv
    <3> QED BY <1>2, <1>8, <3>1, <3>2 DEF RecordOK
  <2> QED BY <2>1, <2>2
<1>13. \A r \in Regusers : ReguserOK(r)'
  <2> TAKE r \in Regusers
  <2>1. ReguserOK(r) /\ (reguser[r] # NULL => reguser[r] \in Accounts!Reguser)
    BY <1>1 DEF AccountsInv, Typed
  <2>2. r # NULL
    BY DEF Accounts!AuthAssumption
  <2> QED BY <1>1, <1>2, <1>7, <1>8, <1>9, <1>10, <2>1, <2>2 DEF ReguserOK, Typed
<1>14. \A d \in Authedusers : AutheduserOK(d)'
  <2> TAKE d \in Authedusers
  <2>1. AutheduserOK(d) /\ d # NULL
    BY DEF AccountsInv, Accounts!AuthAssumption
  <2> QED BY <1>1, <1>2, <1>7, <1>9, <1>10, <2>1 DEF AutheduserOK, Typed
<1>15. IDsTaken'
  BY <1>1, <1>2, <1>8 DEF IDsTaken
<1> QED BY <1>11, <1>12, <1>13, <1>14, <1>15 DEF AccountsInv

LEMMA CreateAccountInv ==
  ASSUME Accounts!AuthAssumption, AccountsInv, Accounts!CreateAccount
  PROVE  AccountsInv'
<1>0. PICK u \in UserIDs : u = lastuserID + 1
  BY DEF Accounts!CreateAccount
<1> DEFINE old == Accounts!FindOrCreate(u)
<1>1. Typed /\ IDsTaken
  BY DEF AccountsInv
<1>2. PICK r \in Accounts!Free(reguser) :
        /\ reguser' = [reguser EXCEPT ![r] = [ID |-> lastuserID', dead |-> FALSE]]
        /\ records' = [records EXCEPT ![lastuserID'] = [Accounts!FindOrCreate(lastuserID') EXCEPT !.chanserv = r]]
  BY DEF Accounts!CreateAccount
<1>3. r \in Regusers /\ reguser[r] = NULL
  BY <1>1, <1>2 DEF Accounts!Free, Typed
<1>4. lastuserID' = u /\ UNCHANGED <<auth, autheduser, loaded>>
  BY <1>0 DEF Accounts!CreateAccount
<1> DEFINE b == [old EXCEPT !.chanserv = r]
<1>5. /\ reguser' = [reguser EXCEPT ![r] = [ID |-> u, dead |-> FALSE]]
      /\ records' = [records EXCEPT ![u] = b]
  BY <1>2, <1>4
<1>6. /\ old \in Accounts!AuthName
      /\ old.nicks = On(u) /\ old.usercount = Cardinality(On(u))
      /\ old.noperserv = IF records[u] = NULL THEN NULL ELSE records[u].noperserv
  BY <1>4, FoundOrCreated
<1>7. \A v \in UserIDs : On(v)' = On(v)
  BY <1>4 DEF On
<1> HIDE DEF old
<1>8. /\ b \in Accounts!AuthName /\ b # NULL
      /\ b.nicks = On(u)' /\ b.usercount = Cardinality(On(u)')
      /\ b.chanserv = r /\ b.noperserv = old.noperserv
  <2>1. r \in Regusers \cup {NULL} /\ On(u)' = On(u)
    BY <1>3, <1>4, <1>7
  <2>2. b \in Accounts!AuthName
    BY <1>6, <2>1 DEF Accounts!AuthName
  <2>3. b.nicks = old.nicks /\ b.usercount = old.usercount /\ b.chanserv = r /\ b.noperserv = old.noperserv
    BY <1>6 DEF Accounts!AuthName
  <2> HIDE DEF b
  <2>4. b # NULL
    BY <2>2 DEF Accounts!AuthAssumption
  <2> QED BY <1>6, <2>1, <2>2, <2>3, <2>4
<1>9. [ID |-> u, dead |-> FALSE] \in Accounts!Reguser /\ r # NULL
  BY <1>3, <1>4 DEF Accounts!Reguser, Accounts!AuthAssumption
<1>10. lastuserID \in Nat /\ u \in Nat /\ lastuserID < u
  BY <1>0, <1>1 DEF Typed
<1> HIDE DEF b
<1>11. Typed'
  BY <1>1, <1>3, <1>4, <1>5, <1>8, <1>9, <1>10 DEF Typed
<1>12. \A v \in UserIDs : RecordOK(v)'
  <2> TAKE v \in UserIDs
  <2>1. CASE v = u
    <3>1. records'[u] = b /\ reguser'[r] = [ID |-> u, dead |-> FALSE]
      BY <1>1, <1>3, <1>4, <1>5 DEF Typed
    <3>2. b.noperserv # NULL => autheduser'[b.noperserv] = u
      BY <1>4, <1>6, <1>8, OwnStructures
    <3>3. b.chanserv # NULL /\ reguser'[b.chanserv] = [ID |-> u, dead |-> FALSE]
      BY <1>8, <1>9, <3>1
    <3> QED BY <1>8, <2>1, <3>1, <3>2, <3>3 DEF RecordOK
  <2>2. CASE v # u
    <3>1. records'[v] = records[v] /\ On(v)' = On(v)
      BY <1>1, <1>5, <1>7, <2>2 DEF Typed
    <3>2. records[v] # NULL /\ records[v].chanserv # NULL
            => reguser'[records[v].chanserv] = reguser[records[v].chanserv]
      BY <1>1, <1>3, <1>5, OwnStructures DEF Typed
    <3>3. RecordOK(v)
      BY DEF AccountsInv
    <3> QED BY <1>4, <3>1, <3>2, <3>3 DEF RecordOK
  <2> QED BY <2>1, <2>2
<1>13. \A s \in Regusers : ReguserOK(s)'
  <2> TAKE s \in Regusers
  <2>1. ReguserOK(s) /\ (reguser[s] # NULL => reguser[s] \in Accounts!Reguser)
    BY <1>1 DEF AccountsInv, Typed
  <2>2. CASE s = r
    BY <1>1, <1>3, <1>4, <1>5, <1>8, <2>2 DEF ReguserOK, Typed
  <2>3. CASE s # r
    <3>1. reguser'[s] = reguser[s]
      BY <1>1, <1>5, <2>3 DEF Typed
    <3>2. reguser[s] # NULL => reguser[s].ID # u
      BY <1>1, <1>10, <2>1 DEF IDsTaken
    <3> QED BY <1>1, <1>5, <2>1, <3>1, <3>2 DEF ReguserOK, Typed
  <2> QED BY <2>2, <2>3
<1>14. \A d \in Authedusers : AutheduserOK(d)'
  <2> TAKE d \in Authedusers
  <2>1. AutheduserOK(d) /\ autheduser[d] \in UserIDs \cup {NULL}
    BY <1>1 DEF AccountsInv, Typed
  <2> QED BY <1>1, <1>4, <1>5, <1>6, <1>8, <2>1 DEF AutheduserOK, Typed
<1>15. IDsTaken'
  <2>1. SUFFICES ASSUME NEW s \in Regusers, reguser'[s] # NULL PROVE reguser'[s].ID <= lastuserID'
    BY DEF IDsTaken
  <2>2. CASE s = r
    BY <1>1, <1>3, <1>4, <1>5, <1>10, <2>2 DEF Typed
  <2>3. CASE s # r
    <3>1. reguser'[s] = reguser[s] /\ reguser[s].ID <= lastuserID
      BY <1>1, <1>5, <2>1, <2>3 DEF Typed, IDsTaken
    <3>2. reguser[s].ID \in Nat
      BY <1>1, <2>1, <3>1 DEF Typed, Accounts!Reguser, Accounts!AuthAssumption
    <3> QED BY <1>4, <1>10, <3>1, <3>2
  <2> QED BY <2>2, <2>3
<1> QED BY <1>11, <1>12, <1>13, <1>14, <1>15 DEF AccountsInv

LEMMA RemoveUserInv ==
  ASSUME Accounts!AuthAssumption, AccountsInv, NEW r \in Regusers, Accounts!cs_removeuser(r)
  PROVE  AccountsInv'
<1>1. Typed /\ IDsTaken /\ ReguserOK(r) /\ reguser[r] # NULL /\ ~reguser[r].dead
  BY DEF AccountsInv, Accounts!cs_removeuser
<1>2. PICK u \in UserIDs : u = reguser[r].ID
  BY <1>1 DEF Typed, Accounts!Reguser
<1>3. reguser[r] = [ID |-> u, dead |-> FALSE]
  BY <1>1, <1>2 DEF Typed, Accounts!Reguser
<1> DEFINE a == [records[u] EXCEPT !.chanserv = NULL]
           b == Accounts!Released(a)
           d == IF b # NULL /\ b.nicks # {} THEN [reguser[r] EXCEPT !.dead = TRUE] ELSE NULL
<1>4. /\ records' = [records EXCEPT ![u] = b]
      /\ reguser' = [reguser EXCEPT ![r] = d]
      /\ UNCHANGED <<auth, autheduser, lastuserID, loaded>>
  BY <1>1, <1>2 DEF Accounts!cs_removeuser, Typed
<1>5. \A v \in UserIDs : On(v)' = On(v)
  BY <1>4 DEF On
<1>6. records[u] # NULL /\ records[u].chanserv = r /\ RecordOK(u)
  BY <1>1, <1>2 DEF ReguserOK, AccountsInv
<1>7. /\ records[u] \in Accounts!AuthName
      /\ records[u].nicks = On(u) /\ records[u].usercount = Cardinality(On(u))
      /\ records[u].noperserv # NULL => autheduser[records[u].noperserv] = u
  BY <1>6, OwnStructures DEF RecordOK
<1>8. /\ a \in Accounts!AuthName /\ a # NULL
      /\ a.nicks = On(u) /\ a.usercount = Cardinality(On(u))
      /\ a.chanserv = NULL /\ a.noperserv = records[u].noperserv
  BY <1>7 DEF Accounts!AuthName, Accounts!AuthAssumption
<1>9. Cardinality(On(u)) = 0 <=> On(u) = {}
  <2>1. IsFiniteSet(AuthNicks)
    BY DEF Accounts!AuthAssumption, Accounts!IsFiniteSet, IsFiniteSet
  <2> QED BY <2>1, OnFacts
<1>10. b = IF On(u) = {} /\ a.noperserv = NULL THEN NULL ELSE a
  BY <1>8, <1>9, ReleasedIs
<1>11. d \in Accounts!Reguser \cup {NULL} /\ (d # NULL => d.ID = u /\ d.dead)
  <2> DEFINE e == [reguser[r] EXCEPT !.dead = TRUE]
  <2>1. d = e \/ d = NULL
    OBVIOUS
  <2>2. reguser[r] \in [ID : UserIDs, dead : BOOLEAN] /\ reguser[r].ID = u
    BY <1>1, <1>3 DEF Typed, Accounts!Reguser
  <2>3. e \in Accounts!Reguser /\ e.ID = u /\ e.dead
    BY <2>2 DEF Accounts!Reguser
  <2> HIDE DEF d, e
  <2> QED BY <2>1, <2>3
<1> HIDE DEF a, b, d
<1>12. Typed'
  BY <1>1, <1>4, <1>8, <1>10, <1>11 DEF Typed
<1>13. \A v \in UserIDs : RecordOK(v)'
  <2> TAKE v \in UserIDs
  <2>1. CASE v = u
    <3>1. records'[u] = b
      BY <1>1, <1>4 DEF Typed
    <3>2. b = NULL => On(u)' = {}
      BY <1>5, <1>8, <1>10
    <3>3. b # NULL => b = a /\ (On(u)' # {} \/ b.noperserv # NULL)
      BY <1>5, <1>10
    <3>4. b # NULL /\ b.noperserv # NULL => autheduser'[b.noperserv] = u
      BY <1>4, <1>7, <1>8, <3>3
    <3> QED BY <1>5, <1>8, <2>1, <3>1, <3>2, <3>3, <3>4 DEF RecordOK
  <2>2. CASE v # u
    <3>1. records'[v] = records[v] /\ On(v)' = On(v)
      BY <1>1, <1>4, <1>5, <2>2 DEF Typed
    <3>2. records[v] # NULL /\ records[v].chanserv # NULL
            => reguser'[records[v].chanserv] = reguser[records[v].chanserv]
      <4>1. ASSUME records[v] # NULL, records[v].chanserv # NULL PROVE records[v].chanserv # r
        <5>1. reguser[records[v].chanserv] = [ID |-> v, dead |-> FALSE]
          BY <4>1, OwnStructures
        <5>2. reguser[records[v].chanserv].ID = v /\ reguser[r].ID = u
          BY <1>3, <5>1
        <5> QED BY <2>2, <5>2
      <4>2. records[v] # NULL /\ records[v].chanserv # NULL => records[v].chanserv \in Regusers
        BY OwnStructures
      <4> QED BY <1>1, <1>4, <4>1, <4>2 DEF Typed
    <3>3. RecordOK(v)
      BY DEF AccountsInv
    <3> QED BY <1>4, <3>1, <3>2, <3>3 DEF RecordOK
  <2> QED BY <2>1, <2>2
<1>14. \A s \in Regusers : ReguserOK(s)'
  <2> TAKE s \in Regusers
  <2>1. ReguserOK(s) /\ (reguser[s] # NULL => reguser[s] \in Accounts!Reguser)
    BY <1>1 DEF AccountsInv, Typed
  <2>2. CASE s = r
    BY <1>1, <1>4, <1>11, <2>2 DEF ReguserOK, Typed
  <2>3. CASE s # r
    <3>1. reguser'[s] = reguser[s]
      BY <1>1, <1>4, <2>3 DEF Typed
    <3>2. reguser[s] # NULL /\ ~reguser[s].dead => reguser[s].ID # u
      BY <1>6, <2>1, <2>3 DEF ReguserOK
    <3> QED BY <1>1, <1>4, <2>1, <3>1, <3>2 DEF ReguserOK, Typed
  <2> QED BY <2>2, <2>3
<1>15. \A e \in Authedusers : AutheduserOK(e)'
  <2> TAKE e \in Authedusers
  <2>1. AutheduserOK(e) /\ e # NULL
    BY DEF AccountsInv, Accounts!AuthAssumption
  <2> QED BY <1>1, <1>4, <1>8, <1>10, <2>1 DEF AutheduserOK, Typed
<1>16. IDsTaken'
  BY <1>1, <1>3, <1>4, <1>11 DEF IDsTaken, Typed
<1> QED BY <1>12, <1>13, <1>14, <1>15, <1>16 DEF AccountsInv

LEMMA AddUserInv ==
  ASSUME Accounts!AuthAssumption, AccountsInv, NEW u \in UserIDs, Accounts!AddUser(u)
  PROVE  AccountsInv'
<1>1. Typed /\ IDsTaken /\ NULL \notin UserIDs
  BY DEF AccountsInv, Accounts!AuthAssumption
<1>2. PICK a \in Accounts!Free(autheduser) :
        /\ autheduser' = [autheduser EXCEPT ![a] = u]
        /\ records' = [records EXCEPT ![u].noperserv = a]
  BY DEF Accounts!AddUser
<1>3. a \in Authedusers /\ autheduser[a] = NULL /\ a # NULL
  BY <1>1, <1>2 DEF Accounts!Free, Typed, Accounts!AuthAssumption
<1>4. /\ records[u] # NULL /\ records[u].noperserv = NULL
      /\ UNCHANGED <<auth, reguser, lastuserID, loaded>>
  BY DEF Accounts!AddUser
<1>5. /\ records[u] \in Accounts!AuthName /\ RecordOK(u)
      /\ records[u].nicks = On(u) /\ records[u].usercount = Cardinality(On(u))
      /\ records[u].chanserv # NULL => reguser[records[u].chanserv] = [ID |-> u, dead |-> FALSE]
  BY <1>4, OwnStructures DEF AccountsInv, RecordOK
<1> DEFINE b == [records[u] EXCEPT !.noperserv = a]
<1>6. /\ b \in Accounts!AuthName /\ b # NULL /\ b.nicks = records[u].nicks
           /\ b.usercount = records[u].usercount
      /\ b.chanserv = records[u].chanserv /\ b.noperserv = a
  BY <1>3, <1>5 DEF Accounts!AuthName, Accounts!AuthAssumption
<1>7. records' = [records EXCEPT ![u] = b]
  BY <1>1, <1>2 DEF Typed
<1>8. \A v \in UserIDs : On(v)' = On(v)
  BY <1>4 DEF On
<1> HIDE DEF b
<1>9. Typed'
  BY <1>1, <1>2, <1>3, <1>4, <1>6, <1>7 DEF Typed
<1>10. \A v \in UserIDs : RecordOK(v)'
  <2> TAKE v \in UserIDs
  <2>1. CASE v = u
    <3>1. records'[u] = b /\ autheduser'[a] = u
      BY <1>1, <1>2, <1>3, <1>7 DEF Typed
    <3> QED BY <1>3, <1>4, <1>5, <1>6, <1>8, <2>1, <3>1 DEF RecordOK
  <2>2. CASE v # u
    <3>1. records'[v] = records[v] /\ On(v)' = On(v)
      BY <1>1, <1>7, <1>8, <2>2 DEF Typed
    <3>2. records[v] # NULL /\ records[v].noperserv # NULL => autheduser'[records[v].noperserv] = v
      BY <1>1, <1>2, <1>3, OwnStructures DEF Typed
    <3>3. RecordOK(v)
      BY DEF AccountsInv
    <3> QED BY <1>4, <3>1, <3>2, <3>3 DEF RecordOK
  <2> QED BY <2>1, <2>2
<1>11. \A s \in Regusers : ReguserOK(s)'
  <2> TAKE s \in Regusers
  <2>1. ReguserOK(s)
    BY DEF AccountsInv
  <2> QED BY <1>1, <1>4, <1>6, <1>7, <2>1 DEF ReguserOK, Typed
<1>12. \A e \in Authedusers : AutheduserOK(e)'
  <2> TAKE e \in Authedusers
  <2>1. AutheduserOK(e) /\ e # NULL
    BY DEF AccountsInv, Accounts!AuthAssumption
  <2>2. CASE e = a
    BY <1>1, <1>2, <1>3, <1>6, <1>7, <2>2 DEF AutheduserOK, Typed
  <2>3. CASE e # a
    BY <1>1, <1>2, <1>4, <1>7, <2>1, <2>3 DEF AutheduserOK, Typed
  <2> QED BY <2>2, <2>3
<1>13. IDsTaken'
  BY <1>1, <1>4 DEF IDsTaken
<1> QED BY <1>9, <1>10, <1>11, <1>12, <1>13 DEF AccountsInv

LEMMA DelUserInv ==
  ASSUME Accounts!AuthAssumption, AccountsInv, NEW a \in Authedusers, Accounts!DelUser(a)
  PROVE  AccountsInv'
<1>1. Typed /\ IDsTaken /\ AutheduserOK(a) /\ NULL \notin UserIDs
  BY DEF AccountsInv, Accounts!AuthAssumption
<1>2. PICK u \in UserIDs : u = autheduser[a]
  BY <1>1 DEF Typed, Accounts!DelUser
<1> DEFINE c == [records[u] EXCEPT !.noperserv = NULL]
           b == Accounts!Released(c)
<1>3. /\ records' = [records EXCEPT ![u] = b]
      /\ autheduser' = [autheduser EXCEPT ![a] = NULL]
      /\ UNCHANGED <<auth, reguser, lastuserID, loaded>>
  BY <1>1, <1>2 DEF Accounts!DelUser, Typed
<1>4. records[u] # NULL /\ records[u].noperserv = a /\ a # NULL
  BY <1>1, <1>2 DEF AutheduserOK, Accounts!DelUser, Accounts!AuthAssumption
<1>5. /\ records[u] \in Accounts!AuthName /\ RecordOK(u)
      /\ records[u].nicks = On(u) /\ records[u].usercount = Cardinality(On(u))
      /\ records[u].chanserv # NULL => reguser[records[u].chanserv] = [ID |-> u, dead |-> FALSE]
  BY <1>4, OwnStructures DEF AccountsInv, RecordOK
<1>6. /\ c \in Accounts!AuthName /\ c # NULL /\ c.nicks = On(u) /\ c.usercount = Cardinality(On(u))
      /\ c.chanserv = records[u].chanserv /\ c.noperserv = NULL
  BY <1>5 DEF Accounts!AuthName, Accounts!AuthAssumption
<1>7. Cardinality(On(u)) = 0 <=> On(u) = {}
  <2>1. IsFiniteSet(AuthNicks)
    BY DEF Accounts!AuthAssumption, Accounts!IsFiniteSet, IsFiniteSet
  <2> QED BY <2>1, OnFacts
<1>8. b = IF On(u) = {} /\ c.chanserv = NULL THEN NULL ELSE c
  BY <1>6, <1>7, ReleasedIs
<1>9. \A v \in UserIDs : On(v)' = On(v)
  BY <1>3 DEF On
<1> HIDE DEF b, c
<1>10. Typed'
  BY <1>1, <1>3, <1>6, <1>8 DEF Typed
<1>11. \A v \in UserIDs : RecordOK(v)'
  <2> TAKE v \in UserIDs
  <2>1. CASE v = u
    <3>1. records'[u] = b
      BY <1>1, <1>3 DEF Typed
    <3>2. b = NULL => On(u)' = {}
      BY <1>6, <1>8, <1>9
    <3>3. b # NULL => b = c /\ (On(u)' # {} \/ b.chanserv # NULL)
      BY <1>8, <1>9
    <3>4. b # NULL /\ b.chanserv # NULL => reguser'[b.chanserv] = [ID |-> u, dead |-> FALSE]
      BY <1>3, <1>5, <1>6, <3>3
    <3> QED BY <1>6, <1>9, <2>1, <3>1, <3>2, <3>3, <3>4 DEF RecordOK
  <2>2. CASE v # u
    <3>1. records'[v] = records[v] /\ On(v)' = On(v)
      BY <1>1, <1>3, <1>9, <2>2 DEF Typed
    <3>2. records[v] # NULL /\ records[v].noperserv # NULL => autheduser'[records[v].noperserv] = v
      BY <1>1, <1>2, <1>3, <2>2, OwnStructures DEF Typed
    <3>3. RecordOK(v)
      BY DEF AccountsInv
    <3> QED BY <1>3, <3>1, <3>2, <3>3 DEF RecordOK
  <2> QED BY <2>1, <2>2
<1>12. \A s \in Regusers : ReguserOK(s)'
  <2> TAKE s \in Regusers
  <2>1. ReguserOK(s) /\ s # NULL
    BY DEF AccountsInv, Accounts!AuthAssumption
  <2> QED BY <1>1, <1>3, <1>6, <1>8, <2>1 DEF ReguserOK, Typed
<1>13. \A e \in Authedusers : AutheduserOK(e)'
  <2> TAKE e \in Authedusers
  <2>1. AutheduserOK(e)
    BY DEF AccountsInv
  <2>2. CASE e = a
    BY <1>1, <1>3, <2>2 DEF AutheduserOK, Typed
  <2>3. CASE e # a
    <3>1. autheduser'[e] = autheduser[e]
      BY <1>1, <1>3, <2>3 DEF Typed
    <3>2. autheduser[e] # NULL /\ "noperserv" \in loaded => autheduser[e] # u
      BY <1>4, <2>1, <2>3 DEF AutheduserOK
    <3> QED BY <1>1, <1>3, <2>1, <3>1, <3>2 DEF AutheduserOK, Typed
  <2> QED BY <2>2, <2>3
<1>14. IDsTaken'
  BY <1>1, <1>3 DEF IDsTaken
<1> QED BY <1>10, <1>11, <1>12, <1>13, <1>14 DEF AccountsInv

\* releaseauthnameext(): what is left of the records when a service is unloaded.
LEMMA ClearedInv ==
  ASSUME Accounts!AuthAssumption, AccountsInv, NEW v \in UserIDs,
         NEW ext \in {"chanserv", "noperserv"}, Accounts!Cleared(ext), UNCHANGED auth,
         loaded' = loaded \ {ext}, ext \in loaded,
         ext # "noperserv" => UNCHANGED autheduser,
         ext # "chanserv" => UNCHANGED reguser
  PROVE  /\ records'[v] \in Accounts!AuthName \cup {NULL}
         /\ RecordOK(v)'
         /\ records[v] # NULL =>
              /\ records'[v] # NULL
              /\ ext # "noperserv" => records'[v].noperserv = records[v].noperserv
              /\ ext # "chanserv" => records'[v].chanserv = records[v].chanserv
<1>1. records'[v] = IF records[v] = NULL THEN NULL ELSE [records[v] EXCEPT ![ext] = NULL]
  BY DEF Accounts!Cleared
<1>2. On(v)' = On(v) /\ RecordOK(v) /\ loaded' # {"chanserv", "noperserv"}
  BY DEF On, AccountsInv
<1>3. CASE records[v] = NULL
  BY <1>1, <1>2, <1>3 DEF RecordOK
<1>4. CASE records[v] # NULL
  <2>1. /\ records[v] \in Accounts!AuthName
        /\ records[v].nicks = On(v) /\ records[v].usercount = Cardinality(On(v))
        /\ records[v].chanserv # NULL => reguser[records[v].chanserv] = [ID |-> v, dead |-> FALSE]
        /\ records[v].noperserv # NULL => autheduser[records[v].noperserv] = v
    BY <1>2, <1>4, OwnStructures DEF RecordOK
  <2>2. /\ records'[v] \in Accounts!AuthName
        /\ records'[v].nicks = records[v].nicks /\ records'[v].usercount = records[v].usercount
        /\ records'[v].chanserv = IF ext = "chanserv" THEN NULL ELSE records[v].chanserv
        /\ records'[v].noperserv = IF ext = "noperserv" THEN NULL ELSE records[v].noperserv
    <3>1. CASE ext = "chanserv"
      BY <1>1, <1>4, <2>1, <3>1 DEF Accounts!AuthName
    <3>2. CASE ext = "noperserv"
      BY <1>1, <1>4, <2>1, <3>2 DEF Accounts!AuthName
    <3> QED BY <3>1, <3>2
  <2>3. records'[v] # NULL
    BY <2>2 DEF Accounts!AuthAssumption
  <2> QED BY <1>2, <1>4, <2>1, <2>2, <2>3 DEF RecordOK
<1> QED BY <1>3, <1>4

LEMMA UnloadChanservInv ==
  ASSUME Accounts!AuthAssumption, AccountsInv, Accounts!UnloadChanserv
  PROVE  AccountsInv'
<1>1. Typed
  BY DEF AccountsInv
<1>2. /\ Accounts!Cleared("chanserv") /\ loaded' = loaded \ {"chanserv"} /\ "chanserv" \in loaded
      /\ reguser' = [r \in Regusers |-> NULL]
      /\ UNCHANGED <<auth, autheduser, lastuserID>>
  BY DEF Accounts!UnloadChanserv
<1>3. \A v \in UserIDs :
        /\ records'[v] \in Accounts!AuthName \cup {NULL}
        /\ RecordOK(v)'
        /\ records[v] # NULL => records'[v] # NULL /\ records'[v].noperserv = records[v].noperserv
  BY <1>2, ClearedInv
<1>4. Typed'
  <2>1. records' = [v \in UserIDs |-> records'[v]]
    BY <1>2 DEF Accounts!Cleared
  <2> QED BY <1>1, <1>2, <1>3, <2>1 DEF Typed
<1>5. \A r \in Regusers : ReguserOK(r)'
  BY <1>2 DEF ReguserOK
<1>6. \A e \in Authedusers : AutheduserOK(e)'
  <2> TAKE e \in Authedusers
  <2>1. AutheduserOK(e) /\ autheduser[e] \in UserIDs \cup {NULL}
    BY <1>1 DEF AccountsInv, Typed
  <2> QED BY <1>2, <1>3, <2>1 DEF AutheduserOK
<1>7. IDsTaken'
  BY <1>2 DEF IDsTaken
<1> QED BY <1>3, <1>4, <1>5, <1>6, <1>7 DEF AccountsInv

LEMMA UnloadNoperservInv ==
  ASSUME Accounts!AuthAssumption, AccountsInv, Accounts!UnloadNoperserv
  PROVE  AccountsInv'
<1>1. Typed
  BY DEF AccountsInv
<1>2. /\ Accounts!Cleared("noperserv") /\ loaded' = loaded \ {"noperserv"} /\ "noperserv" \in loaded
      /\ UNCHANGED <<auth, reguser, autheduser, lastuserID>>
  BY DEF Accounts!UnloadNoperserv
<1>3. \A v \in UserIDs :
        /\ records'[v] \in Accounts!AuthName \cup {NULL}
        /\ RecordOK(v)'
        /\ records[v] # NULL => records'[v] # NULL /\ records'[v].chanserv = records[v].chanserv
  BY <1>2, ClearedInv
<1>4. Typed'
  <2>1. records' = [v \in UserIDs |-> records'[v]]
    BY <1>2 DEF Accounts!Cleared
  <2> QED BY <1>1, <1>2, <1>3, <2>1 DEF Typed
<1>5. \A r \in Regusers : ReguserOK(r)'
  <2> TAKE r \in Regusers
  <2>1. ReguserOK(r) /\ (reguser[r] # NULL => reguser[r].ID \in UserIDs)
    BY <1>1 DEF AccountsInv, Typed, Accounts!Reguser
  <2> QED BY <1>2, <1>3, <2>1 DEF ReguserOK
<1>6. \A e \in Authedusers : AutheduserOK(e)'
  BY <1>2 DEF AutheduserOK
<1>7. IDsTaken'
  BY <1>1, <1>2 DEF IDsTaken, AccountsInv
<1> QED BY <1>3, <1>4, <1>5, <1>6, <1>7 DEF AccountsInv

LEMMA AccountsStep ==
  ASSUME Accounts!AuthAssumption, AccountsInv, [Accounts!Next]_Accounts!vars
  PROVE  AccountsInv'
<1>1. ASSUME NEW n \in AuthNicks, NEW u \in UserIDs, Accounts!Login(n, u) PROVE AccountsInv'
  BY <1>1, LoginInv
<1>2. ASSUME NEW n \in AuthNicks, Accounts!deletenick(n) PROVE AccountsInv'
  BY <1>2, DeleteNickInv
<1>3. CASE Accounts!CreateAccount
  BY <1>3, CreateAccountInv
<1>4. ASSUME NEW r \in Regusers, Accounts!cs_removeuser(r) PROVE AccountsInv'
  BY <1>4, RemoveUserInv
<1>5. ASSUME NEW u \in UserIDs, Accounts!AddUser(u) PROVE AccountsInv'
  BY <1>5, AddUserInv
<1>6. ASSUME NEW a \in Authedusers, Accounts!DelUser(a) PROVE AccountsInv'
  BY <1>6, DelUserInv
<1>7. CASE Accounts!UnloadChanserv
  BY <1>7, UnloadChanservInv
<1>8. CASE Accounts!UnloadNoperserv
  BY <1>8, UnloadNoperservInv
<1>9. CASE UNCHANGED Accounts!vars
  BY <1>9 DEF Accounts!vars, AccountsInv, Typed, RecordOK, ReguserOK, AutheduserOK, IDsTaken, On
<1> QED BY <1>1, <1>2, <1>3, <1>4, <1>5, <1>6, <1>7, <1>8, <1>9 DEF Accounts!Next

\* findorcreateauthname(), releaseauthname(), releaseauthnameext(), cs_removeuser(),
\* noperserv_delete_autheduser(): however many nicks, users and structures there are, all who hold an
\* account share one record, which knows and counts its nicks, leads to its users and back, and goes
\* with the last of them.
THEOREM AccountsShared ==
  ASSUME Accounts!AuthAssumption
  PROVE  Accounts!Spec => []RecordsExact
<1>1. Accounts!Init => AccountsInv
  BY AccountsStart
<1>2. AccountsInv /\ [Accounts!Next]_Accounts!vars => AccountsInv'
  BY AccountsStep
<1>3. AccountsInv => RecordsExact
  <2>1. SUFFICES ASSUME AccountsInv PROVE Accounts!RecordsExact
    BY DEF RecordsExact
  <2>2. \A u \in UserIDs : Accounts!Cardinality(On(u)) = Cardinality(On(u))
    BY SameCardinality
  <2>3. Typed
    BY <2>1 DEF AccountsInv
  <2>4. \A u \in UserIDs :
          IF records[u] = NULL THEN On(u) = {}
          ELSE /\ records[u].nicks = On(u)
               /\ records[u].usercount = Accounts!Cardinality(On(u))
               /\ records[u].chanserv # NULL => reguser[records[u].chanserv] = [ID |-> u, dead |-> FALSE]
               /\ records[u].noperserv # NULL => autheduser[records[u].noperserv] = u
               /\ \/ On(u) # {} \/ records[u].chanserv # NULL \/ records[u].noperserv # NULL
                  \/ loaded # {"chanserv", "noperserv"}
    BY <2>1, <2>2 DEF AccountsInv, RecordOK
  <2>5. \A r \in Regusers \ Accounts!Free(reguser) :
          ~reguser[r].dead => records[reguser[r].ID] # NULL /\ records[reguser[r].ID].chanserv = r
    BY <2>1, <2>3 DEF AccountsInv, ReguserOK, Accounts!Free, Typed
  <2>6. \A a \in Authedusers \ Accounts!Free(autheduser) :
          "noperserv" \in loaded => records[autheduser[a]] # NULL /\ records[autheduser[a]].noperserv = a
    BY <2>1, <2>3 DEF AccountsInv, AutheduserOK, Accounts!Free, Typed
  <2> QED BY <2>4, <2>5, <2>6 DEF Accounts!RecordsExact, On
<1> QED BY <1>1, <1>2, <1>3, PTL DEF Accounts!Spec
=============================================================================
