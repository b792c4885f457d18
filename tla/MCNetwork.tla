------------------------------ MODULE MCNetwork -----------------------------
(***************************************************************************)
(* Who is on the network and on its channels: two channels, two users and  *)
(* a service; a service's buffer of mode changes; the tree of addresses;   *)
(* the records of accounts.  Each behaviour is one of them, named by part; *)
(* the others stay as they were initialised.  Those who hold accounts are  *)
(* the model values of Chans, for the sake of symmetry.                    *)
(***************************************************************************)
EXTENDS MCAccounts

CONSTANTS
  x1, x2, u1, u2, n1, n2, n3, q,
  NONE, FREED, Bans, Keys, Limits, Simple, MAXMODEARGS, LineArgs,
  MaxBits, Lengths, MaxHeld

VARIABLES
  chan, net, buf,
  tree, online, held

membership == vars

changes == <<chan, net, buf>>
Changes == INSTANCE ModeChanges WITH
  source <- q, Users <- {n3}, UserModes <- {"o"}, TakesBack <- FALSE

addresses == <<tree, online, held>>
Addresses == INSTANCE Patricia WITH nicks <- online

accounts == <<records, auth, reguser, autheduser, lastuserID, loaded>>

MCInit ==
  /\ part \in {"membership", "changes", "addresses", "accounts"}
  /\ Init /\ Changes!Init /\ Addresses!Init /\ Accounts!Init
  /\ part # "accounts" => records = [u \in UserIDs |-> NULL]

MCNext ==
  /\ UNCHANGED part
  /\ \/ part = "membership" /\ Next /\ UNCHANGED <<changes, addresses, accounts>>
     \/ part = "changes" /\ Changes!Next /\ UNCHANGED <<membership, addresses, accounts>>
     \/ part = "addresses" /\ Addresses!Next /\ UNCHANGED <<membership, changes, accounts>>
     \/ part = "accounts" /\ Accounts!Next /\ UNCHANGED <<membership, changes, addresses>>

MCSpec == MCInit /\ [][MCNext]_<<part, membership, changes, addresses, accounts>>

Symmetry == Permutations(Names) \cup Permutations(Chans) \cup Permutations(Nicks \ Services)

\* ModeChanges: flushing the buffer tells the network all of our changes.
FlushTells == part = "changes" => Changes!FlushTells

\* Patricia: the nodes form a tree without superfluous nodes.
TreeExact == part = "addresses" => Addresses!TreeExact

\* Patricia: references and nicks are counted.
CountsExact == part = "addresses" => Addresses!CountsExact
=============================================================================
