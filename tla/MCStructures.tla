---------------------------- MODULE MCStructures ----------------------------
(***************************************************************************)
(* The program's tables, each on its own: those of MCTables, and those     *)
(* that only TLC says something about.  A behaviour is one of the          *)
(* components named by part, and the others stay as they were initialised. *)
(***************************************************************************)
EXTENDS MCTables, Sequences

CONSTANTS
  NONE, FREED,
  Handlers, MaxCommands,
  n1, n2, n3, Group

VARIABLES
  tree, added,
  online, group, users, count, parent, children, groupcount, trusthost, loaded, timer, hooksregistered,
  modules, safereload_str, scheduled, seen, lost

\* Names of one to three letters, of which some are the beginning of others.
CommandNames == {<<>>, <<1>>, <<1, 1>>, <<1, 2>>, <<1, 2, 1>>, <<1, 2, 2>>, <<2, 1, 1>>}

\* Three nicks at addresses of two bits, and four networks.
Address == (n1 :> <<0, 0>>) @@ (n2 :> <<0, 1>>) @@ (n3 :> <<1, 0>>)
Masks == {<<>>, <<0>>, <<0, 0>>, <<0, 1>>}

\* Five modules, two of which need others at two distances.
ModuleDeps == <<"a", "b", "c", "d", "e">>
Parents == ("a" :> <<>>) @@ ("b" :> <<"a">>) @@ ("c" :> <<"a", "b">>) @@ ("d" :> <<"a">>) @@ ("e" :> <<"b", "d">>)

\* One kind of scan: a type and its port.
OneScan == <<"http">>

hash == <<content, totalusers, lp, members>>

heap == <<events, index, nextschedule, queued>>

commands == <<tree, added>>
Commands == INSTANCE CommandTree WITH NUL <- 0

trusts == <<online, group, users, count, parent, children, groupcount, trusthost, loaded, timer, hooksregistered>>
Trust == INSTANCE Trusts WITH AddressBits <- 2, DeletesCovered <- FALSE, EarlyChanges <- FALSE

loader == <<modules, safereload_str, scheduled, seen, lost>>
Loader == INSTANCE Modules WITH MaxReloads <- 2

glines == <<glinelist, saved, hubbans, toUs, toHub, now>>

scans == <<normalqueue, prioqueue, scantable, alarm, activescans, cache, refs, ready, connected, clock, forced>>

nicks == vars
modes == cp
servers == <<serverlist, myhub, stack, op, hubview, bursting, behind, wire, happened>>

MCInit ==
  /\ part \in {"nicks", "hash", "modes", "heap", "commands", "trusts", "servers", "loader", "glines", "scans"}
  /\ Init /\ Hash!Init /\ Modes!Init
  /\ Heap!Init /\ Commands!Init /\ Trust!Init /\ Tree!Init /\ Loader!Init /\ Gline!Init /\ Scanner!Init

MCNext ==
  /\ UNCHANGED part
  /\ \/ part = "nicks" /\ Next /\ UNCHANGED <<hash, modes, heap, commands, trusts, servers, loader, glines, scans>>
     \/ part = "hash" /\ Hash!Next /\ UNCHANGED <<nicks, modes, heap, commands, trusts, servers, loader, glines, scans>>
     \/ part = "modes" /\ Modes!Next /\ UNCHANGED <<nicks, hash, heap, commands, trusts, servers, loader, glines, scans>>
     \/ part = "heap" /\ Heap!Next /\ UNCHANGED <<nicks, hash, modes, commands, trusts, servers, loader, glines, scans>>
     \/ part = "commands" /\ Commands!Next /\ UNCHANGED <<nicks, hash, modes, heap, trusts, servers, loader, glines, scans>>
     \/ part = "trusts" /\ Trust!Next /\ UNCHANGED <<nicks, hash, modes, heap, commands, servers, loader, glines, scans>>
     \/ part = "servers" /\ Tree!Next /\ UNCHANGED <<nicks, hash, modes, heap, commands, trusts, loader, glines, scans>>
     \/ part = "loader" /\ Loader!Next /\ UNCHANGED <<nicks, hash, modes, heap, commands, trusts, servers, glines, scans>>
     \/ part = "glines" /\ Gline!Next /\ UNCHANGED <<nicks, hash, modes, heap, commands, trusts, servers, loader, scans>>
     \/ part = "scans" /\ Scanner!Next /\ UNCHANGED <<nicks, hash, modes, heap, commands, trusts, servers, loader, glines>>

tables == <<part, nicks, hash, modes, heap, commands, trusts, servers, loader, glines, scans>>
MCSpec == MCInit /\ [][MCNext]_tables

\* Only the nick tables have model values in these sets.
Symmetry == Permutations(Names) \cup Permutations(Hosts)

-----------------------------------------------------------------------------
\* CommandTree: a command is found by its name.
LookupExact == part = "commands" => Commands!LookupExact

\* Trusts: nicks are counted for the most specific host.
TrustsExact == part = "trusts" => Trust!TrustsExact

\* Modules: no module is loaded without those it needs.
NeedsMet == part = "loader" => Loader!NeedsMet
=============================================================================
