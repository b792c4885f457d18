------------------------------ MODULE MCTables ------------------------------
(***************************************************************************)
(* Those of the program's tables whose modules can be proved about: the    *)
(* heap of timers, the nicks of two servers, the hash of a channel's       *)
(* users, the modes of a channel, the server list, the scanner's queue,    *)
(* and the bans. Each behaviour of MCStructures is one of the components,  *)
(* named by part.                                                          *)
(***************************************************************************)
EXTENDS NickTable, TLC

CONSTANTS
  Items, HeapTimes,
  HashNumerics, CUHASH_DEPTH, nouser, MaxGrowth,
  ChannelUsers, SimpleModes, Keys, Limits, ModeTimes, MAGIC_REMOTE_JOIN_TS,
  TreeServers, mynumeric, MaxWire, MaxEvents,
  Node, thescans, maxscans, PassDelay, CleanInterval, DirtyInterval, Again, MaxClock, MaxForced,
  GlineMasks, Durations, Ahead, Ulined, LastSecond, MaxLines

VARIABLES
  part,
  events, index, nextschedule, queued,
  content, totalusers, lp, members,
  cp,
  serverlist, myhub, stack, op, hubview, bursting, behind, wire, happened,
  normalqueue, prioqueue, scantable, alarm, activescans, cache, refs, ready, connected, clock, forced,
  glinelist, saved, hubbans, toUs, toHub, now

ASSUME NickTableAssumption

Heap == INSTANCE ScheduleHeap WITH Keys <- HeapTimes, key <- nextschedule
ASSUME HeapAssumption == Heap!HeapAssumption

Hash == INSTANCE ChanUserHash WITH Numerics <- HashNumerics, JoinInHook <- FALSE
ASSUME HashAssumption == Hash!HashAssumption

Modes == INSTANCE ChannelModes WITH Users <- ChannelUsers, Simple <- SimpleModes, Times <- ModeTimes
ASSUME ModesAssumption == Modes!ModesAssumption

Tree == INSTANCE ServerTree WITH
  Numerics <- TreeServers, PrefixOf <- {}, net <- hubview, events <- happened
ASSUME TreeAssumption == Tree!TreeAssumption

Scanner == INSTANCE ProxyScan WITH MaxTime <- MaxClock, online <- connected, now <- clock
ASSUME ScanAssumption == Scanner!ScanAssumption

Gline == INSTANCE Glines WITH
  Masks <- GlineMasks, Crossing <- FALSE, MaxTime <- LastSecond, MaxWire <- MaxLines, hub <- hubbans
ASSUME GlineAssumption == Gline!GlineAssumption

-----------------------------------------------------------------------------
\* ScheduleHeap: insertschedule() and schedule_remove() keep the timers in a heap.
HeapExact == part = "heap" => Heap!HeapExact

\* ChanUserHash: the users on a channel are found in its hash.
HashExact == part = "hash" => Hash!HashExact

\* ChannelModes: a channel's key and limit go with its modes.
ValuesExact == part = "modes" => Modes!ValuesExact

\* ChannelModes: the order of two bursts does not matter.
BurstsCommute == part = "modes" => Modes!BurstsCommute

\* ServerTree: the server list is the hub's tree.
Mirror == part = "servers" => Tree!Mirror

\* ServerTree: at every hook the servers hang on us, and who waits for a burst waits for somebody
\* who bursts.
Rooted == part = "servers" => Tree!Rooted

\* ProxyScan: as many scans run as may, each with an alarm, and hold their addresses.
ScansExact == part = "scans" => Scanner!ScansExact

\* Glines: when nothing is on its way, newserv and its hub agree on who is banned.
BansAgree == part = "glines" => Gline!Agree
=============================================================================
