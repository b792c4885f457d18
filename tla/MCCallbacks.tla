---------------------------- MODULE MCCallbacks -----------------------------
(***************************************************************************)
(* Two hooks, one of them HOOK_CORE_ENDOFHOOKSQUEUE, with nested triggers; *)
(* or three nick structures that are killed in hooks nested three deep.    *)
(* Each behaviour is one of the two, named by part; the other stays as it  *)
(* was initialised.                                                        *)
(***************************************************************************)
EXTENDS Hooks, TLC

CONSTANTS h1, eoq, Nicks, MaxPending

VARIABLES part, alive, pendingkilllist, killframes, endofqueue

kills == <<alive, pendingkilllist, killframes, endofqueue>>
Kills == INSTANCE PendingKills WITH frames <- killframes, LateKills <- FALSE

MCInit == part \in {"hooks", "kills"} /\ Init /\ Kills!Init

MCNext ==
  /\ UNCHANGED part
  /\ \/ part = "hooks" /\ Next /\ UNCHANGED kills
     \/ part = "kills" /\ Kills!Next /\ UNCHANGED vars

MCSpec == MCInit /\ [][MCNext]_<<part, vars, kills>>

Symmetry == Permutations(Callbacks) \cup Permutations(Nodes) \cup Permutations(Nicks)

\* PendingKills: no nick that a hook, a departure or a pending kill names has been freed.
NicksAlive == Kills!NicksAlive
=============================================================================
