------------------------------ MODULE Modules -------------------------------
(***************************************************************************)
(* The module loader, core/modules.c. A module is loaded after the modules *)
(* it needs and unloaded after those that need it; a reload takes out a    *)
(* module with all that need it, and puts them back. The table of loaded   *)
(* modules is an array in which the last entry moves to a place that has   *)
(* become free, while the loader's recursion goes on.                      *)
(***************************************************************************)
EXTENDS Naturals, Sequences, SequencesExt

CONSTANTS
  ModuleDeps,    \* the names in modules.dep: parents come before their children
  Parents,       \* from names to the sequences of modules they need
  NULL,
  MaxReloads     \* bound: callbacks of safereload() that are scheduled

VARIABLES
  modules,          \* the names in the array
  safereload_str,   \* the module to be reloaded, NULL if none
  scheduled,        \* how many safereloadcallback() are
  seen,             \* history: what was loaded whenever a constructor or destructor of the last call ran
  lost              \* history: what the last call has not put back, although it could be loaded

vars == <<modules, safereload_str, scheduled, seen, lost>>

ModuleNames == ToSet(ModuleDeps)

\* The second pass of initmoduledeps() fills in the children in the order of the file.
children(m) == SelectSeq(ModuleDeps, LAMBDA c : Contains(Parents[c], m))

Init ==
  /\ modules = <<>>
  /\ safereload_str = NULL
  /\ scheduled = 0
  /\ seen = {}
  /\ lost = {}

\* What a call of the loader passes on: the array, whether it has failed, and what was seen.
Start == [modules |-> modules, failed |-> FALSE, seen |-> {}]
isloaded(s, m) == Contains(s.modules, m)
Failed(s) == [s EXCEPT !.failed = TRUE]

\* array_delslot()
delslot(s, i) == IF i = Len(s) THEN Front(s) ELSE Front([s EXCEPT ![i] = Last(s)])

-----------------------------------------------------------------------------
\* dlopen() runs the constructor, unless the file of the module is broken.
dlopen(s, m, broken) ==
  IF m \in broken THEN Failed(s)
  ELSE LET mods == Append(s.modules, m) IN
       [s EXCEPT !.modules = mods, !.seen = @ \cup {ToSet(mods)}]

\* insmod() stops at the first parent that cannot be loaded. One that is loaded already is a failure.
RECURSIVE insmod(_, _, _)
insmod(s, m, broken) ==
  LET Need(t, p) == IF t.failed \/ isloaded(t, p) THEN t ELSE insmod(t, p, broken)
      ready == FoldLeft(Need, s, Parents[m])
  IN IF isloaded(s, m) THEN Failed(s)
     ELSE IF ready.failed THEN ready
     ELSE dlopen(ready, m, broken)

\* MUTANT: the index is not looked up again after the children have gone.
RECURSIVE Bug_rmmod(_, _)
Bug_rmmod(s, m) ==
  LET Drop(t, c) == IF t.failed \/ ~isloaded(t, c) THEN t ELSE Bug_rmmod(t, c)
      i == SelectInSeq(s.modules, LAMBDA x : x = m)
      alone == FoldLeft(Drop, s, children(m))
  IN IF ~isloaded(s, m) THEN Failed(s)
     ELSE IF alone.failed \/ i > Len(alone.modules) THEN alone
     ELSE [alone EXCEPT !.modules = delslot(@, i), !.seen = @ \cup {ToSet(alone.modules)}]

\* rmmod() unloads the children, whose going moves entries of the array, and then the module.
RECURSIVE rmmod(_, _)
rmmod(s, m) ==
  LET Drop(t, c) == IF t.failed \/ ~isloaded(t, c) THEN t ELSE rmmod(t, c)
      alone == FoldLeft(Drop, s, children(m))
      i == SelectInSeq(alone.modules, LAMBDA x : x = m)
  IN IF ~isloaded(s, m) THEN Failed(s)
     ELSE IF alone.failed \/ i = 0 THEN Failed(alone)
     ELSE [alone EXCEPT !.modules = delslot(@, i), !.seen = @ \cup {ToSet(alone.modules)}]

\* setreloadmark(): the module and its children, as far as they are loaded.
RECURSIVE setreloadmark(_)
setreloadmark(m) ==
  IF ~isloaded(Start, m) THEN {}
  ELSE {m} \cup UNION {setreloadmark(c) : c \in ToSet(children(m))}

-----------------------------------------------------------------------------
Ends(s) ==
  /\ modules' = s.modules
  /\ seen' = s.seen

\* Commands of the control service, and modules loaded at the start.
Insmod(m, broken) ==
  /\ Ends(insmod(Start, m, broken))
  /\ lost' = {}
  /\ UNCHANGED <<safereload_str, scheduled>>

Rmmod(m) ==
  /\ Ends(rmmod(Start, m))
  /\ lost' = {}
  /\ UNCHANGED <<safereload_str, scheduled>>

\* safereload(): what was scheduled before is not kept in safereload_sched and stays scheduled.
safereload(m) ==
  /\ scheduled < MaxReloads
  /\ safereload_str' = m
  /\ scheduled' = scheduled + 1
  /\ seen' = {} /\ lost' = {}
  /\ UNCHANGED modules

\* Whether m or a module it needs, at any distance, is broken.
RECURSIVE NeedsBroken(_, _)
NeedsBroken(m, broken) == m \in broken \/ \E p \in ToSet(Parents[m]) : NeedsBroken(p, broken)

\* safereloadcallback() with preparereload(), which marks, and reloadmarked().
safereloadcallback(broken) ==
  /\ scheduled > 0
  /\ scheduled' = scheduled - 1
  /\ safereload_str' = NULL
  /\ IF safereload_str = NULL
     THEN seen' = {} /\ lost' = {} /\ UNCHANGED modules
     ELSE LET m == safereload_str
              marked == setreloadmark(m)
              Next1(s, x) == insmod([s EXCEPT !.failed = FALSE], x, broken)
              back == FoldLeft(Next1, rmmod(Start, m), <<m>> \o SelectSeq(ModuleDeps, LAMBDA x : x \in marked))
          IN /\ Ends(back)
             /\ lost' = {x \in ToSet(modules) \ ToSet(back.modules) : ~NeedsBroken(x, broken)}

\* newserv_shutdown(): the first of the array goes until there is none.
newserv_shutdown ==
  /\ modules # <<>>
  /\ Ends(FoldLeft(LAMBDA s, i : IF s.modules = <<>> THEN s ELSE rmmod(s, Head(s.modules)), Start, modules))
  /\ lost' = ToSet(modules')
  /\ UNCHANGED <<safereload_str, scheduled>>

Next ==
  \/ \E m \in ModuleNames : Rmmod(m) \/ safereload(m)
  \/ \E m \in ModuleNames, broken \in SUBSET ModuleNames : Insmod(m, broken)
  \/ \E broken \in SUBSET ModuleNames : safereloadcallback(broken)
  \/ newserv_shutdown

Spec == Init /\ [][Next]_vars

-----------------------------------------------------------------------------
\* insmod(), rmmod(), reloadmarked(): whenever a module's constructor or destructor runs, all it needs
\* is loaded, and afterwards no loaded module misses one, also when one on the way could not be loaded;
\* a reload brings back everything that can be loaded, and a shutdown ends.
NeedsMet ==
  /\ \A mods \in seen \cup {ToSet(modules)} : \A m \in mods : ToSet(Parents[m]) \subseteq mods
  /\ IsInjective(modules)
  /\ lost = {}
=============================================================================
