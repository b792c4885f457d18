------------------------------- MODULE Glines -------------------------------
(***************************************************************************)
(* Bans of the network, glines/*.c: the list that newserv keeps, against   *)
(* the one of its hub. Either side changes it and tells the other; the     *)
(* time of the last change decides. A ban that has been taken back stays   *)
(* in the list, inactive, until its lifetime is over. Services of other    *)
(* servers set bans without such a time (U-lined, lastmod 0).              *)
(*                                                                         *)
(* The hub is ircu, as the handler takes it to be: it answers a line that  *)
(* is older than what it has with what it has.                             *)
(***************************************************************************)
EXTENDS Integers, Sequences, FiniteSets, SequencesExt, FiniteSetsExt

CONSTANTS
  Masks,
  Durations,    \* for which bans are set
  Ahead,        \* how far the clocks of other servers, that make lastmod, may be ahead
  Ulined,       \* whether services of other servers set bans
  Crossing,     \* whether both sides may change something before they hear of each other
  MaxTime,      \* bound
  MaxWire,      \* bound: lines of the hub on their way
  NULL

VARIABLES
  glinelist,    \* ours
  saved,        \* the file that glstore_save() wrote last
  hub,          \* for each mask what the hub knows, or NULL
  toUs, toHub,  \* lines on their way
  now

vars == <<glinelist, saved, hub, toUs, toHub, now>>

\* Clocks of other servers are ahead by no more than a ban lasts.
GlineAssumption ==
  /\ IsFiniteSet(Masks)
  /\ Ahead \in Nat /\ Durations \subseteq Nat \ {0} /\ \A d \in Durations : Ahead <= d
  /\ NULL \notin [active : BOOLEAN, expire : Int, lastmod : Nat]

Larger(a, b) == IF a < b THEN b ELSE a

Init ==
  /\ glinelist = <<>> /\ saved = <<>>
  /\ hub = [m \in Masks |-> NULL]
  /\ toUs = <<>> /\ toHub = <<>>
  /\ now = 1

-----------------------------------------------------------------------------
\* findgline(): on its way to the mask it removes what is over, and deactivates what has expired.
Swept(list) ==
  LET swept[k \in 0 .. Len(list)] ==
        IF k = 0 THEN <<>>
        ELSE IF list[k].lifetime <= now THEN swept[k - 1]
        ELSE Append(swept[k - 1], [list[k] EXCEPT !.active = @ /\ list[k].expire > now])
  IN swept[Len(list)]

findgline(list, mask) ==
  LET hits == {i \in DOMAIN list : list[i].mask = mask /\ list[i].lifetime > now}
      last == IF hits = {} THEN Len(list) ELSE Min(hits)
  IN Swept(SubSeq(list, 1, last)) \o SubSeq(list, last + 1, Len(list))

At(list, mask) == SelectInSeq(list, LAMBDA g : g.mask = mask)

\* The time of our own change is later than that of the last one, whatever our clock says.
\* MUTANT: it is our clock's.
Bug_Lastmod(g, lastmod) == IF lastmod # 0 THEN lastmod ELSE now

Lastmod(g, lastmod) ==
  IF lastmod # 0 THEN lastmod ELSE IF now <= g.lastmod THEN g.lastmod + 1 ELSE now

gline_activate(g, lastmod) == [g EXCEPT !.active = TRUE, !.lastmod = Lastmod(g, lastmod)]

gline_deactivate(g, lastmod) ==
  IF g.lastmod = 0 THEN g ELSE [g EXCEPT !.active = FALSE, !.lastmod = Lastmod(g, lastmod)]

\* gline_destroy(), which keeps what is U-lined.
gline_destroy(list, i) ==
  IF list[i].lastmod = 0 THEN [list EXCEPT ![i].active = FALSE, ![i].destroyed = TRUE] ELSE RemoveAt(list, i)

gline_propagate(g) ==
  IF g.lastmod = 0 \/ g.destroyed THEN <<>>
  ELSE <<[op |-> IF g.active THEN "+" ELSE "-", mask |-> g.mask, duration |-> g.expire - now, lastmod |-> g.lastmod]>>

\* glinebufadd()
NewGline(mask, expire, lastmod, lifetime) ==
  [mask |-> mask, active |-> TRUE, destroyed |-> FALSE, expire |-> expire, lastmod |-> lastmod, lifetime |-> lifetime]

\* glinebufcommit() of a buffer with one G-line. The version of ircu spoken cannot change when a
\* known one expires.
glinebufcommit(list, g) ==
  LET found == findgline(list, g.mask)
      i == At(found, g.mask)
  IN IF i = 0 THEN <<g>> \o found
     ELSE [found EXCEPT ![i] = IF g.active /\ ~@.active THEN gline_activate(@, 0)
                               ELSE IF ~g.active /\ @.active THEN gline_deactivate(@, 0) ELSE @]

-----------------------------------------------------------------------------
\* What commands and modules do.
MayChange == toHub = <<>> /\ (Crossing \/ toUs = <<>>)

\* Changes of a ban, seconds apart by clocks that are seconds apart, are dated before it expires.
Early(list) == \A i \in DOMAIN list : Larger(now, list[i].lastmod + 1) < list[i].expire \/ list[i].lifetime <= now

Ours(list, lines) ==
  /\ glinelist' = list
  /\ toHub' = toHub \o lines
  /\ UNCHANGED <<saved, hub, toUs, now>>

Commit(mask, duration) ==
  LET list == glinebufcommit(glinelist, NewGline(mask, now + duration, now, now + duration))
  IN Ours(list, gline_propagate(list[At(list, mask)]))

\* The command GLINE. Other ways of setting, glinebynick() and the like, do not look before.
glines_cmdgline(mask, duration) ==
  LET found == findgline(glinelist, mask)
      i == At(found, mask)
  IN /\ MayChange /\ Early(glinelist)
     /\ IF i # 0 /\ found[i].active THEN Ours(found, <<>>) ELSE Commit(mask, duration)

glinebynick(mask, duration) == MayChange /\ Early(glinelist) /\ Commit(mask, duration)

\* UNGLINE, and glineunsetmask() and glinebufundo(), which do not ask if it is active.
Unset(mask, asks) ==
  LET found == findgline(glinelist, mask)
      i == At(found, mask)
  IN /\ MayChange /\ Early(glinelist)
     /\ IF i = 0 \/ (asks /\ ~found[i].active) THEN Ours(found, <<>>)
        ELSE LET g == gline_deactivate(found[i], 0)
             IN Ours([found EXCEPT ![i] = g], IF found[i].lastmod = 0 THEN <<>> ELSE gline_propagate(g))

-----------------------------------------------------------------------------
\* handleglinemsg(), by the sign of the mask. A line with two or four parameters has no lastmod.

Activated(list, line) ==
  LET expire == now + line.duration
      lifetime == Larger(line.lastmod, expire)
      found == findgline(list, line.mask)
      i == At(found, line.mask)
  IN IF i = 0 THEN glinebufcommit(found, NewGline(line.mask, expire, line.lastmod, lifetime))
     ELSE IF line.lastmod > found[i].lastmod
     THEN [found EXCEPT ![i].active = TRUE, ![i].lastmod = line.lastmod, ![i].expire = expire, ![i].lifetime = lifetime]
     ELSE [found EXCEPT ![i].active = TRUE]

Deactivated(list, line) ==
  LET expire == now + line.duration
      found == findgline(list, line.mask)
      i == At(found, line.mask)
      g == NewGline(line.mask, expire, line.lastmod, Larger(line.lastmod, expire))
  IN IF i # 0 THEN IF line.op = "remove" THEN RemoveAt(found, i)
                   ELSE IF line.op = "%-" THEN gline_destroy(found, i)
                   ELSE [found EXCEPT ![i] = gline_deactivate(@, line.lastmod)]
     ELSE IF line.op = "remove" THEN found ELSE glinebufcommit(found, gline_deactivate(g, line.lastmod))

handleglinemsg ==
  /\ toUs # <<>>
  /\ glinelist' = IF Head(toUs).op = "+" THEN Activated(glinelist, Head(toUs)) ELSE Deactivated(glinelist, Head(toUs))
  /\ toUs' = Tail(toUs)
  /\ UNCHANGED <<saved, hub, toHub, now>>

-----------------------------------------------------------------------------
\* glstore_save() and glstore_load(), which leaves alone what is known.
glstore_save ==
  /\ saved' = glinelist
  /\ UNCHANGED <<glinelist, hub, toUs, toHub, now>>

glstore_load(list) ==
  LET Line(l, g) ==
        LET found == findgline(l, g.mask)
        IN IF At(found, g.mask) # 0 THEN found ELSE <<[g EXCEPT !.destroyed = FALSE]>> \o found
      read[k \in 0 .. Len(list)] == IF k = 0 THEN <<>> ELSE Line(read[k - 1], list[k])
  IN read[Len(list)]

-----------------------------------------------------------------------------
\* The hub.
Told(m, g) ==
  [op |-> IF g.active THEN "+" ELSE "-", mask |-> m, duration |-> g.expire - now, lastmod |-> g.lastmod]

Known == {m \in Masks : hub[m] # NULL}

\* A burst names every ban once, in some order.
Orders == {f \in [1 .. Cardinality(Known) -> Known] : Range(f) = Known}
Burst(f) == [i \in DOMAIN f |-> Told(f[i], hub[f[i]])]

HubMay == Len(toUs) < MaxWire /\ (Crossing \/ toHub = <<>>)
Later(m) == {t \in now .. now + Ahead : hub[m] = NULL \/ (t > hub[m].lastmod /\ t < hub[m].expire)}

HubSays(m, g, line) ==
  /\ HubMay
  /\ hub' = [hub EXCEPT ![m] = g]
  /\ toUs' = Append(toUs, line)
  /\ UNCHANGED <<glinelist, saved, toHub, now>>

\* Somebody sets a ban, takes it back, sets it again or destroys it; services of other servers set
\* and remove bans.
HubSets(m) ==
  \/ /\ hub[m] = NULL
     /\ \E d \in Durations, t \in Later(m) \cup (IF Ulined THEN {0} ELSE {}) :
          LET g == [active |-> TRUE, expire |-> now + d, lastmod |-> t] IN HubSays(m, g, Told(m, g))
  \/ /\ hub[m] # NULL /\ ~hub[m].active
     /\ \E t \in Later(m) :
          LET g == [hub[m] EXCEPT !.active = TRUE, !.lastmod = t] IN HubSays(m, g, Told(m, g))

HubUnsets(m) ==
  /\ hub[m] # NULL /\ hub[m].lastmod # 0
  /\ \E t \in Later(m) :
       LET g == [hub[m] EXCEPT !.active = FALSE, !.lastmod = t] IN
         \/ hub[m].active /\ HubSays(m, g, Told(m, g))
         \/ HubSays(m, NULL, [Told(m, g) EXCEPT !.op = "%-"])

HubRemoves(m) ==
  /\ hub[m] # NULL /\ hub[m].lastmod = 0
  /\ HubSays(m, NULL, [Told(m, hub[m]) EXCEPT !.op = "remove"])

HubHears ==
  /\ toHub # <<>>
  /\ LET line == Head(toHub)
         g == hub[line.mask]
     IN IF g = NULL
        THEN /\ hub' = [hub EXCEPT ![line.mask] =
                          [active |-> line.op = "+", expire |-> now + line.duration, lastmod |-> line.lastmod]]
             /\ UNCHANGED toUs
        ELSE /\ hub' = IF line.lastmod > g.lastmod
                       THEN [hub EXCEPT ![line.mask].active = line.op = "+", ![line.mask].lastmod = line.lastmod] ELSE hub
             /\ toUs' = IF line.lastmod < g.lastmod THEN Append(toUs, Told(line.mask, g)) ELSE toUs
  /\ toHub' = Tail(toHub)
  /\ UNCHANGED <<glinelist, saved, now>>

\* Lines take no time. The hub forgets what has expired.
Tick ==
  /\ toUs = <<>> /\ toHub = <<>> /\ now < MaxTime
  /\ now' = now + 1
  /\ hub' = [m \in Masks |-> IF hub[m] # NULL /\ hub[m].expire <= now' THEN NULL ELSE hub[m]]
  /\ UNCHANGED <<glinelist, saved, toUs, toHub>>

\* The link is lost, with the lines of the hub that were on their way, and comes back with a burst;
\* or newserv itself was gone and has loaded its file. A ban that is removed meanwhile stays with us
\* for its lifetime, as nobody tells us: there is none. (If it was U-lined, gline_deactivate() would
\* even refuse to take back the one that came after it.)
Remembered(g) ==
  LET known == hub[g.mask] IN
    /\ g.lastmod # 0
    /\ known # NULL
    /\ known.expire = g.expire /\ known.lastmod >= g.lastmod

Away(list) ==
  /\ toHub = <<>>
  /\ \A i \in DOMAIN list : list[i].lifetime > now => Remembered(list[i])
  /\ glinelist' = list
  /\ \E f \in Orders : toUs' = Burst(f)
  /\ UNCHANGED <<saved, hub, toHub, now>>

LinkLost == Away(glinelist)
Restart == Away(glstore_load(saved))

Next ==
  \/ \E m \in Masks :
       \/ \E d \in Durations : glines_cmdgline(m, d) \/ glinebynick(m, d)
       \/ \E asks \in BOOLEAN : Unset(m, asks)
       \/ HubSets(m) \/ HubUnsets(m) \/ HubRemoves(m)
  \/ handleglinemsg \/ HubHears
  \/ glstore_save \/ LinkLost \/ Restart
  \/ Tick

Spec == Init /\ [][Next]_vars

-----------------------------------------------------------------------------
Banned(g) == g.active /\ g.expire > now

\* handleglinemsg(), gline_activate(), gline_deactivate(), glstore_load(): when nothing is on its
\* way, newserv and the hub agree on who is banned, whichever of them changed it, whatever their
\* clocks and the file say.
Agree ==
  toUs = <<>> /\ toHub = <<>> =>
    \A m \in Masks :
      LET i == At(glinelist, m) IN
        /\ Cardinality({j \in DOMAIN glinelist : glinelist[j].mask = m}) <= 1
        /\ hub[m] # NULL => Banned(hub[m]) = (i # 0 /\ Banned(glinelist[i]))
        /\ hub[m] = NULL => i = 0 \/ ~Banned(glinelist[i])

\* handleglinemsg(): the later change is authoritative. When nothing is on its way, what newserv and
\* the hub hold for the same last change is the same.
SameChange ==
  toUs = <<>> /\ toHub = <<>> =>
    \A i \in DOMAIN glinelist :
      LET g == glinelist[i] IN
        hub[g.mask] # NULL /\ hub[g.mask].lastmod = g.lastmod => Banned(hub[g.mask]) = Banned(g)
=============================================================================
