---------------------------- MODULE ChanUserHash ----------------------------
(***************************************************************************)
(* The hash of a channel's users, channel/chanuserhash.c, as channel.c     *)
(* uses it. A word of the table is a numeric with its op flag, or nouser.  *)
(* A numeric is looked for at CUHASH_DEPTH places, given by double         *)
(* hashing; when all of them are taken, the table is rehashed to a larger  *)
(* size. Places become free in any order; a search passes them by.         *)
(*                                                                         *)
(* delnickfromchannel() keeps the address of the word over a hook.         *)
(***************************************************************************)
EXTENDS Integers, FiniteSets, FiniteSetsExt

CONSTANTS
  Numerics,       \* a set of naturals
  CUHASH_DEPTH,
  nouser,
  MaxGrowth,      \* bound: rehashes for one user, and further sizes tried by one rehash
  JoinInHook      \* whether callbacks of HOOK_CHANNEL_LOSTNICK let somebody join

VARIABLES
  content,     \* places 0 .. hashsize-1 to words
  totalusers,
  lp,          \* what delnickfromchannel() holds: the user who leaves, the place of its word, and
               \* whether the table that is in has been freed; nouser when no user is leaving
  members      \* history: the users that joined and did not leave, with their op flag

vars == <<content, totalusers, lp, members>>

HashAssumption ==
  /\ Numerics \subseteq Nat /\ CUHASH_DEPTH \in Nat \ {0} /\ MaxGrowth \in Nat
  /\ \A n \in Numerics, op \in BOOLEAN : nouser # [numeric |-> n, op |-> op]

Sized(n) == [i \in 0 .. n - 1 |-> nouser]
hashsize(t) == Cardinality(DOMAIN t)
Word(n, op) == [numeric |-> n, op |-> op]

\* The i-th place at which a numeric may be in a table of size s.
Place(n, s, i) ==
  LET hash2 == (n \div s) % s IN
  ((n % s) + i * (IF hash2 = 0 THEN 1 ELSE hash2)) % s

Depths == 0 .. CUHASH_DEPTH - 1

\* MUTANT: the search stops at the first place that is free.
Bug_Found(t, n) ==
  LET s == hashsize(t)
      Free == {i \in Depths : t[Place(n, s, i)] = nouser}
      Hits == {i \in Depths : t[Place(n, s, i)] # nouser /\ t[Place(n, s, i)].numeric = n} IN
  {Place(n, s, i) : i \in {j \in Hits : \A k \in Free : j < k}}

\* getnumerichandlefromchanhash(): the place of the numeric, in a set that is empty if it has none.
Found(t, n) ==
  LET s == hashsize(t) IN
  {Place(n, s, i) : i \in {j \in Depths : t[Place(n, s, j)] # nouser /\ t[Place(n, s, j)].numeric = n}}

FreeAt(t, n) == {i \in Depths : t[Place(n, hashsize(t), i)] = nouser}

\* addnumerictochanuserhash(): the first free place takes the word; without one nothing changes.
Fits(t, w) == FreeAt(t, w.numeric) # {}
Added(t, w) ==
  IF Fits(t, w) THEN [t EXCEPT ![Place(w.numeric, hashsize(t), Min(FreeAt(t, w.numeric)))] = w] ELSE t

Used(t) == Cardinality({j \in DOMAIN t : t[j] # nouser})

\* rehashchannel(): the next size.
NewSize(s, used) ==
  IF used * 16 < s * 10 THEN s + 1
  ELSE LET n == (s * 3) \div 2
           odd == IF n % 2 = 0 THEN n + 1 ELSE n IN
       IF odd <= s THEN odd + 1 ELSE odd

\* What is in a table of size s when the first k places of t have been copied to it.
Copies(t, s) ==
  LET copy[k \in 0 .. hashsize(t)] ==
        IF k = 0 THEN Sized(s)
        ELSE IF t[k - 1] = nouser THEN copy[k - 1] ELSE Added(copy[k - 1], t[k - 1])
  IN copy

Crams(t, copy) == \A j \in DOMAIN t : t[j] # nouser => Fits(copy[j], t[j])

\* rehashchannel(): the copy of the first size that all words fit in; the set is empty if MaxGrowth
\* more sizes do not do.
rehashchannel(t) ==
  LET first == NewSize(hashsize(t), Used(t))
      Fitting == {k \in 0 .. MaxGrowth : Crams(t, Copies(t, first + 2 * k))} IN
  {Copies(t, first + 2 * k)[hashsize(t)] : k \in {i \in Fitting : \A j \in Fitting : i <= j}}

\* The loop of addnicktochannel(): rehash until the word fits.
Grown(t, w) ==
  LET after[k \in 0 .. MaxGrowth] ==
        IF k = 0 THEN {t}
        ELSE UNION {IF Fits(u, w) THEN {u} ELSE rehashchannel(u) : u \in after[k - 1]}
  IN {u \in after[MaxGrowth] : Fits(u, w)}

-----------------------------------------------------------------------------
\* createchannel()
Init ==
  /\ content = Sized(1)
  /\ totalusers = 0
  /\ lp = nouser
  /\ members = {}

addnicktochannel(n) ==
  /\ lp # nouser => JoinInHook
  /\ Found(content, n) = {}
  /\ \E t \in Grown(content, Word(n, FALSE)) :
       /\ content' = Added(t, Word(n, FALSE))
       /\ lp' = IF lp # nouser /\ hashsize(t) # hashsize(content) THEN [lp EXCEPT !.freed = TRUE] ELSE lp
  /\ totalusers' = totalusers + 1
  /\ members' = members \cup {Word(n, FALSE)}

\* delnickfromchannel() up to HOOK_CHANNEL_LOSTNICK. A user who is not found stays.
delnickfromchannel(w) ==
  /\ lp = nouser
  /\ w \in members
  /\ \E j \in Found(content, w.numeric) : lp' = [numeric |-> w.numeric, place |-> j, freed |-> FALSE]
  /\ UNCHANGED <<content, totalusers, members>>

\* After the hook. Memory that was freed is written to in vain.
AfterLostNick ==
  /\ lp # nouser
  /\ content' = IF lp.freed THEN content ELSE [content EXCEPT ![lp.place] = nouser]
  /\ totalusers' = totalusers - 1
  /\ members' = {w \in members : w.numeric # lp.numeric}
  /\ lp' = nouser

\* A MODE line or a local mode change: *lp |= CUMODE_OP, *lp &= ~CUMODE_OP.
SetOp(w) ==
  /\ w \in members
  /\ \E j \in Found(content, w.numeric) : content' = [content EXCEPT ![j].op = ~@]
  /\ members' = (members \ {w}) \cup {Word(w.numeric, ~w.op)}
  /\ UNCHANGED <<totalusers, lp>>

Next ==
  \/ \E n \in Numerics : addnicktochannel(n)
  \/ \E w \in members : delnickfromchannel(w) \/ SetOp(w)
  \/ AfterLostNick

Spec == Init /\ [][Next]_vars

-----------------------------------------------------------------------------
\* addnumerictochanuserhash(), rehashchannel(), getnumerichandlefromchanhash(): whatever came and went,
\* and however often the table grew, every user on the channel is found, once, with the right flag, and
\* nobody else is; totalusers, by which the channel is freed, is their number.
HashExact ==
  /\ {content[j] : j \in DOMAIN content} \ {nouser} = members
  /\ \A n \in Numerics :
       {content[j] : j \in Found(content, n)} = {w \in members : w.numeric = n}
  /\ totalusers = Cardinality(members)
=============================================================================
