--------------------------- MODULE MembershipProofs --------------------------
(***************************************************************************)
(* Proofs about Membership, for any network, any memory and any depth of   *)
(* hooks, provided that callbacks kick and kill only in the hooks that     *)
(* they do in the code (see HooksAssumption).                              *)
(*                                                                         *)
(* A kick is carried out when all hooks but the outermost one are done,    *)
(* which is one of those that are run when somebody joins.  So the only    *)
(* handler that can lose its channel is the outermost one, and it can do   *)
(* so only where it does not look at the channel afterwards: in its last   *)
(* hook, or in the one after which it looks at the index.  In the others   *)
(* one of our services is on the channel and stays there.                  *)
(***************************************************************************)
EXTENDS Membership, FiniteSetTheorems, TLAPS

JoinPcs == {"newnick", "newchannel", "join"}
BurstPcs == {"adding", "newnick", "newchannel", "burst", "lostchannel"}
PartPcs == {"part", "kick", "del", "lostnick", "lostchannel", "deleted"}
AddOps == {"join", "localjoin", "localcreate"}
DelOps == {"part", "kick", "localkick", "quitdel"}
LeavePcs == {"part", "kick", "del", "lostnick"}

\* The hooks whose callbacks kick, kill and join in the code.
HooksAssumption ==
  /\ KickHooks \subseteq JoinPcs
  /\ KillHooks \subseteq {"join"}
  /\ JoinHooks \subseteq JoinPcs
  /\ ~BurstKicks

\* The places in its code a handler comes to, and what it has by then.
FrameShape(f) ==
  /\ f.op \in AddOps => f.pc \in JoinPcs
  /\ f.op = "burst" => f.pc \in BurstPcs
  /\ f.op \in DelOps => f.pc \in PartPcs
  /\ f.op = "zero" => f.pc \in (PartPcs \ {"kick"}) \cup {"next"}
  /\ f.op = "quit" => f.pc \in {"nicklost", "gone"} /\ f.cp = NULL
  /\ f.op # "burst" => f.np \in Nicks
  /\ f.pc \notin {"next", "nicklost", "gone"} => f.cp \in Chans
  /\ f.i >= 1

\* What a handler that runs inside of another one's hook can be.
Nested(i) ==
  /\ frames[i - 1].pc \in JoinPcs \cup {"nicklost"}
  /\ \/ /\ frames[i].op = "localjoin" /\ frames[i].np \in Services
        /\ frames[i].cp = frames[1].cp /\ frames[1].pc \in JoinPcs /\ ~clearing
     \/ /\ frames[i].op \in {"localkick", "quit"} /\ frames[i].np \notin Services
        /\ i = 2 /\ clearing
     \/ /\ frames[i].op = "quitdel" /\ frames[i - 1].op = "quit"
        /\ frames[i].np = frames[i - 1].np

Waiting == clearing \/ pendingkicklist # <<>> \/ pendingkilllist # {}

StackShape ==
  /\ \A i \in DOMAIN frames : FrameShape(frames[i])
  /\ \A i \in DOMAIN frames : i > 1 => Nested(i)
  /\ frames # <<>> => frames[1].op # "quitdel"
  /\ Waiting => frames # <<>> /\ frames[1].pc \in JoinPcs

IndexShape ==
  /\ \A cp \in Chans : cp \in allocated <=> \E n \in Names : index[n] = cp
  /\ \A n, m \in Names : index[n] = index[m] /\ index[n] # NULL => n = m
  /\ \A cp \in Chans : users[cp] # {} => cp \in allocated

\* A channel without users is about to be destroyed, or to get some.
Used ==
  \A cp \in allocated : users[cp] = {} =>
    \E i \in DOMAIN frames : frames[i].cp = cp /\ frames[i].pc \in {"lostchannel", "adding"}

\* The channel of a handler.
FrameChan(i) ==
  /\ frames[i].stale =>
       /\ i = 1 /\ frames[i].pc \in {"newchannel", "join"} /\ frames[i].op # "burst"
       /\ frames[i].cp \notin allocated
  /\ ~frames[i].stale /\ frames[i].pc \notin {"next", "nicklost", "gone", "deleted"}
       => frames[i].cp \in allocated
  /\ frames[i].pc = "lostnick" => frames[i].np \in users[frames[i].cp]
  /\ frames[i].op = "zero" /\ frames[i].pc \in {"part", "del"}
       => frames[i].np \in users[frames[i].cp]
  /\ frames[i].pc = "lostchannel" => users[frames[i].cp] = {}
  /\ frames[i].pc = "deleted" => frames[i].np \notin users[frames[i].cp]

HandlersChan == \A i \in DOMAIN frames : FrameChan(i)

\* A kick that waits is for the channel the outermost handler is about.
KickShape(k) ==
  /\ ~k.stale
  /\ k.chan # NULL =>
       /\ k.chan = frames[1].cp /\ k.chan \in allocated
       /\ \A i \in DOMAIN frames : frames[i].pc = "lostchannel" => frames[i].cp # k.chan
  /\ k.target # NULL =>
       /\ k.target \in alive \ Services
       /\ \A i \in DOMAIN frames : frames[i].pc = "gone" => frames[i].np # k.target

PendingShape ==
  /\ \A i \in DOMAIN pendingkicklist : KickShape(pendingkicklist[i])
  /\ pendingkilllist \cap Services = {}

\* Where the outermost handler will go on with the channel, a service of ours is on it if anybody
\* may be kicked.
NeedsChannel ==
  frames[1].pc = "newnick" \/ (frames[1].pc = "newchannel" /\ frames[1].op = "burst")

ServiceStays ==
  frames # <<>> /\ NeedsChannel /\ (Waiting \/ Len(frames) > 1)
    => users[frames[1].cp] \cap Services # {}

\* The two halves of a membership; one that a handler is about to end has only the second.
Ending(np, cp) ==
  \E i \in DOMAIN frames :
    /\ frames[i].np = np
    /\ \/ frames[i].cp = cp /\ frames[i].pc \in {"lostchannel", "deleted"} /\ frames[i].op # "burst"
       \/ frames[i].op \in {"zero", "quit"}

Listed(np, cp) == \E j \in DOMAIN channels[np] : channels[np][j] = cp

Mirrored ==
  \A np \in Nicks, cp \in Chans :
    /\ np \in users[cp] => Listed(np, cp)
    /\ Listed(np, cp) /\ ~Ending(np, cp) => np \in users[cp]

\* Of a nick that is leaving all its channels: those that the walk of its array has come to are
\* the ones it has left, but for the one it is leaving.
Walked(i) ==
  frames[i].op \in {"zero", "quit"} =>
    /\ frames[i].pc = "gone" => channels[frames[i].np] = <<>>
    /\ \A j \in DOMAIN channels[frames[i].np] :
         /\ j >= frames[i].i => frames[i].np \in users[channels[frames[i].np][j]]
         /\ j < frames[i].i /\ frames[i].np \in users[channels[frames[i].np][j]]
              => /\ j = frames[i].i - 1
                 /\ Top.np = frames[i].np /\ Top.cp = channels[frames[i].np][j]
                 /\ Top.pc \in LeavePcs
    /\ Top.np = frames[i].np /\ Top.pc \in LeavePcs
         => \E j \in DOMAIN channels[frames[i].np] :
              j < frames[i].i /\ channels[frames[i].np][j] = Top.cp

Walks == \A i \in DOMAIN frames : Walked(i)

UsersAlive == \A cp \in Chans : users[cp] \subseteq alive

MembershipInv ==
  /\ TypeOK /\ StackShape /\ IndexShape /\ Used /\ HandlersChan /\ PendingShape
  /\ ServiceStays /\ Mirrored /\ Walks /\ UsersAlive

-----------------------------------------------------------------------------
(* Sequences. *)

LEMMA SeqFacts ==
  ASSUME NEW S, NEW m \in Nat, NEW t, t = [i \in 1 .. m |-> t[i]], \A i \in 1 .. m : t[i] \in S
  PROVE  t \in Seq(S) /\ Len(t) = m
  OBVIOUS

LEMMA AppendFacts ==
  ASSUME NEW S, NEW s \in Seq(S), NEW x \in S
  PROVE  /\ Append(s, x) \in Seq(S)
         /\ Len(Append(s, x)) = Len(s) + 1
         /\ DOMAIN Append(s, x) = 1 .. Len(s) + 1
         /\ \A i \in 1 .. Len(s) : Append(s, x)[i] = s[i]
         /\ Append(s, x)[Len(s) + 1] = x
  OBVIOUS

LEMMA FrontFacts ==
  ASSUME NEW S, NEW s \in Seq(S), s # <<>>
  PROVE  /\ Front(s) \in Seq(S)
         /\ Len(Front(s)) = Len(s) - 1
         /\ DOMAIN Front(s) = 1 .. Len(s) - 1
         /\ \A i \in 1 .. Len(s) - 1 : Front(s)[i] = s[i]
         /\ Last(s) = s[Len(s)]
         /\ Last(s) \in S
         /\ Len(s) \in Nat \ {0}
<1>1. Len(s) \in Nat \ {0} /\ DOMAIN s = 1 .. Len(s)
  OBVIOUS
<1>2. Len(s) - 1 \in Nat
  BY <1>1
<1>3. \A i \in 1 .. Len(s) : s[i] \in S
  BY <1>1
<1>4. Front(s) = [i \in 1 .. Len(s) - 1 |-> s[i]]
  BY <1>1, <1>2 DEF Front
<1>5. Front(s) \in Seq(S) /\ Len(Front(s)) = Len(s) - 1
  BY <1>1, <1>2, <1>3, <1>4
<1> QED BY <1>1, <1>3, <1>4, <1>5 DEF Last

LEMMA ReplaceFacts ==
  ASSUME NEW S, NEW s \in Seq(S), s # <<>>, NEW x \in S
  PROVE  /\ Front(s) \o <<x>> \in Seq(S)
         /\ Len(Front(s) \o <<x>>) = Len(s)
         /\ DOMAIN (Front(s) \o <<x>>) = 1 .. Len(s)
         /\ \A i \in 1 .. Len(s) - 1 : (Front(s) \o <<x>>)[i] = s[i]
         /\ (Front(s) \o <<x>>)[Len(s)] = x
<1>1. /\ Front(s) \in Seq(S) /\ Len(Front(s)) = Len(s) - 1
      /\ \A i \in 1 .. Len(s) - 1 : Front(s)[i] = s[i]
      /\ Len(s) \in Nat \ {0}
  BY FrontFacts
<1> DEFINE t == Front(s)
<1>2. /\ t \o <<x>> \in Seq(S) /\ Len(t \o <<x>>) = Len(t) + 1
      /\ \A i \in 1 .. Len(t) : (t \o <<x>>)[i] = t[i]
      /\ (t \o <<x>>)[Len(t) + 1] = x
  <2> HIDE DEF t
  <2>1. t \in Seq(S)
    BY <1>1 DEF t
  <2> QED BY <2>1
<1> QED BY <1>1, <1>2

\* The last element replaced, and another appended.
LEMMA SpliceFacts ==
  ASSUME NEW S, NEW s \in Seq(S), s # <<>>, NEW x \in S, NEW y \in S
  PROVE  /\ Front(s) \o <<x, y>> \in Seq(S)
         /\ Len(Front(s) \o <<x, y>>) = Len(s) + 1
         /\ DOMAIN (Front(s) \o <<x, y>>) = 1 .. Len(s) + 1
         /\ \A i \in 1 .. Len(s) - 1 : (Front(s) \o <<x, y>>)[i] = s[i]
         /\ (Front(s) \o <<x, y>>)[Len(s)] = x
         /\ (Front(s) \o <<x, y>>)[Len(s) + 1] = y
<1> DEFINE r == Front(s)
           u == r \o <<x>>
           t == r \o <<x, y>>
<1>1. /\ u \in Seq(S) /\ Len(u) = Len(s)
      /\ \A i \in 1 .. Len(s) - 1 : u[i] = s[i]
      /\ u[Len(s)] = x
  BY ReplaceFacts
<1>2. r \in Seq(S) /\ Len(s) \in Nat \ {0}
  BY FrontFacts
<1>3. t = Append(u, y)
  <2> HIDE DEF r
  <2> QED BY <1>2
<1> HIDE DEF u, t
<1>4. /\ t \in Seq(S) /\ Len(t) = Len(s) + 1 /\ DOMAIN t = 1 .. Len(s) + 1
      /\ \A i \in 1 .. Len(s) : t[i] = u[i]
      /\ t[Len(s) + 1] = y
  BY <1>1, <1>3, AppendFacts
<1>5. \A i \in 1 .. Len(s) - 1 : i \in 1 .. Len(s)
  BY <1>2
<1>6. Len(s) \in 1 .. Len(s)
  BY <1>2
<1>7. t = Front(s) \o <<x, y>>
  BY DEF t
<1> QED BY <1>1, <1>4, <1>5, <1>6, <1>7

LEMMA TailFacts ==
  ASSUME NEW S, NEW s \in Seq(S), s # <<>>
  PROVE  /\ Tail(s) \in Seq(S)
         /\ \A i \in DOMAIN Tail(s) : i + 1 \in DOMAIN s /\ Tail(s)[i] = s[i + 1]
         /\ 1 \in DOMAIN s /\ Head(s) = s[1] /\ Head(s) \in S
  OBVIOUS

LEMMA PrependFacts ==
  ASSUME NEW S, NEW s \in Seq(S), NEW x \in S
  PROVE  /\ <<x>> \o s \in Seq(S)
         /\ \A i \in DOMAIN (<<x>> \o s) :
              IF i = 1 THEN (<<x>> \o s)[i] = x
              ELSE i - 1 \in DOMAIN s /\ (<<x>> \o s)[i] = s[i - 1]
  OBVIOUS


-----------------------------------------------------------------------------
(* The frames. *)

\* The inner handler.
LEMMA TopFacts ==
  ASSUME frames \in Seq(Frame), frames # <<>>
  PROVE  /\ Len(frames) \in Nat \ {0} /\ DOMAIN frames = 1 .. Len(frames)
         /\ Top = frames[Len(frames)]
         /\ \A i \in 1 .. Len(frames) : frames[i] \in Frame
         /\ 1 \in 1 .. Len(frames) /\ Len(frames) \in 1 .. Len(frames)
  BY DEF Top, Last

LEMMA PushFacts ==
  ASSUME frames \in Seq(Frame), NEW f \in Frame, Push(f)
  PROVE  /\ frames' \in Seq(Frame) /\ frames' # <<>>
         /\ Len(frames) \in Nat /\ DOMAIN frames = 1 .. Len(frames)
         /\ Len(frames') = Len(frames) + 1 /\ DOMAIN frames' = 1 .. Len(frames) + 1
         /\ \A i \in 1 .. Len(frames) : frames'[i] = frames[i]
         /\ frames'[Len(frames) + 1] = f /\ Top' = f
<1>1. frames' = Append(frames, f)
  BY DEF Push
<1>2. /\ frames' \in Seq(Frame)
      /\ Len(frames') = Len(frames) + 1 /\ DOMAIN frames' = 1 .. Len(frames) + 1
      /\ \A i \in 1 .. Len(frames) : frames'[i] = frames[i]
      /\ frames'[Len(frames) + 1] = f
  BY <1>1, AppendFacts
<1>3. Len(frames) \in Nat /\ DOMAIN frames = 1 .. Len(frames)
  OBVIOUS
<1> QED BY <1>2, <1>3 DEF Top, Last

LEMMA GotoFacts ==
  ASSUME frames \in Seq(Frame), frames # <<>>, NEW pc \in Pcs, Goto(pc)
  PROVE  /\ frames' \in Seq(Frame) /\ frames' # <<>>
         /\ Len(frames') = Len(frames) /\ DOMAIN frames' = 1 .. Len(frames)
         /\ \A i \in 1 .. Len(frames) - 1 : frames'[i] = frames[i]
         /\ \A i \in 1 .. Len(frames) :
              /\ frames'[i].op = frames[i].op /\ frames'[i].np = frames[i].np
              /\ frames'[i].cp = frames[i].cp /\ frames'[i].new = frames[i].new
              /\ frames'[i].i = frames[i].i /\ frames'[i].stale = frames[i].stale
         /\ frames'[Len(frames)].pc = pc
         /\ Top' = frames'[Len(frames)]
<1> DEFINE n == Len(frames)
           f == [Top EXCEPT !.pc = pc]
<1>1. /\ n \in Nat \ {0} /\ DOMAIN frames = 1 .. n /\ Top = frames[n]
      /\ frames[n] \in Frame
  BY TopFacts
<1>2. /\ f \in Frame /\ f.pc = pc /\ f.op = frames[n].op /\ f.np = frames[n].np
      /\ f.cp = frames[n].cp /\ f.new = frames[n].new /\ f.i = frames[n].i
      /\ f.stale = frames[n].stale
  BY <1>1 DEF Frame
<1>3. frames' = Front(frames) \o <<f>>
  BY DEF Goto
<1> HIDE DEF f
<1>4. /\ frames' \in Seq(Frame) /\ Len(frames') = n /\ DOMAIN frames' = 1 .. n
      /\ \A i \in 1 .. n - 1 : frames'[i] = frames[i]
      /\ frames'[n] = f
  BY <1>2, <1>3, ReplaceFacts
<1>5. frames' # <<>> /\ Top' = frames'[n]
  BY <1>1, <1>4 DEF Top, Last
<1>6. ASSUME NEW i \in 1 .. n
      PROVE  /\ frames'[i].op = frames[i].op /\ frames'[i].np = frames[i].np
             /\ frames'[i].cp = frames[i].cp /\ frames'[i].new = frames[i].new
             /\ frames'[i].i = frames[i].i /\ frames'[i].stale = frames[i].stale
  <2>1. CASE i = n
    BY <1>2, <1>4, <2>1
  <2>2. CASE i \in 1 .. n - 1
    BY <1>4, <2>2
  <2>3. n \in Nat \ {0}
    BY <1>1
  <2>4. i = n \/ i \in 1 .. n - 1
    BY <2>3
  <2> QED BY <2>1, <2>2, <2>4
<1> QED BY <1>2, <1>4, <1>5, <1>6

LEMMA PopFacts ==
  ASSUME frames \in Seq(Frame), frames # <<>>, Pop
  PROVE  /\ frames' \in Seq(Frame)
         /\ Len(frames') = Len(frames) - 1 /\ DOMAIN frames' = 1 .. Len(frames) - 1
         /\ \A i \in 1 .. Len(frames) - 1 : frames'[i] = frames[i]
         /\ Len(frames) > 1 => frames' # <<>> /\ Top' = frames[Len(frames) - 1]
         /\ Len(frames) = 1 => frames' = <<>>
<1>1. /\ frames' \in Seq(Frame)
      /\ Len(frames') = Len(frames) - 1 /\ DOMAIN frames' = 1 .. Len(frames) - 1
      /\ \A i \in 1 .. Len(frames) - 1 : frames'[i] = frames[i]
      /\ Len(frames) \in Nat \ {0}
  BY FrontFacts DEF Pop
<1>2. Len(frames) = 1 => frames' = <<>>
  BY <1>1
<1>3. Len(frames) > 1 => frames' # <<>> /\ Top' = frames[Len(frames) - 1]
  BY <1>1 DEF Top, Last
<1> QED BY <1>1, <1>2, <1>3

\* hookqueuelength counts the frames that are in a hook.
LEMMA QueueLength ==
  ASSUME frames \in Seq(Frame)
  PROVE  /\ hookqueuelength = 0 => \A i \in DOMAIN frames : frames[i].pc \notin HookPcs
         /\ hookqueuelength = 1 => \A i, j \in DOMAIN frames :
              frames[i].pc \in HookPcs /\ frames[j].pc \in HookPcs => i = j
         /\ Len(frames) = 1 /\ frames[1].pc \in HookPcs => hookqueuelength = 1
<1> DEFINE S == {i \in DOMAIN frames : frames[i].pc \in HookPcs}
<1>1. DOMAIN frames = 1 .. Len(frames) /\ Len(frames) \in Nat
  OBVIOUS
<1>2. IsFiniteSet(1 .. Len(frames))
  BY <1>1, FS_Interval
<1>3. IsFiniteSet(S)
  <2>1. S \in SUBSET (1 .. Len(frames))
    BY <1>1
  <2> QED BY <1>2, <2>1, FS_Subset
<1>4. hookqueuelength = Cardinality(S)
  BY DEF hookqueuelength
<1>5. Cardinality(S) = 0 => S = {}
  BY <1>3, FS_EmptySet
<1>6. Cardinality(S) = 1 <=> \E x : S = {x}
  BY <1>3, FS_Singleton
<1>7. ASSUME Len(frames) = 1, frames[1].pc \in HookPcs
      PROVE  S = {1}
  BY <1>1, <1>7
<1> QED BY <1>4, <1>5, <1>6, <1>7, SMTT(20)

-----------------------------------------------------------------------------
(* The handlers whose hook is running. *)

\* Below the inner handler, every one is in a hook of a join, or a nick is leaving.
LEMMA BelowTop ==
  ASSUME TypeOK, StackShape, frames # <<>>
  PROVE  /\ \A i \in 1 .. Len(frames) - 1 :
              frames[i].pc \in JoinPcs \cup {"nicklost"} /\ frames[i].pc \in HookPcs
         /\ Len(frames) > 1 => frames[1].pc \in HookPcs
<1>1. Len(frames) \in Nat \ {0} /\ DOMAIN frames = 1 .. Len(frames)
  BY TopFacts DEF TypeOK
<1>2. ASSUME NEW i \in 1 .. Len(frames) - 1
      PROVE  frames[i].pc \in JoinPcs \cup {"nicklost"}
  <2>1. i + 1 \in DOMAIN frames /\ i + 1 > 1 /\ (i + 1) - 1 = i
    BY <1>1
  <2> QED BY <2>1 DEF StackShape, Nested
<1>3. \A i \in 1 .. Len(frames) - 1 : frames[i].pc \in HookPcs
  BY <1>2 DEF JoinPcs, HookPcs
<1> QED BY <1>1, <1>2, <1>3

\* When a hook is done and another handler waits for none, nothing waits.
LEMMA HookDoneFacts ==
  ASSUME TypeOK, StackShape, NEW pc, HookDone(pc)
  PROVE  /\ frames # <<>> /\ Top.pc = pc /\ UNCHANGED clearing
         /\ frames[Len(frames)].pc = pc
         /\ Len(frames) = 1 => ~Waiting
<1>1. frames # <<>> /\ Top.pc = pc /\ UNCHANGED clearing /\ Top.pc \in HookPcs
  BY DEF HookDone, InHook, Idle
<1>2. Top = frames[Len(frames)] /\ frames \in Seq(Frame)
  BY <1>1, TopFacts DEF TypeOK
<1>3. ASSUME Len(frames) = 1
      PROVE  ~Waiting
  <2>1. hookqueuelength = 1
    BY <1>1, <1>2, <1>3, QueueLength
  <2> QED BY <2>1, <1>3 DEF HookDone, InHook, Waiting
<1> QED BY <1>1, <1>2, <1>3

-----------------------------------------------------------------------------
(* The two tables. *)

Tables ==
  /\ alive \subseteq Nicks
  /\ channels \in [Nicks -> Seq(Chans)]
  /\ \A np \in Nicks : IsInjective(channels[np])
  /\ index \in [Names -> Chans \cup {NULL}]
  /\ users \in [Chans -> SUBSET Nicks]
  /\ allocated \subseteq Chans

LEMMA AddFacts ==
  ASSUME Tables, NEW np \in Nicks, NEW cp \in Chans, ~Listed(np, cp), Add(cp, np)
  PROVE  /\ channels' \in [Nicks -> Seq(Chans)]
         /\ \A x \in Nicks : IsInjective(channels'[x])
         /\ users' \in [Chans -> SUBSET Nicks]
         /\ \A x \in Nicks, c \in Chans : Listed(x, c)' <=> Listed(x, c) \/ (x = np /\ c = cp)
         /\ \A x \in Nicks, c \in Chans : x \in users'[c] <=> x \in users[c] \/ (x = np /\ c = cp)
         /\ \A x \in Nicks \ {np} : channels'[x] = channels[x]
         /\ \A j \in DOMAIN channels[np] :
              j \in DOMAIN channels'[np] /\ channels'[np][j] = channels[np][j]
<1> DEFINE a == channels[np]
           b == Append(a, cp)
<1>1. /\ channels \in [Nicks -> Seq(Chans)] /\ users \in [Chans -> SUBSET Nicks]
      /\ a \in Seq(Chans)
  BY DEF Tables
<1>2. /\ b \in Seq(Chans) /\ Len(b) = Len(a) + 1
      /\ DOMAIN b = 1 .. Len(a) + 1
      /\ \A j \in 1 .. Len(a) : b[j] = a[j]
      /\ b[Len(a) + 1] = cp
      /\ Len(a) \in Nat /\ DOMAIN a = 1 .. Len(a)
  <2> HIDE DEF a
  <2>1. a \in Seq(Chans)
    BY <1>1
  <2> QED BY <2>1, AppendFacts
<1>3. channels' = [channels EXCEPT ![np] = b]
  BY DEF Add
<1>4. users' = [users EXCEPT ![cp] = users[cp] \cup {np}]
  BY DEF Add
<1>5. channels' \in [Nicks -> Seq(Chans)] /\ channels'[np] = b
      /\ \A x \in Nicks \ {np} : channels'[x] = channels[x]
  <2> HIDE DEF b
  <2> QED BY <1>1, <1>2, <1>3
<1>6. /\ users' \in [Chans -> SUBSET Nicks]
      /\ \A x \in Nicks, c \in Chans : x \in users'[c] <=> x \in users[c] \/ (x = np /\ c = cp)
  BY <1>1, <1>4
<1>7. \A j \in 1 .. Len(a) : a[j] # cp
  BY <1>2 DEF Listed
<1>8. IsInjective(a)
  BY DEF Tables
<1> HIDE DEF b
<1>9. IsInjective(b)
  <2> SUFFICES ASSUME NEW i \in 1 .. Len(a) + 1, NEW j \in 1 .. Len(a) + 1, b[i] = b[j]
               PROVE  i = j
    BY <1>2 DEF IsInjective
  <2>1. CASE i \in 1 .. Len(a) /\ j \in 1 .. Len(a)
    <3>1. i \in DOMAIN a /\ j \in DOMAIN a /\ a[i] = a[j]
      BY <1>2, <2>1
    <3> HIDE DEF a
    <3> QED BY <1>8, <3>1 DEF IsInjective
  <2>2. CASE i = Len(a) + 1 \/ j = Len(a) + 1
    <3>1. b[i] = cp /\ b[j] = cp
      BY <1>2, <2>2
    <3> HIDE DEF a
    <3> QED BY <1>2, <1>7, <3>1
  <2> QED BY <1>2, <2>1, <2>2
<1>10. \A x \in Nicks : IsInjective(channels'[x])
  BY <1>5, <1>9 DEF Tables
<1>11. ASSUME NEW x \in Nicks, NEW c \in Chans
       PROVE  Listed(x, c)' <=> Listed(x, c) \/ (x = np /\ c = cp)
  <2>1. CASE x # np
    BY <1>5, <2>1 DEF Listed
  <2>2. CASE x = np
    <3>1. Listed(x, c)' <=> \E j \in 1 .. Len(a) + 1 : b[j] = c
      BY <1>2, <1>5, <2>2 DEF Listed
    <3>2. Listed(x, c) <=> \E j \in 1 .. Len(a) : a[j] = c
      BY <1>2, <2>2 DEF Listed
    <3> HIDE DEF a
    <3>3. ASSUME NEW j \in 1 .. Len(a) + 1, b[j] = c
          PROVE  c = cp \/ \E m \in 1 .. Len(a) : a[m] = c
      <4>1. j = Len(a) + 1 \/ j \in 1 .. Len(a)
        BY <1>2
      <4> QED BY <1>2, <3>3, <4>1
    <3>4. Len(a) + 1 \in 1 .. Len(a) + 1 /\ \A m \in 1 .. Len(a) : m \in 1 .. Len(a) + 1
      BY <1>2
    <3>5. ASSUME NEW m \in 1 .. Len(a), a[m] = c
          PROVE  \E j \in 1 .. Len(a) + 1 : b[j] = c
      BY <1>2, <3>4, <3>5
    <3>6. c = cp => \E j \in 1 .. Len(a) + 1 : b[j] = c
      BY <1>2, <3>4
    <3> QED BY <2>2, <3>1, <3>2, <3>3, <3>5, <3>6
  <2> QED BY <2>1, <2>2
<1>12. \A j \in DOMAIN a : j \in DOMAIN channels'[np] /\ channels'[np][j] = a[j]
  BY <1>2, <1>5
<1> QED BY <1>5, <1>6, <1>10, <1>11, <1>12

LEMMA FindFacts ==
  ASSUME MembershipAssumption, Tables, IndexShape, NEW n \in Names, NEW cp \in Chans,
         FindOrCreate(n, cp)
  PROVE  /\ index' \in [Names -> Chans \cup {NULL}]
         /\ allocated' = allocated \cup {cp}
         /\ \A c \in Chans : c \in allocated' <=> \E m \in Names : index'[m] = c
         /\ \A k, m \in Names : index'[k] = index'[m] /\ index'[k] # NULL => k = m
         /\ users[cp] # {} => index[n] # NULL
<1>1. CASE index[n] # NULL
  <2>1. cp = index[n] /\ UNCHANGED <<index, allocated>>
    BY <1>1 DEF FindOrCreate
  <2>2. cp \in allocated
    BY <2>1 DEF IndexShape
  <2> QED BY <1>1, <2>1, <2>2 DEF Tables, IndexShape
<1>2. CASE index[n] = NULL
  <2>1. /\ cp \in Chans \ allocated
        /\ index' = [index EXCEPT ![n] = cp] /\ allocated' = allocated \cup {cp}
    BY <1>2 DEF FindOrCreate
  <2>2. index \in [Names -> Chans \cup {NULL}] /\ NULL \notin Chans
    BY DEF Tables, MembershipAssumption
  <2>3. /\ index' \in [Names -> Chans \cup {NULL}]
        /\ \A m \in Names : index'[m] = IF m = n THEN cp ELSE index[m]
    BY <2>1, <2>2
  <2>4. \A m \in Names : index[m] # cp
    BY <2>1 DEF IndexShape
  <2>5. \A c \in Chans : c \in allocated' <=> \E m \in Names : index'[m] = c
    <3> SUFFICES ASSUME NEW c \in Chans
                 PROVE  c \in allocated' <=> \E m \in Names : index'[m] = c
      OBVIOUS
    <3>1. CASE c = cp
      BY <2>1, <2>3, <3>1
    <3>2. CASE c # cp
      <4>1. c \in allocated' <=> \E m \in Names : index[m] = c
        BY <2>1, <3>2 DEF IndexShape
      <4>2. index[n] # c
        BY <1>2, <2>2
      <4>3. \A m \in Names : index'[m] = c <=> index[m] = c
        BY <2>3, <3>2, <4>2
      <4> QED BY <4>1, <4>3
    <3> QED BY <3>1, <3>2
  <2>6. \A k, m \in Names : index'[k] = index'[m] /\ index'[k] # NULL => k = m
    BY <2>3, <2>4 DEF IndexShape
  <2>7. users[cp] = {}
    BY <2>1 DEF IndexShape
  <2> QED BY <2>1, <2>3, <2>5, <2>6, <2>7
<1> QED BY <1>1, <1>2

-----------------------------------------------------------------------------
(* A message, while no handler is running. *)

LEMMA IdleFacts ==
  ASSUME MembershipInv, Idle
  PROVE  /\ ~Waiting /\ DOMAIN frames = {} /\ Len(frames) = 0
         /\ \A np \in Nicks, cp \in Chans : np \in users[cp] <=> Listed(np, cp)
         /\ \A cp \in allocated : users[cp] # {}
         /\ Tables
<1>1. DOMAIN frames = {} /\ Len(frames) = 0
  BY DEF Idle
<1>2. ~Waiting
  BY DEF Idle, MembershipInv, StackShape
<1>3. \A np \in Nicks, cp \in Chans : np \in users[cp] <=> Listed(np, cp)
  BY <1>1 DEF MembershipInv, Mirrored, Ending
<1>4. \A cp \in allocated : users[cp] # {}
  BY <1>1 DEF MembershipInv, Used
<1>5. Tables
  BY DEF MembershipInv, TypeOK, Tables
<1> QED BY <1>1, <1>2, <1>3, <1>4, <1>5

\* Whatever handler is started, and whatever it has done before its first hook.
LEMMA StartInv ==
  ASSUME MembershipInv, Idle, NEW f \in Frame, Push(f),
         FrameShape(f), f.op # "quitdel", ~f.stale, f.i = 1,
         f.pc \notin {"lostnick", "lostchannel", "deleted", "gone"}, f.op = "zero" => f.pc = "next",
         UNCHANGED <<alive, pending, clearing>>,
         Tables', IndexShape',
         \A cp \in allocated' : users'[cp] = {} => f.cp = cp /\ f.pc = "adding",
         f.pc \notin {"next", "nicklost"} => f.cp \in allocated',
         \A np \in Nicks, cp \in Chans : np \in users'[cp] <=> Listed(np, cp)',
         UsersAlive'
  PROVE  MembershipInv'
<1>1. frames \in Seq(Frame) /\ ~Waiting /\ Len(frames) = 0
  BY IdleFacts DEF MembershipInv, TypeOK
<1>2. /\ frames' \in Seq(Frame) /\ frames' # <<>> /\ Len(frames') = 1 /\ DOMAIN frames' = {1}
      /\ frames'[1] = f
  BY <1>1, PushFacts
<1>3. ~Waiting'
  BY <1>1 DEF Waiting, pending
<1>4. TypeOK'
  BY <1>2 DEF MembershipInv, TypeOK, Tables, pending
<1>5. StackShape'
  BY <1>2, <1>3 DEF StackShape
<1>6. Used'
  BY <1>2 DEF Used
<1>7. HandlersChan'
  BY <1>2 DEF HandlersChan, FrameChan
<1>8. PendingShape'
  BY <1>3 DEF PendingShape, Waiting
<1>9. ServiceStays'
  BY <1>2, <1>3 DEF ServiceStays
<1>10. Mirrored'
  BY DEF Mirrored
<1>11. Walks'
  <2> SUFFICES ASSUME f.op \in {"zero", "quit"}
               PROVE  Walked(1)'
    BY <1>2 DEF Walks, Walked
  <2> DEFINE a == channels'[f.np]
  <2>1. f.np \in Nicks /\ a \in Seq(Chans)
    BY DEF FrameShape, Tables
  <2>2. \A j \in DOMAIN a, c \in Chans : c = a[j] => Listed(f.np, c)'
    BY DEF Listed
  <2>3. ASSUME NEW j \in DOMAIN a
        PROVE  j >= f.i /\ ~(j < f.i) /\ f.np \in users'[a[j]]
    <3> HIDE DEF a
    <3>1. j \in Nat \ {0} /\ a[j] \in Chans
      BY <2>1
    <3>2. f.np \in users'[a[j]]
      BY <2>1, <2>2, <3>1
    <3> QED BY <3>1, <3>2
  <2>4. Top' = f /\ f.pc \notin LeavePcs
    BY <1>2 DEF Top, Last, FrameShape, LeavePcs
  <2> QED BY <1>2, <2>3, <2>4 DEF Walked
<1> QED BY <1>4, <1>5, <1>6, <1>7, <1>8, <1>9, <1>10, <1>11 DEF MembershipInv

\* The handlers that begin by adding somebody to a channel.
LEMMA JoinStarts ==
  ASSUME MembershipInv, Idle, NEW np \in alive, NEW cp \in Chans, np \notin users[cp], Add(cp, np),
         NEW op \in AddOps, NEW new \in BOOLEAN, Push(NewFrame(op, "newnick", np, cp, new)),
         UNCHANGED <<alive, pending, clearing>>,
         index' \in [Names -> Chans \cup {NULL}], allocated' = allocated \cup {cp},
         \A c \in Chans : c \in allocated' <=> \E m \in Names : index'[m] = c,
         \A k, m \in Names : index'[k] = index'[m] /\ index'[k] # NULL => k = m
  PROVE  MembershipInv'
<1> DEFINE f == NewFrame(op, "newnick", np, cp, new)
<1>1. /\ f \in Frame /\ FrameShape(f) /\ f.op = op /\ op \notin {"quitdel", "zero"} /\ ~f.stale /\ f.i = 1
      /\ f.pc = "newnick" /\ f.cp = cp /\ np \in Nicks
  <2>1. np \in Nicks
    BY DEF MembershipInv, TypeOK
  <2> QED BY <2>1 DEF NewFrame, Frame, FrameShape, AddOps, DelOps, JoinPcs, BurstPcs, PartPcs, Ops,
                     Pcs, HookPcs
<1>2. /\ Tables /\ \A x \in Nicks, c \in Chans : x \in users[c] <=> Listed(x, c)
      /\ \A c \in allocated : users[c] # {}
  BY IdleFacts
<1>3. ~Listed(np, cp)
  BY <1>1, <1>2
<1>4. /\ channels' \in [Nicks -> Seq(Chans)]
      /\ \A x \in Nicks : IsInjective(channels'[x])
      /\ users' \in [Chans -> SUBSET Nicks]
      /\ \A x \in Nicks, c \in Chans : Listed(x, c)' <=> Listed(x, c) \/ (x = np /\ c = cp)
      /\ \A x \in Nicks, c \in Chans : x \in users'[c] <=> x \in users[c] \/ (x = np /\ c = cp)
  BY <1>1, <1>2, <1>3, AddFacts
<1>5. Tables'
  BY <1>2, <1>4 DEF Tables
<1>6. \A x \in Nicks, c \in Chans : x \in users'[c] <=> Listed(x, c)'
  BY <1>2, <1>4
<1>7. ASSUME NEW c \in Chans, users'[c] # {}
      PROVE  c \in allocated'
  <2>1. PICK x \in Nicks : x \in users'[c]
    BY <1>4, <1>7
  <2>2. x \in users[c] \/ c = cp
    BY <1>4, <2>1
  <2> QED BY <2>2 DEF MembershipInv, IndexShape
<1>8. IndexShape'
  BY <1>7 DEF IndexShape
<1>9. ASSUME NEW c \in allocated'
      PROVE  users'[c] # {}
  <2>1. c \in Chans
    BY <1>5 DEF Tables
  <2>2. CASE c = cp
    BY <1>1, <1>4, <2>2
  <2>3. CASE c # cp
    <3>1. c \in allocated /\ users[c] # {} /\ users[c] \subseteq Nicks
      BY <1>2, <2>1, <2>3 DEF Tables
    <3> QED BY <1>4, <2>1, <3>1
  <2> QED BY <2>2, <2>3
<1>10. UsersAlive'
  <2> SUFFICES ASSUME NEW c \in Chans, NEW x \in users'[c]
               PROVE  x \in alive
    BY DEF UsersAlive
  <2>1. x \in Nicks
    BY <1>4
  <2> QED BY <1>4, <2>1 DEF MembershipInv, UsersAlive
<1>11. cp \in allocated'
  OBVIOUS
<1> HIDE DEF f
<1>12. Push(f)
  BY DEF f
<1> QED BY <1>1, <1>5, <1>6, <1>8, <1>9, <1>10, <1>11, <1>12, StartInv

LEMMA handlejoinmsgInv ==
  ASSUME MembershipAssumption, MembershipInv, NEW np \in Nicks, NEW n \in Names, handlejoinmsg(np, n)
  PROVE  MembershipInv'
<1>1. PICK cp \in Chans :
        /\ FindOrCreate(n, cp) /\ np \notin users[cp] /\ Add(cp, np)
        /\ Push(NewFrame("join", "newnick", np, cp, index[n] = NULL))
  BY DEF handlejoinmsg
<1>2. Idle /\ np \in alive /\ UNCHANGED <<alive, pending, clearing>>
  BY DEF handlejoinmsg
<1>3. Tables /\ IndexShape
  BY <1>2, IdleFacts DEF MembershipInv
<1>4. /\ index' \in [Names -> Chans \cup {NULL}] /\ allocated' = allocated \cup {cp}
      /\ \A c \in Chans : c \in allocated' <=> \E m \in Names : index'[m] = c
      /\ \A k, m \in Names : index'[k] = index'[m] /\ index'[k] # NULL => k = m
  BY <1>1, <1>3, FindFacts
<1> DEFINE new == index[n] = NULL
<1>5. "join" \in AddOps /\ new \in BOOLEAN
  BY DEF AddOps
<1>6. Push(NewFrame("join", "newnick", np, cp, new))
  BY <1>1
<1> HIDE DEF new
<1> QED BY <1>1, <1>2, <1>4, <1>5, <1>6, JoinStarts

LEMMA localcreatechannelInv ==
  ASSUME MembershipAssumption, MembershipInv, NEW np \in Nicks, NEW n \in Names,
         localcreatechannel(np, n)
  PROVE  MembershipInv'
<1>1. PICK cp \in Chans :
        /\ FindOrCreate(n, cp) /\ Add(cp, np)
        /\ Push(NewFrame("localcreate", "newnick", np, cp, TRUE))
  BY DEF localcreatechannel
<1>2. Idle /\ np \in alive /\ UNCHANGED <<alive, pending, clearing>> /\ index[n] = NULL
  BY DEF localcreatechannel
<1>3. Tables /\ IndexShape
  BY <1>2, IdleFacts DEF MembershipInv
<1>4. /\ index' \in [Names -> Chans \cup {NULL}] /\ allocated' = allocated \cup {cp}
      /\ \A c \in Chans : c \in allocated' <=> \E m \in Names : index'[m] = c
      /\ \A k, m \in Names : index'[k] = index'[m] /\ index'[k] # NULL => k = m
      /\ users[cp] = {}
  BY <1>1, <1>2, <1>3, FindFacts
<1>5. "localcreate" \in AddOps /\ TRUE \in BOOLEAN
  BY DEF AddOps
<1> QED BY <1>1, <1>2, <1>4, <1>5, JoinStarts

\* localjoinchannel() on a service's own account.
LEMMA JoinIdleInv ==
  ASSUME MembershipInv, Idle, NEW np \in Nicks, NEW cp \in Chans, localjoinchannel(np, cp)
  PROVE  MembershipInv'
<1>1. /\ np \in alive /\ cp \in allocated /\ np \notin users[cp] /\ Add(cp, np)
      /\ Push(NewFrame("localjoin", "newnick", np, cp, FALSE))
      /\ UNCHANGED <<alive, index, allocated, pending, clearing>>
  BY DEF localjoinchannel
<1>2. /\ index' \in [Names -> Chans \cup {NULL}] /\ allocated' = allocated \cup {cp}
      /\ \A c \in Chans : c \in allocated' <=> \E m \in Names : index'[m] = c
      /\ \A k, m \in Names : index'[k] = index'[m] /\ index'[k] # NULL => k = m
  BY <1>1 DEF MembershipInv, TypeOK, IndexShape
<1>3. "localjoin" \in AddOps /\ FALSE \in BOOLEAN
  BY DEF AddOps
<1> QED BY <1>1, <1>2, <1>3, JoinStarts

LEMMA handleburstmsgInv ==
  ASSUME MembershipAssumption, MembershipInv, NEW n \in Names, handleburstmsg(n)
  PROVE  MembershipInv'
<1>1. PICK cp \in Chans :
        FindOrCreate(n, cp) /\ Push(NewFrame("burst", "adding", NULL, cp, index[n] = NULL))
  BY DEF handleburstmsg
<1>2. Idle /\ UNCHANGED <<alive, channels, users, pending, clearing>>
  BY DEF handleburstmsg
<1>3. /\ Tables /\ IndexShape /\ UsersAlive
      /\ \A x \in Nicks, c \in Chans : x \in users[c] <=> Listed(x, c)
      /\ \A c \in allocated : users[c] # {}
  BY <1>2, IdleFacts DEF MembershipInv
<1>4. /\ index' \in [Names -> Chans \cup {NULL}] /\ allocated' = allocated \cup {cp}
      /\ \A c \in Chans : c \in allocated' <=> \E m \in Names : index'[m] = c
      /\ \A k, m \in Names : index'[k] = index'[m] /\ index'[k] # NULL => k = m
  BY <1>1, <1>3, FindFacts
<1> DEFINE new == index[n] = NULL
           f == NewFrame("burst", "adding", NULL, cp, new)
<1>5. /\ f \in Frame /\ FrameShape(f) /\ f.op \notin {"quitdel", "zero"} /\ ~f.stale /\ f.i = 1
      /\ f.pc = "adding" /\ f.cp = cp
  <2>1. new \in BOOLEAN
    OBVIOUS
  <2> HIDE DEF new
  <2> QED BY <2>1 DEF NewFrame, Frame, FrameShape, AddOps, DelOps, JoinPcs, BurstPcs, PartPcs, Ops,
                     Pcs, HookPcs
<1>6. Push(f)
  BY <1>1
<1>7. Tables'
  BY <1>2, <1>3, <1>4 DEF Tables
<1>8. IndexShape'
  BY <1>2, <1>3, <1>4 DEF IndexShape
<1>9. \A x \in Nicks, c \in Chans : x \in users'[c] <=> Listed(x, c)'
  BY <1>2, <1>3 DEF Listed
<1>10. \A c \in allocated' : users'[c] = {} => c = cp
  BY <1>2, <1>3, <1>4
<1>11. UsersAlive'
  BY <1>2, <1>3 DEF UsersAlive
<1> HIDE DEF f
<1> QED BY <1>2, <1>4, <1>5, <1>6, <1>7, <1>8, <1>9, <1>10, <1>11, StartInv

\* The handlers that begin with nothing done.
LEMMA LeaveStarts ==
  ASSUME MembershipInv, Idle, NEW f \in Frame, Push(f),
         FrameShape(f), f.op # "quitdel", ~f.stale, f.i = 1,
         f.pc \notin {"lostnick", "lostchannel", "deleted", "gone"}, f.op = "zero" => f.pc = "next",
         f.pc \notin {"next", "nicklost"} => f.cp \in allocated,
         UNCHANGED <<tables, pending, clearing>>
  PROVE  MembershipInv'
<1>1. /\ Tables /\ IndexShape /\ UsersAlive
      /\ \A x \in Nicks, c \in Chans : x \in users[c] <=> Listed(x, c)
      /\ \A c \in allocated : users[c] # {}
  BY IdleFacts DEF MembershipInv
<1>2. Tables' /\ IndexShape' /\ UsersAlive'
  BY <1>1 DEF Tables, IndexShape, UsersAlive, tables
<1>3. \A x \in Nicks, c \in Chans : x \in users'[c] <=> Listed(x, c)'
  BY <1>1 DEF Listed, tables
<1> QED BY <1>1, <1>2, <1>3, StartInv DEF tables

LEMMA ShapeOfStart ==
  ASSUME NEW op, NEW pc, NEW np \in Nicks, NEW cp \in Chans \cup {NULL},
         \/ op \in {"part", "kick"} /\ pc = op /\ cp \in Chans
         \/ op \in {"localkick", "quitdel"} /\ pc = "del" /\ cp \in Chans
         \/ op = "zero" /\ pc = "next"
         \/ op = "quit" /\ pc = "nicklost" /\ cp = NULL
  PROVE  /\ NewFrame(op, pc, np, cp, FALSE) \in Frame
         /\ FrameShape(NewFrame(op, pc, np, cp, FALSE))
  BY DEF NewFrame, Frame, FrameShape, AddOps, DelOps, JoinPcs, BurstPcs, PartPcs, Ops, Pcs, HookPcs

LEMMA handlepartmsgInv ==
  ASSUME MembershipInv, NEW np \in Nicks, NEW cp \in Chans,
         handlepartmsg(np, cp) \/ handlekickmsg(np, cp)
         \/ (Idle /\ localkickuser(cp, np))
  PROVE  MembershipInv'
<1>1. PICK op \in {"part", "kick", "localkick"} :
        /\ Idle /\ cp \in allocated /\ UNCHANGED <<tables, pending, clearing>>
        /\ Push(NewFrame(op, IF op = "localkick" THEN "del" ELSE op, np, cp, FALSE))
  BY DEF handlepartmsg, handlekickmsg, localkickuser, pending, InHook
<1> DEFINE f == NewFrame(op, IF op = "localkick" THEN "del" ELSE op, np, cp, FALSE)
<1>2. f \in Frame /\ FrameShape(f)
  BY ShapeOfStart
<1>3. /\ f.op \notin {"quitdel", "zero"} /\ ~f.stale /\ f.i = 1 /\ f.cp = cp
      /\ f.pc \notin {"lostnick", "lostchannel", "deleted", "gone"}
  BY DEF NewFrame
<1> HIDE DEF f
<1> QED BY <1>1, <1>2, <1>3, LeaveStarts DEF f

LEMMA JoinZeroInv ==
  ASSUME MembershipInv, NEW np \in Nicks, JoinZero(np) \/ NickLost(np)
  PROVE  MembershipInv'
<1>1. PICK op \in {"zero", "quit"} :
        /\ Idle /\ UNCHANGED <<tables, pending, clearing>>
        /\ Push(NewFrame(op, IF op = "zero" THEN "next" ELSE "nicklost", np, NULL, FALSE))
  BY DEF JoinZero, NickLost
<1> DEFINE f == NewFrame(op, IF op = "zero" THEN "next" ELSE "nicklost", np, NULL, FALSE)
<1>2. f \in Frame /\ FrameShape(f)
  BY ShapeOfStart
<1>3. /\ f.op # "quitdel" /\ ~f.stale /\ f.i = 1 /\ f.pc \in {"next", "nicklost"}
      /\ f.op = "zero" => f.pc = "next"
  BY DEF NewFrame
<1> HIDE DEF f
<1> QED BY <1>1, <1>2, <1>3, LeaveStarts DEF f

LEMMA NewNickInv ==
  ASSUME MembershipInv, NEW np \in Nicks, NewNick(np)
  PROVE  MembershipInv'
<1>1. /\ Idle /\ alive' = alive \cup {np}
      /\ UNCHANGED <<channels, index, users, allocated, pending, frames, clearing>>
  BY DEF NewNick
<1>2. ~Waiting /\ DOMAIN frames = {}
  BY <1>1, IdleFacts
<1>3. TypeOK'
  BY <1>1 DEF MembershipInv, TypeOK, pending
<1>4. StackShape'
  BY <1>1, <1>2 DEF MembershipInv, StackShape, Waiting, pending, Idle
<1>5. IndexShape' /\ Used' /\ HandlersChan' /\ ServiceStays' /\ Walks'
  BY <1>1, <1>2 DEF MembershipInv, IndexShape, Used, HandlersChan, ServiceStays, Walks, Idle
<1>6. PendingShape'
  BY <1>1, <1>2 DEF MembershipInv, PendingShape, pending, Waiting
<1>7. Mirrored' /\ UsersAlive'
  BY <1>1 DEF MembershipInv, Mirrored, Listed, Ending, UsersAlive
<1> QED BY <1>3, <1>4, <1>5, <1>6, <1>7 DEF MembershipInv

-----------------------------------------------------------------------------
(* Handlers inside of hooks. *)

\* In a hook of a join, all handlers are joins, or a burst, of the same channel.
LEMMA JoiningStack ==
  ASSUME TypeOK, StackShape, frames # <<>>, frames[Len(frames)].pc \in JoinPcs
  PROVE  /\ \A i \in DOMAIN frames : frames[i].pc \in JoinPcs /\ frames[i].op \in AddOps \cup {"burst"}
         /\ frames[Len(frames)].cp = frames[1].cp
         /\ Len(frames) > 1 => ~clearing /\ frames[Len(frames)].np \in Services
                               /\ frames[Len(frames)].op = "localjoin"
<1> DEFINE n == Len(frames)
<1>1. n \in Nat \ {0} /\ DOMAIN frames = 1 .. n /\ \A i \in 1 .. n : frames[i] \in Frame
  BY TopFacts DEF TypeOK
<1>2. \A i \in 1 .. n : FrameShape(frames[i]) /\ (i > 1 => Nested(i))
  BY <1>1 DEF StackShape
<1>3. \A i \in 1 .. n : frames[i].pc \in JoinPcs => frames[i].op \in AddOps \cup {"burst"}
  BY <1>1, <1>2 DEF FrameShape, Frame, Ops, JoinPcs, PartPcs, AddOps, DelOps
<1>4. CASE n = 1
  BY <1>1, <1>3, <1>4
<1>5. CASE n > 1
  <2>1. /\ frames[n].op = "localjoin" /\ frames[n].np \in Services /\ ~clearing
        /\ frames[n].cp = frames[1].cp /\ frames[1].pc \in JoinPcs
    BY <1>1, <1>2, <1>3, <1>5 DEF Nested, AddOps
  <2>2. frames[1].op # "quit"
    BY <1>1, <1>3, <2>1 DEF AddOps
  <2>3. ASSUME NEW i \in 1 .. n, i > 1
        PROVE  frames[i].op = "localjoin"
    <3>1. i - 1 \in 1 .. n /\ (i - 1 > 1 => Nested(i - 1)) /\ Nested(i)
      BY <1>1, <1>2, <2>3
    <3>2. frames[i - 1].op # "quit"
      <4>1. CASE i - 1 = 1
        BY <2>2, <4>1
      <4>2. CASE i - 1 > 1
        BY <2>1, <3>1, <4>2 DEF Nested
      <4> QED BY <3>1, <4>1, <4>2
    <3> QED BY <2>1, <3>1, <3>2 DEF Nested
  <2>4. ASSUME NEW i \in 1 .. n
        PROVE  frames[i].pc \in JoinPcs
    <3>1. CASE i = 1
      BY <2>1, <3>1
    <3>2. CASE i > 1
      BY <1>2, <2>3, <3>2 DEF FrameShape, AddOps
    <3> QED BY <1>1, <3>1, <3>2
  <2> QED BY <1>1, <1>3, <2>1, <2>4
<1> QED BY <1>1, <1>4, <1>5

\* The only nick that can be leaving below the inner handler is the one it is about.
LEMMA Walkers ==
  ASSUME TypeOK, StackShape, frames # <<>>
  PROVE  \A m \in 1 .. Len(frames) - 1 :
           /\ frames[m].op # "zero"
           /\ frames[m].op = "quit" =>
                /\ m = Len(frames) - 1 /\ frames[Len(frames)].op = "quitdel"
                /\ frames[Len(frames)].np = frames[m].np /\ frames[m].pc = "nicklost"
<1> DEFINE n == Len(frames)
<1> SUFFICES ASSUME NEW m \in 1 .. n - 1
             PROVE  /\ frames[m].op # "zero"
                    /\ frames[m].op = "quit" => m = n - 1 /\ frames[n].op = "quitdel"
                                                /\ frames[n].np = frames[m].np
                                                /\ frames[m].pc = "nicklost"
  OBVIOUS
<1>1. n \in Nat \ {0} /\ DOMAIN frames = 1 .. n
  BY TopFacts DEF TypeOK
<1>2. \A i \in 1 .. n : FrameShape(frames[i]) /\ (i > 1 => Nested(i))
  BY <1>1 DEF StackShape
<1>3. \A i \in 1 .. n - 1 : frames[i].pc \in JoinPcs \cup {"nicklost"}
  BY BelowTop
<1>4. m \in 1 .. n /\ m + 1 \in 1 .. n /\ (m + 1) - 1 = m /\ m + 1 > 1
  BY <1>1
<1>5. frames[m].op # "zero"
  BY <1>2, <1>3, <1>4 DEF FrameShape, PartPcs, JoinPcs
<1>6. ASSUME frames[m].op = "quit"
      PROVE  m = n - 1 /\ frames[n].op = "quitdel" /\ frames[n].np = frames[m].np
             /\ frames[m].pc = "nicklost"
  <2>1. frames[m].pc = "nicklost"
    BY <1>2, <1>3, <1>4, <1>6 DEF FrameShape, JoinPcs
  <2>2. m = 1 => ~clearing /\ frames[1].pc \notin JoinPcs
    BY <1>1, <2>1 DEF StackShape, Waiting, JoinPcs
  <2>3. m > 1 => clearing /\ m = 2
    BY <1>2, <1>4, <1>6 DEF Nested
  <2>4. frames[m + 1].op = "quitdel" /\ frames[m + 1].np = frames[m].np
    <3>1. Nested(m + 1)
      BY <1>2, <1>4
    <3>2. ~(frames[m + 1].op = "localjoin" /\ frames[1].pc \in JoinPcs /\ ~clearing)
      BY <1>4, <2>2, <2>3
    <3>3. ~(m + 1 = 2 /\ clearing)
      BY <1>4, <2>2, <2>3
    <3> QED BY <1>4, <3>1, <3>2, <3>3 DEF Nested
  <2>5. frames[m + 1].pc \in PartPcs
    BY <1>2, <1>4, <2>4 DEF FrameShape, DelOps
  <2>6. ~(m + 1 \in 1 .. n - 1)
    BY <1>3, <2>5 DEF PartPcs, JoinPcs
  <2>7. m = n - 1 /\ m + 1 = n
    <3> HIDE DEF n
    <3>1. n \in Nat /\ m \in 1 .. n - 1
      BY <1>1
    <3> QED BY <2>6, <3>1
  <2> QED BY <2>1, <2>4, <2>7
<1> QED BY <1>5, <1>6

\* localjoinchannel() from a callback.
LEMMA JoinInHookInv ==
  ASSUME HooksAssumption, MembershipInv, ~Idle, NEW np \in Nicks, NEW cp \in Chans,
         localjoinchannel(np, cp)
  PROVE  MembershipInv'
<1> DEFINE n == Len(frames)
           f == NewFrame("localjoin", "newnick", np, cp, FALSE)
<1>1. /\ InHook /\ Top.pc \in JoinHooks /\ cp = Top.cp
      /\ np \in Services \cap alive /\ cp \in allocated /\ np \notin users[cp]
      /\ Add(cp, np) /\ Push(f)
      /\ UNCHANGED <<alive, index, allocated, pending, clearing>>
  BY DEF localjoinchannel
<1>2. /\ frames # <<>> /\ frames \in Seq(Frame) /\ TypeOK /\ StackShape
      /\ n \in Nat \ {0} /\ DOMAIN frames = 1 .. n /\ Top = frames[n]
  BY <1>1, TopFacts DEF InHook, Idle, MembershipInv, TypeOK
<1>3. frames[n].pc \in JoinPcs
  BY <1>1, <1>2 DEF HooksAssumption
<1>4. /\ \A i \in 1 .. n : frames[i].pc \in JoinPcs /\ frames[i].op \in AddOps \cup {"burst"}
      /\ cp = frames[1].cp
      /\ n > 1 => ~clearing
  BY <1>1, <1>2, <1>3, JoiningStack
<1>5. ~clearing
  BY <1>1, <1>2, <1>4 DEF InHook
<1>6. f \in Frame /\ FrameShape(f)
  BY DEF NewFrame, Frame, FrameShape, AddOps, DelOps, JoinPcs, BurstPcs, PartPcs, Ops, Pcs, HookPcs
<1>7. /\ f.op = "localjoin" /\ f.pc = "newnick" /\ f.np = np /\ f.cp = cp /\ ~f.stale
  BY DEF NewFrame
<1> HIDE DEF f
<1>8. /\ frames' \in Seq(Frame) /\ frames' # <<>> /\ Len(frames') = n + 1
      /\ DOMAIN frames' = 1 .. n + 1
      /\ \A i \in 1 .. n : frames'[i] = frames[i]
      /\ frames'[n + 1] = f
  BY <1>1, <1>2, <1>6, PushFacts
<1>9. 1 \in 1 .. n /\ frames'[1] = frames[1] /\ n + 1 \in 1 .. n + 1
  BY <1>2, <1>8
<1>10. \A i \in 1 .. n + 1 : /\ frames'[i].pc \in JoinPcs
                             /\ frames'[i].op \in AddOps \cup {"burst"}
  <2> SUFFICES ASSUME NEW i \in 1 .. n + 1
               PROVE  frames'[i].pc \in JoinPcs /\ frames'[i].op \in AddOps \cup {"burst"}
    OBVIOUS
  <2>1. i \in 1 .. n \/ i = n + 1
    BY <1>2
  <2> QED BY <1>4, <1>7, <1>8, <2>1 DEF JoinPcs, AddOps
<1>11. \A x, c : ~Ending(x, c) /\ ~Ending(x, c)'
  BY <1>2, <1>4, <1>8, <1>10 DEF Ending, JoinPcs, AddOps
<1>12. Tables
  BY <1>2 DEF TypeOK, Tables
<1>13. ~Listed(np, cp)
  BY <1>1, <1>11 DEF MembershipInv, Mirrored
<1>14. /\ channels' \in [Nicks -> Seq(Chans)]
       /\ \A x \in Nicks : IsInjective(channels'[x])
       /\ users' \in [Chans -> SUBSET Nicks]
       /\ \A x \in Nicks, c \in Chans : Listed(x, c)' <=> Listed(x, c) \/ (x = np /\ c = cp)
       /\ \A x \in Nicks, c \in Chans : x \in users'[c] <=> x \in users[c] \/ (x = np /\ c = cp)
  BY <1>1, <1>12, <1>13, AddFacts
<1>15. TypeOK'
  BY <1>1, <1>8, <1>14 DEF MembershipInv, TypeOK, pending
<1>16. ~Waiting' \/ (frames' # <<>> /\ frames'[1].pc \in JoinPcs)
  BY <1>4, <1>8, <1>9
<1>17. StackShape'
  <2>1. ASSUME NEW i \in 1 .. n + 1
        PROVE  FrameShape(frames'[i])
    <3>1. i \in 1 .. n \/ i = n + 1
      BY <1>2
    <3> QED BY <1>2, <1>6, <1>8, <3>1 DEF StackShape
  <2>2. ASSUME NEW i \in 1 .. n + 1, i > 1
        PROVE  Nested(i)'
    <3>1. CASE i = n + 1
      <4>1. i - 1 = n
        BY <1>2, <3>1
      <4> QED BY <1>1, <1>3, <1>4, <1>5, <1>7, <1>8, <1>9, <3>1, <4>1 DEF Nested
    <3>2. CASE i \in 1 .. n
      <4>1. i - 1 \in 1 .. n /\ Nested(i)
        BY <1>2, <2>2, <3>2 DEF StackShape
      <4>2. frames'[i - 1] = frames[i - 1] /\ frames'[i] = frames[i]
        BY <1>8, <3>2, <4>1
      <4> QED BY <1>1, <1>9, <4>1, <4>2 DEF Nested
    <3> QED BY <1>2, <3>1, <3>2
  <2>3. frames'[1].op # "quitdel"
    BY <1>2, <1>9 DEF StackShape
  <2> QED BY <1>8, <1>16, <2>1, <2>2, <2>3 DEF StackShape
<1>18. IndexShape'
  <2>1. ASSUME NEW c \in Chans, users'[c] # {}
        PROVE  c \in allocated
    <3>1. PICK x \in Nicks : x \in users'[c]
      BY <1>14, <2>1
    <3>2. x \in users[c] \/ c = cp
      BY <1>14, <3>1
    <3> QED BY <1>1, <3>2 DEF MembershipInv, IndexShape
  <2> QED BY <1>1, <2>1 DEF MembershipInv, IndexShape
<1>19. Used'
  <2> SUFFICES ASSUME NEW c \in allocated, users'[c] = {}
               PROVE  FALSE
    BY <1>1 DEF Used
  <2>1. c \in Chans /\ users[c] \subseteq Nicks
    BY <1>12 DEF Tables
  <2>2. users[c] = {}
    BY <1>14, <2>1
  <2>3. PICK i \in 1 .. n : frames[i].pc \in {"lostchannel", "adding"}
    BY <1>2, <2>2 DEF MembershipInv, Used
  <2> QED BY <1>4, <2>3 DEF JoinPcs
<1>20. HandlersChan'
  <2> SUFFICES ASSUME NEW i \in 1 .. n + 1
               PROVE  FrameChan(i)'
    BY <1>8 DEF HandlersChan
  <2>1. CASE i = n + 1
    BY <1>1, <1>7, <1>8, <1>9, <2>1 DEF FrameChan
  <2>2. CASE i \in 1 .. n
    <3>1. FrameChan(i) /\ frames'[i] = frames[i] /\ frames[i].pc \in JoinPcs
      BY <1>2, <1>4, <1>8, <2>2 DEF MembershipInv, HandlersChan
    <3> QED BY <1>1, <3>1 DEF FrameChan, JoinPcs
  <2> QED BY <1>2, <2>1, <2>2
<1>21. PendingShape'
  <2>1. \A i \in 1 .. n + 1 : frames'[i].pc \notin {"lostchannel", "gone"}
    BY <1>10 DEF JoinPcs
  <2> QED BY <1>1, <1>8, <1>9, <2>1 DEF MembershipInv, PendingShape, KickShape, pending
<1>22. ServiceStays'
  <2>1. np \in users'[cp]
    BY <1>1, <1>14
  <2> QED BY <1>1, <1>4, <1>9, <2>1 DEF ServiceStays
<1>23. Mirrored'
  BY <1>11, <1>14 DEF MembershipInv, Mirrored
<1>24. Walks'
  <2>1. \A i \in 1 .. n + 1 : frames'[i].op \notin {"zero", "quit"}
    BY <1>10 DEF AddOps
  <2> QED BY <1>8, <2>1 DEF Walks, Walked
<1>25. UsersAlive'
  <2> SUFFICES ASSUME NEW c \in Chans, NEW x \in users'[c]
               PROVE  x \in alive
    BY <1>1 DEF UsersAlive
  <2>1. x \in Nicks
    BY <1>14
  <2> QED BY <1>1, <1>14, <2>1 DEF MembershipInv, UsersAlive
<1> QED BY <1>15, <1>17, <1>18, <1>19, <1>20, <1>21, <1>22, <1>23, <1>24, <1>25 DEF MembershipInv

\* No kick is added to the list.
LEMMA FewerKicks ==
  ASSUME PendingShape, pendingkilllist' \subseteq pendingkilllist,
         \A i \in DOMAIN pendingkicklist' :
           \E j \in DOMAIN pendingkicklist : pendingkicklist'[i] = pendingkicklist[j],
         \A k : KickShape(k) => KickShape(k)'
  PROVE  PendingShape'
<1>1. ASSUME NEW i \in DOMAIN pendingkicklist', NEW k, k = pendingkicklist'[i]
      PROVE  KickShape(k)'
  <2>1. PICK j \in DOMAIN pendingkicklist : k = pendingkicklist[j]
    BY <1>1
  <2> QED BY <2>1 DEF PendingShape
<1> QED BY <1>1 DEF PendingShape

\* What the end of the outermost hook starts: a kill or a kick that has waited.
LEMMA ClearStarts ==
  ASSUME MembershipAssumption, MembershipInv, clearing, Len(frames) = 1, NEW f \in Frame, Push(f), FrameShape(f),
         \/ f.op = "localkick" /\ f.pc = "del" /\ f.cp \in allocated
         \/ f.op = "quit" /\ f.pc = "nicklost",
         f.np \in Nicks \ Services, ~f.stale, f.i = 1, UNCHANGED <<tables, clearing>>,
         pendingkicklist' \in Seq(Kick), pendingkilllist' \subseteq pendingkilllist,
         \A i \in DOMAIN pendingkicklist' :
           \E j \in DOMAIN pendingkicklist : pendingkicklist'[i] = pendingkicklist[j]
  PROVE  MembershipInv'
<1>1. /\ frames \in Seq(Frame) /\ frames # <<>> /\ TypeOK /\ StackShape
      /\ DOMAIN frames = {1} /\ frames[1].pc \in JoinPcs
  BY DEF MembershipInv, TypeOK, StackShape, Waiting
<1>2. frames[1].op \in AddOps \cup {"burst"}
  BY <1>1, JoiningStack
<1>3. /\ frames' \in Seq(Frame) /\ frames' # <<>> /\ Len(frames') = 2 /\ DOMAIN frames' = {1, 2}
      /\ frames'[1] = frames[1] /\ frames'[2] = f /\ Top' = f
  <2>1. /\ frames' \in Seq(Frame) /\ frames' # <<>> /\ Len(frames') = 2 /\ DOMAIN frames' = 1 .. 2
        /\ frames'[1] = frames[1] /\ frames'[2] = f /\ Top' = f
    BY <1>1, PushFacts
  <2> QED BY <2>1
<1>4. clearing' /\ Waiting' /\ Waiting
  BY DEF Waiting
<1>5. UNCHANGED <<alive, channels, index, users, allocated, clearing>>
  BY DEF tables
<1>6. TypeOK'
  BY <1>1, <1>3, <1>5 DEF TypeOK
<1>7. StackShape'
  <2>1. Nested(2)'
    BY <1>1, <1>3, <1>4 DEF Nested
  <2>2. FrameShape(frames'[1]) /\ frames'[1].op # "quitdel"
    BY <1>1, <1>3 DEF StackShape
  <2> QED BY <1>1, <1>3, <2>1, <2>2 DEF StackShape
<1>8. IndexShape' /\ UsersAlive'
  BY <1>5 DEF MembershipInv, IndexShape, UsersAlive
<1>9. Used'
  BY <1>1, <1>3, <1>5 DEF MembershipInv, Used
<1>10. HandlersChan'
  <2>1. FrameChan(1)'
    BY <1>1, <1>3, <1>5 DEF MembershipInv, HandlersChan, FrameChan
  <2>2. FrameChan(2)'
    BY <1>3, <1>5 DEF FrameChan
  <2> QED BY <1>3, <2>1, <2>2 DEF HandlersChan
<1>11. PendingShape'
  <2>1. \A i \in DOMAIN frames' : frames'[i].pc \notin {"lostchannel", "gone"}
    BY <1>1, <1>3 DEF JoinPcs
  <2>2. ASSUME NEW k, KickShape(k)
        PROVE  KickShape(k)'
    BY <1>3, <1>5, <2>1, <2>2 DEF KickShape
  <2> QED BY <2>2, FewerKicks DEF MembershipInv
<1>12. ServiceStays'
  BY <1>1, <1>3, <1>4, <1>5 DEF MembershipInv, ServiceStays, NeedsChannel
<1>13. \A np \in Nicks, cp \in Chans : ~Ending(np, cp)
  BY <1>1, <1>2 DEF Ending, JoinPcs, AddOps
<1>14. \A np \in Nicks, cp \in Chans : np \in users[cp] <=> Listed(np, cp)
  BY <1>13 DEF MembershipInv, Mirrored
<1>15. Mirrored'
  BY <1>5, <1>14 DEF Mirrored, Listed
<1>16. Walks'
  <2>1. Walked(1)'
    BY <1>2, <1>3 DEF Walked, AddOps
  <2>2. Walked(2)'
    <3>1. f.op \in {"zero", "quit"} => f.pc \notin LeavePcs \cup {"gone"}
      BY DEF LeavePcs
    <3> DEFINE a == channels[f.np]
    <3>2. a \in Seq(Chans)
      BY <1>1 DEF TypeOK
    <3>3. \A j \in DOMAIN a, c \in Chans : c = a[j] => Listed(f.np, c)
      BY DEF Listed
    <3>4. ASSUME NEW j \in DOMAIN a
          PROVE  j >= f.i /\ ~(j < f.i) /\ f.np \in users[a[j]]
      <4> HIDE DEF a
      <4>1. j \in Nat \ {0} /\ a[j] \in Chans
        BY <3>2
      <4>2. f.np \in users[a[j]]
        BY <1>14, <3>3, <4>1
      <4> QED BY <4>1, <4>2
    <3> QED BY <1>3, <1>5, <3>1, <3>4 DEF Walked
  <2> QED BY <1>3, <2>1, <2>2 DEF Walks
<1> QED BY <1>6, <1>7, <1>8, <1>9, <1>10, <1>11, <1>12, <1>15, <1>16 DEF MembershipInv

LEMMA clearpendingkillsInv ==
  ASSUME MembershipAssumption, MembershipInv, NEW np \in Nicks, clearpendingkills(np)
  PROVE  MembershipInv'
<1> DEFINE f == NewFrame("quit", "nicklost", np, NULL, FALSE)
<1>1. /\ clearing /\ Len(frames) = 1 /\ np \in pendingkilllist
      /\ pendingkilllist' = pendingkilllist \ {np}
      /\ Push(f) /\ UNCHANGED <<tables, pendingkicklist, clearing>>
  BY DEF clearpendingkills
<1>2. f \in Frame /\ FrameShape(f)
  BY ShapeOfStart
<1>3. f.op = "quit" /\ f.pc = "nicklost" /\ f.np = np /\ ~f.stale /\ f.i = 1
  BY DEF NewFrame
<1>4. np \in Nicks \ Services
  BY <1>1 DEF MembershipInv, PendingShape
<1>5. pendingkicklist' = pendingkicklist /\ pendingkicklist' \in Seq(Kick)
  BY <1>1 DEF MembershipInv, TypeOK
<1>6. \A i \in DOMAIN pendingkicklist' :
        \E j \in DOMAIN pendingkicklist : pendingkicklist'[i] = pendingkicklist[j]
  BY <1>5
<1> HIDE DEF f
<1> QED BY <1>1, <1>2, <1>3, <1>4, <1>5, <1>6, ClearStarts

\* Nothing happens to the handlers, and at most one kick leaves the list.
LEMMA PendingDown ==
  ASSUME MembershipInv, frames # <<>>, UNCHANGED <<tables, frames>>,
         pendingkicklist' \in Seq(Kick), pendingkilllist' \subseteq pendingkilllist,
         \A i \in DOMAIN pendingkicklist' :
           \E j \in DOMAIN pendingkicklist : pendingkicklist'[i] = pendingkicklist[j],
         clearing' \in BOOLEAN, Waiting, Len(frames) = 1
  PROVE  MembershipInv'
<1>1. /\ frames \in Seq(Frame) /\ TypeOK /\ StackShape /\ DOMAIN frames = {1}
      /\ frames[1].pc \in JoinPcs
  BY DEF MembershipInv, TypeOK, StackShape
<1>2. UNCHANGED <<alive, channels, index, users, allocated, frames>>
  BY DEF tables
<1>3. TypeOK'
  BY <1>1, <1>2 DEF TypeOK
<1>4. StackShape'
  BY <1>1, <1>2 DEF StackShape
<1>5. IndexShape' /\ UsersAlive' /\ Used' /\ HandlersChan' /\ Mirrored' /\ Walks'
  BY <1>2 DEF MembershipInv, IndexShape, UsersAlive, Used, HandlersChan, FrameChan, Mirrored, Ending,
              Listed, Walks, Walked, Top
<1>6. PendingShape'
  <2>1. ASSUME NEW k, KickShape(k)
        PROVE  KickShape(k)'
    BY <1>2, <2>1 DEF KickShape
  <2> QED BY <2>1, FewerKicks DEF MembershipInv
<1>7. ServiceStays'
  BY <1>2 DEF MembershipInv, ServiceStays, NeedsChannel
<1> QED BY <1>3, <1>4, <1>5, <1>6, <1>7 DEF MembershipInv

LEMMA EndOfHooksQueueInv ==
  ASSUME MembershipInv, EndOfHooksQueue
  PROVE  MembershipInv'
<1>1. /\ frames # <<>> /\ Top.pc \in HookPcs /\ hookqueuelength = 1 /\ clearing'
      /\ Waiting /\ UNCHANGED <<tables, pending, frames>>
  BY DEF EndOfHooksQueue, InHook, Idle, Waiting
<1>2. /\ frames \in Seq(Frame) /\ Len(frames) \in Nat \ {0} /\ DOMAIN frames = 1 .. Len(frames)
      /\ Top = frames[Len(frames)] /\ TypeOK /\ StackShape
      /\ 1 \in DOMAIN frames /\ Len(frames) \in DOMAIN frames
  BY <1>1, TopFacts DEF MembershipInv, TypeOK
<1>3. Len(frames) = 1
  <2>1. frames[1].pc \in HookPcs
    BY <1>1, <1>2, BelowTop
  <2> QED BY <1>1, <1>2, <2>1, QueueLength
<1>4. /\ pendingkicklist' = pendingkicklist /\ pendingkicklist' \in Seq(Kick)
      /\ pendingkilllist' \subseteq pendingkilllist
  BY <1>1, <1>2 DEF pending, TypeOK
<1>5. \A i \in DOMAIN pendingkicklist' :
        \E j \in DOMAIN pendingkicklist : pendingkicklist'[i] = pendingkicklist[j]
  BY <1>4
<1>6. clearing' \in BOOLEAN
  BY DEF EndOfHooksQueue
<1> QED BY <1>1, <1>3, <1>4, <1>5, <1>6, PendingDown

LEMMA clearpendingkicksInv ==
  ASSUME MembershipAssumption, MembershipInv, clearpendingkicks
  PROVE  MembershipInv'
<1>0. Waiting
  BY DEF clearpendingkicks, Waiting
<1>1. /\ clearing /\ Len(frames) = 1 /\ pendingkilllist = {} /\ UNCHANGED <<tables, pendingkilllist>>
      /\ Waiting /\ pendingkicklist \in Seq(Kick) /\ frames # <<>>
  BY <1>0 DEF clearpendingkicks, MembershipInv, TypeOK, StackShape
<1>2. CASE pendingkicklist = <<>>
  <2>1. clearing' = FALSE /\ UNCHANGED <<pendingkicklist, frames>>
    BY <1>2 DEF clearpendingkicks
  <2>2. pendingkicklist' = <<>> /\ DOMAIN pendingkicklist' = {} /\ pendingkicklist' \in Seq(Kick)
    BY <1>1, <1>2, <2>1
  <2>3. clearing' \in BOOLEAN
    BY <2>1
  <2> QED BY <1>1, <2>1, <2>2, <2>3, PendingDown
<1>3. CASE pendingkicklist # <<>>
  <2> DEFINE k == Head(pendingkicklist)
  <2>1. pendingkicklist' = Tail(pendingkicklist) /\ UNCHANGED clearing
    BY <1>3 DEF clearpendingkicks
  <2>2. /\ pendingkicklist' \in Seq(Kick)
        /\ \A i \in DOMAIN pendingkicklist' :
             i + 1 \in DOMAIN pendingkicklist /\ pendingkicklist'[i] = pendingkicklist[i + 1]
        /\ 1 \in DOMAIN pendingkicklist /\ k = pendingkicklist[1] /\ k \in Kick
    BY <1>1, <1>3, <2>1, TailFacts
  <2>3. \A i \in DOMAIN pendingkicklist' :
          \E j \in DOMAIN pendingkicklist : pendingkicklist'[i] = pendingkicklist[j]
    BY <2>2
  <2>4. CASE k.target # NULL /\ k.chan # NULL
    <3>1. KickShape(k)
      BY <2>2 DEF MembershipInv, PendingShape
    <3>2. k.target \in Nicks \ Services /\ k.chan \in allocated /\ k.chan \in Chans
      BY <2>2, <2>4, <3>1 DEF KickShape, Kick
    <3> DEFINE f == NewFrame("localkick", "del", k.target, k.chan, FALSE)
    <3>3. Push(f)
      BY <1>3, <2>4 DEF clearpendingkicks
    <3>4. f \in Frame /\ FrameShape(f)
      <4> HIDE DEF k
      <4> QED BY <3>2, ShapeOfStart
    <3>5. f.op = "localkick" /\ f.pc = "del" /\ f.cp = k.chan /\ f.np = k.target /\ ~f.stale
          /\ f.i = 1
      BY DEF NewFrame
    <3> HIDE DEF f, k
    <3>6. UNCHANGED <<tables, clearing>> /\ pendingkilllist' \subseteq pendingkilllist
      BY <1>1, <2>1
    <3> QED BY <1>1, <2>2, <2>3, <3>2, <3>3, <3>4, <3>5, <3>6, ClearStarts
  <2>5. CASE ~(k.target # NULL /\ k.chan # NULL)
    <3>1. UNCHANGED frames
      BY <1>3, <2>5 DEF clearpendingkicks
    <3>2. clearing' \in BOOLEAN
      BY <2>1 DEF MembershipInv, TypeOK
    <3> QED BY <1>1, <2>1, <2>2, <2>3, <3>1, <3>2, PendingDown
  <2> QED BY <2>4, <2>5
<1> QED BY <1>2, <1>3

-----------------------------------------------------------------------------
(* A handler goes on, or is done, with nothing changed in the tables. *)

LEMMA GotoInv ==
  ASSUME MembershipInv, frames # <<>>, NEW pc \in Pcs, Goto(pc),
         UNCHANGED <<tables, pending, clearing>>,
         Len(frames) = 1 => ~Waiting, ~Top.stale,
         FrameShape([Top EXCEPT !.pc = pc]),
         Top.pc \notin {"adding", "lostchannel", "deleted", "gone", "next", "nicklost"},
         pc \notin {"lostchannel", "deleted", "gone", "next", "nicklost"},
         pc = "lostnick" \/ (Top.op = "zero" /\ pc = "del") => Top.np \in users[Top.cp],
         Top.op = "zero" => pc # "part", Top.op # "quit",
         Top.pc \in LeavePcs <=> pc \in LeavePcs
  PROVE  MembershipInv'
<1> DEFINE n == Len(frames)
<1>1. /\ frames \in Seq(Frame) /\ TypeOK /\ StackShape
      /\ n \in Nat \ {0} /\ DOMAIN frames = 1 .. n /\ Top = frames[n]
      /\ 1 \in 1 .. n /\ n \in 1 .. n
      /\ \A i \in 1 .. n : FrameChan(i)
  BY TopFacts DEF MembershipInv, TypeOK, HandlersChan
<1>2. /\ frames' \in Seq(Frame) /\ frames' # <<>>
      /\ Len(frames') = n /\ DOMAIN frames' = 1 .. n
      /\ \A i \in 1 .. n - 1 : frames'[i] = frames[i]
      /\ \A i \in 1 .. n :
           /\ frames'[i].op = frames[i].op /\ frames'[i].np = frames[i].np
           /\ frames'[i].cp = frames[i].cp /\ frames'[i].new = frames[i].new
           /\ frames'[i].i = frames[i].i /\ frames'[i].stale = frames[i].stale
      /\ frames'[n].pc = pc /\ Top' = frames'[n]
  BY <1>1, GotoFacts
<1>3. UNCHANGED <<alive, channels, index, users, allocated, pendingkicklist, pendingkilllist, clearing>>
  BY DEF tables, pending
<1>4. \A i \in 1 .. n : i = n \/ (i \in 1 .. n - 1 /\ frames'[i] = frames[i])
  BY <1>1, <1>2
<1>5. TypeOK'
  BY <1>1, <1>2, <1>3 DEF TypeOK
<1>6. StackShape'
  <2>1. FrameShape(frames'[n])
    <3>1. /\ frames[n] \in Frame /\ [Top EXCEPT !.pc = pc].pc = pc
          /\ [Top EXCEPT !.pc = pc].op = frames[n].op /\ [Top EXCEPT !.pc = pc].np = frames[n].np
          /\ [Top EXCEPT !.pc = pc].cp = frames[n].cp /\ [Top EXCEPT !.pc = pc].i = frames[n].i
      BY <1>1, TopFacts DEF Frame
    <3> DEFINE g == [Top EXCEPT !.pc = pc]
    <3>2. g.pc = pc /\ g.op = frames[n].op /\ g.np = frames[n].np /\ g.cp = frames[n].cp
          /\ g.i = frames[n].i /\ FrameShape(g)
      BY <3>1
    <3> HIDE DEF g
    <3> QED BY <1>1, <1>2, <3>2 DEF FrameShape
  <2>2. \A i \in 1 .. n : FrameShape(frames'[i])
    BY <1>1, <1>4, <2>1 DEF StackShape
  <2>3. ASSUME NEW i \in 1 .. n, i > 1
        PROVE  Nested(i)'
    <3>1. i - 1 \in 1 .. n - 1 /\ 1 \in 1 .. n - 1
      BY <1>1, <2>3
    <3>2. frames'[i - 1] = frames[i - 1] /\ frames'[1] = frames[1] /\ Nested(i)
      BY <1>1, <1>2, <2>3, <3>1 DEF StackShape
    <3> QED BY <1>2, <1>3, <3>2 DEF Nested
  <2>4. Waiting' => frames'[1].pc \in JoinPcs
    <3>1. CASE n = 1
      BY <1>3, <3>1 DEF Waiting
    <3>2. CASE n # 1
      <4>1. frames'[1] = frames[1]
        BY <1>1, <1>2, <3>2
      <4> QED BY <1>1, <1>3, <4>1 DEF StackShape, Waiting
    <3> QED BY <3>1, <3>2
  <2>5. frames'[1].op # "quitdel"
    BY <1>1, <1>2 DEF StackShape
  <2> QED BY <1>2, <2>2, <2>3, <2>4, <2>5 DEF StackShape
<1>7. IndexShape' /\ UsersAlive'
  BY <1>3 DEF MembershipInv, IndexShape, UsersAlive
<1>8. Used'
  <2> SUFFICES ASSUME NEW cp \in allocated, users[cp] = {}
               PROVE  \E i \in 1 .. n : frames'[i].cp = cp /\ frames'[i].pc \in {"lostchannel", "adding"}
    BY <1>2, <1>3 DEF Used
  <2>1. PICK i \in 1 .. n : frames[i].cp = cp /\ frames[i].pc \in {"lostchannel", "adding"}
    BY <1>1 DEF MembershipInv, Used
  <2> QED BY <1>1, <1>4, <2>1
<1>9. HandlersChan'
  <2>1. ASSUME NEW i \in 1 .. n - 1
        PROVE  FrameChan(i)'
    <3>1. FrameChan(i) /\ frames'[i] = frames[i] /\ i \in 1 .. n
      BY <1>1, <1>2
    <3> QED BY <1>3, <3>1 DEF FrameChan
  <2>2. FrameChan(n)'
    <3>1. FrameChan(n)
      BY <1>1
    <3> QED BY <1>1, <1>2, <1>3, <3>1 DEF FrameChan
  <2> QED BY <1>2, <1>4, <2>1, <2>2 DEF HandlersChan
<1>10. PendingShape'
  <2>1. ASSUME NEW k, KickShape(k)
        PROVE  KickShape(k)'
    BY <1>1, <1>2, <1>3, <1>4, <2>1 DEF KickShape
  <2> QED BY <1>3, <2>1, FewerKicks DEF MembershipInv
<1>11. ServiceStays'
  <2>1. CASE n = 1
    BY <1>2, <1>3, <2>1 DEF ServiceStays, Waiting
  <2>2. CASE n # 1
    <3>1. frames'[1] = frames[1] /\ n > 1
      BY <1>1, <1>2, <2>2
    <3> QED BY <1>2, <1>3, <3>1 DEF MembershipInv, ServiceStays, NeedsChannel
  <2> QED BY <2>1, <2>2
<1>12. Mirrored'
  <2>1. ASSUME NEW np \in Nicks, NEW cp \in Chans, Ending(np, cp)
        PROVE  Ending(np, cp)'
    <3>1. PICK i \in 1 .. n :
            /\ frames[i].np = np
            /\ \/ frames[i].cp = cp /\ frames[i].pc \in {"lostchannel", "deleted"}
                  /\ frames[i].op # "burst"
               \/ frames[i].op \in {"zero", "quit"}
      BY <1>1, <2>1 DEF Ending
    <3> QED BY <1>1, <1>2, <1>4, <3>1 DEF Ending
  <2> QED BY <1>3, <2>1 DEF MembershipInv, Mirrored, Listed
<1>13. Walks'
  <2> SUFFICES ASSUME NEW i \in 1 .. n
               PROVE  Walked(i)'
    BY <1>2 DEF Walks
  <2>1. Walked(i)
    BY <1>1 DEF MembershipInv, Walks
  <2>2. /\ frames'[i].op = frames[i].op /\ frames'[i].np = frames[i].np
        /\ frames'[i].i = frames[i].i
        /\ frames'[i].pc = "gone" => frames[i].pc = "gone"
    BY <1>2, <1>4
  <2>3. /\ Top'.np = Top.np /\ Top'.cp = Top.cp
        /\ Top.pc \in LeavePcs <=> Top'.pc \in LeavePcs
    BY <1>1, <1>2
  <2> QED BY <1>3, <2>1, <2>2, <2>3 DEF Walked
<1> QED BY <1>5, <1>6, <1>7, <1>8, <1>9, <1>10, <1>11, <1>12, <1>13 DEF MembershipInv

\* What holds when the inner handler is done, whatever it has done to the nicks and their arrays.
LEMMA PopRest ==
  ASSUME MembershipInv, frames # <<>>, Pop,
         UNCHANGED <<index, users, allocated, pending, clearing>>,
         alive' = alive \/ (Top.pc = "gone" /\ alive' = alive \ {Top.np}),
         Len(frames) = 1 => ~Waiting,
         Top.pc \notin {"adding", "lostchannel"}
  PROVE  /\ frames' \in Seq(Frame) /\ StackShape' /\ IndexShape' /\ Used' /\ HandlersChan'
         /\ PendingShape' /\ ServiceStays'
<1> DEFINE n == Len(frames)
<1>1. /\ frames \in Seq(Frame) /\ TypeOK /\ StackShape
      /\ n \in Nat \ {0} /\ DOMAIN frames = 1 .. n /\ Top = frames[n]
      /\ 1 \in 1 .. n /\ n \in 1 .. n
      /\ \A i \in 1 .. n : FrameChan(i) /\ FrameShape(frames[i])
  BY TopFacts DEF MembershipInv, TypeOK, HandlersChan, StackShape
<1>2. /\ frames' \in Seq(Frame)
      /\ Len(frames') = n - 1 /\ DOMAIN frames' = 1 .. n - 1
      /\ \A i \in 1 .. n - 1 : frames'[i] = frames[i]
      /\ n > 1 => frames' # <<>> /\ Top' = frames[n - 1]
      /\ n = 1 => frames' = <<>>
  BY <1>1, PopFacts
<1>3. UNCHANGED <<index, users, allocated, pendingkicklist, pendingkilllist, clearing>>
  BY DEF pending
<1>4. \A i \in 1 .. n : i = n \/ i \in 1 .. n - 1
  <2>1. n \in Nat \ {0}
    BY <1>1
  <2> QED BY <2>1
<1>7. n > 1 => frames'[1] = frames[1]
  BY <1>1, <1>2
<1>8. \A i \in 1 .. n - 1 : i \in 1 .. n
  BY <1>1
<1>9. StackShape'
  <2>1. \A i \in 1 .. n - 1 : FrameShape(frames'[i])
    BY <1>1, <1>2, <1>8
  <2>2. ASSUME NEW i \in 1 .. n - 1, i > 1
        PROVE  Nested(i)'
    <3>1. i - 1 \in 1 .. n - 1 /\ n > 1
      BY <1>1, <2>2
    <3>2. frames'[i - 1] = frames[i - 1] /\ frames'[i] = frames[i] /\ frames'[1] = frames[1]
      BY <1>2, <1>7, <3>1
    <3>3. Nested(i)
      BY <1>1, <1>8, <2>2 DEF StackShape
    <3> QED BY <1>3, <3>2, <3>3 DEF Nested
  <2>3. Waiting' => Waiting /\ n > 1
    BY <1>1, <1>3 DEF Waiting
  <2>4. n > 1 => frames'[1].op # "quitdel" /\ (Waiting => frames'[1].pc \in JoinPcs)
    BY <1>1, <1>7 DEF StackShape
  <2>5. frames' # <<>> => n > 1
    BY <1>1, <1>2
  <2> QED BY <1>2, <2>1, <2>2, <2>3, <2>4, <2>5 DEF StackShape
<1>10. IndexShape'
  BY <1>3 DEF MembershipInv, IndexShape
<1>11. Used'
  <2> SUFFICES ASSUME NEW cp \in allocated, users[cp] = {}
               PROVE  \E i \in 1 .. n - 1 :
                        frames'[i].cp = cp /\ frames'[i].pc \in {"lostchannel", "adding"}
    BY <1>2, <1>3 DEF Used
  <2>1. PICK i \in 1 .. n : frames[i].cp = cp /\ frames[i].pc \in {"lostchannel", "adding"}
    BY <1>1 DEF MembershipInv, Used
  <2>2. i # n
    BY <1>1, <2>1
  <2> QED BY <1>2, <1>4, <2>1, <2>2
<1>12. HandlersChan'
  <2> SUFFICES ASSUME NEW i \in 1 .. n - 1
               PROVE  FrameChan(i)'
    BY <1>2 DEF HandlersChan
  <2>1. FrameChan(i) /\ frames'[i] = frames[i]
    BY <1>1, <1>2, <1>8
  <2> QED BY <1>3, <2>1 DEF FrameChan
<1>13. PendingShape'
  <2>1. CASE n = 1
    BY <1>3, <2>1 DEF MembershipInv, PendingShape, Waiting
  <2>2. CASE n > 1
    <3>1. ASSUME NEW k, KickShape(k)
          PROVE  KickShape(k)'
      BY <1>1, <1>2, <1>3, <1>7, <1>8, <2>2, <3>1 DEF KickShape
    <3> QED BY <1>3, <3>1, FewerKicks DEF MembershipInv
  <2> QED BY <1>1, <2>1, <2>2
<1>14. ServiceStays'
  <2>1. frames' # <<>> => n > 1
    BY <1>1, <1>2
  <2> QED BY <1>2, <1>3, <1>7, <2>1 DEF MembershipInv, ServiceStays, NeedsChannel
<1> QED BY <1>2, <1>9, <1>10, <1>11, <1>12, <1>13, <1>14

LEMMA PopInv ==
  ASSUME MembershipInv, frames # <<>>, Pop,
         UNCHANGED <<tables, pending, clearing>>,
         Len(frames) = 1 => ~Waiting,
         Top.pc \in JoinPcs \cup {"burst", "del"},
         Top.pc = "del" => Top.np \notin users[Top.cp]
  PROVE  MembershipInv'
<1> DEFINE n == Len(frames)
<1>1. /\ frames \in Seq(Frame) /\ TypeOK /\ StackShape
      /\ n \in Nat \ {0} /\ DOMAIN frames = 1 .. n /\ Top = frames[n]
      /\ 1 \in 1 .. n /\ n \in 1 .. n
      /\ \A i \in 1 .. n : FrameChan(i) /\ FrameShape(frames[i])
  BY TopFacts DEF MembershipInv, TypeOK, HandlersChan, StackShape
<1>2. /\ frames' \in Seq(Frame)
      /\ Len(frames') = n - 1 /\ DOMAIN frames' = 1 .. n - 1
      /\ \A i \in 1 .. n - 1 : frames'[i] = frames[i]
      /\ n > 1 => frames' # <<>> /\ Top' = frames[n - 1]
  BY <1>1, PopFacts
<1>3. UNCHANGED <<alive, channels, index, users, allocated, pendingkicklist, pendingkilllist, clearing>>
  BY DEF tables, pending
<1>4. \A i \in 1 .. n : i = n \/ i \in 1 .. n - 1
  <2>1. n \in Nat \ {0}
    BY <1>1
  <2> QED BY <2>1
<1>5. Top.op \notin {"zero", "quit"} /\ Top.pc \notin {"adding", "lostchannel"}
  BY <1>1 DEF FrameChan, FrameShape, JoinPcs, PartPcs
<1>6. /\ StackShape' /\ IndexShape' /\ Used' /\ HandlersChan' /\ PendingShape' /\ ServiceStays'
  BY <1>3, <1>5, PopRest
<1>7. TypeOK' /\ UsersAlive'
  BY <1>1, <1>2, <1>3 DEF TypeOK, MembershipInv, UsersAlive
<1>8. \A i \in 1 .. n - 1 : i \in 1 .. n
  BY <1>1
<1>9. Mirrored'
  <2>1. ASSUME NEW np \in Nicks, NEW cp \in Chans, Ending(np, cp)
        PROVE  Ending(np, cp)'
    <3>1. PICK i \in 1 .. n :
            /\ frames[i].np = np
            /\ \/ frames[i].cp = cp /\ frames[i].pc \in {"lostchannel", "deleted"}
                  /\ frames[i].op # "burst"
               \/ frames[i].op \in {"zero", "quit"}
      BY <1>1, <2>1 DEF Ending
    <3>2. i # n
      BY <1>1, <1>5, <3>1 DEF JoinPcs
    <3> QED BY <1>2, <1>4, <3>1, <3>2 DEF Ending
  <2> QED BY <1>3, <2>1 DEF MembershipInv, Mirrored, Listed
<1>10. Walks'
  <2> SUFFICES ASSUME NEW i \in 1 .. n - 1
               PROVE  Walked(i)'
    BY <1>2 DEF Walks
  <2>1. Walked(i) /\ frames'[i] = frames[i]
    BY <1>1, <1>2, <1>8 DEF MembershipInv, Walks
  <2>2. Top'.pc \notin LeavePcs
    <3>1. n - 1 \in 1 .. n - 1 /\ n > 1
      BY <1>1
    <3> QED BY <1>1, <1>2, <3>1, BelowTop DEF JoinPcs, LeavePcs
  <2>3. Top.pc \in LeavePcs => Top.np \notin users[Top.cp]
    BY DEF LeavePcs, JoinPcs
  <2> QED BY <1>3, <2>1, <2>2, <2>3 DEF Walked
<1> QED BY <1>6, <1>7, <1>9, <1>10 DEF MembershipInv

LEMMA AfterNewNickInv ==
  ASSUME MembershipInv, AfterNewNick
  PROVE  MembershipInv'
<1> DEFINE pc == IF Top.op = "burst" THEN "adding" ELSE IF Top.new THEN "newchannel" ELSE "join"
<1>1. /\ frames # <<>> /\ Top.pc = "newnick" /\ UNCHANGED clearing
      /\ Len(frames) = 1 => ~Waiting
  BY HookDoneFacts DEF AfterNewNick, MembershipInv
<1>2. Goto(pc) /\ UNCHANGED <<tables, pending>> /\ pc \in Pcs /\ pc \in {"adding", "newchannel", "join"}
  BY DEF AfterNewNick, Pcs, HookPcs
<1>3. /\ Top \in Frame /\ FrameShape(Top) /\ ~Top.stale /\ Top.op \notin {"zero", "quit"}
  <2>1. /\ Len(frames) \in DOMAIN frames /\ Top = frames[Len(frames)] /\ Top \in Frame
    BY <1>1, TopFacts DEF MembershipInv, TypeOK
  <2> QED BY <1>1, <2>1 DEF MembershipInv, StackShape, FrameShape, HandlersChan, FrameChan, PartPcs
<1>4. pc = "adding" <=> Top.op = "burst"
  OBVIOUS
<1>5. FrameShape([Top EXCEPT !.pc = pc])
  <2> HIDE DEF pc
  <2> QED BY <1>1, <1>2, <1>3, <1>4 DEF Frame, FrameShape, AddOps, DelOps, JoinPcs, BurstPcs, PartPcs
<1>6. Top.pc \notin LeavePcs /\ pc \notin LeavePcs
  BY <1>1 DEF LeavePcs
<1> HIDE DEF pc
<1> QED BY <1>1, <1>2, <1>3, <1>5, <1>6, GotoInv

LEMMA AfterNewChannelInv ==
  ASSUME MembershipInv, AfterNewChannel
  PROVE  MembershipInv'
<1>1. /\ frames # <<>> /\ Top.pc = "newchannel" /\ UNCHANGED <<tables, pending, clearing>>
      /\ Len(frames) = 1 => ~Waiting
  BY HookDoneFacts DEF AfterNewChannel, MembershipInv
<1>2. /\ Len(frames) \in DOMAIN frames /\ Top = frames[Len(frames)] /\ Top \in Frame
      /\ FrameShape(Top) /\ FrameChan(Len(frames)) /\ Top.op \notin {"zero", "quit"}
  <2>1. /\ Len(frames) \in DOMAIN frames /\ Top = frames[Len(frames)] /\ Top \in Frame
    BY <1>1, TopFacts DEF MembershipInv, TypeOK
  <2> QED BY <1>1, <2>1 DEF MembershipInv, StackShape, FrameShape, HandlersChan, PartPcs
<1>3. ASSUME NEW pc \in {"join", "burst"}, Goto(pc), ~Top.stale,
             pc = "burst" <=> Top.op = "burst"
      PROVE  MembershipInv'
  <2>1. FrameShape([Top EXCEPT !.pc = pc])
    BY <1>1, <1>2, <1>3 DEF Frame, FrameShape, AddOps, DelOps, JoinPcs, BurstPcs, PartPcs
  <2>2. pc \in Pcs /\ pc \notin LeavePcs /\ Top.pc \notin LeavePcs
    BY <1>1 DEF Pcs, HookPcs, LeavePcs
  <2> QED BY <1>1, <1>2, <1>3, <2>1, <2>2, GotoInv
<1>4. CASE Top.op = "join" /\ \E n \in Names : index[n] = Top.cp
  <2>1. Top.cp \in Chans
    BY <1>1, <1>2 DEF FrameShape
  <2>2. ~Top.stale
    BY <1>2, <1>4, <2>1 DEF FrameChan, MembershipInv, IndexShape
  <2>3. Goto("join")
    BY <1>4 DEF AfterNewChannel
  <2> QED BY <1>3, <1>4, <2>2, <2>3
<1>5. CASE Top.op = "burst"
  <2>1. ~Top.stale
    BY <1>2, <1>5 DEF FrameChan
  <2>2. Goto("burst")
    BY <1>5 DEF AfterNewChannel
  <2> QED BY <1>3, <1>5, <2>1, <2>2
<1>6. CASE Pop
  BY <1>1, <1>6, PopInv DEF JoinPcs
<1> QED BY <1>4, <1>5, <1>6 DEF AfterNewChannel

LEMMA LastHookInv ==
  ASSUME MembershipInv, LastHook
  PROVE  MembershipInv'
<1>1. /\ frames # <<>> /\ Top.pc \in {"join", "burst"} /\ UNCHANGED <<tables, pending, clearing>>
      /\ Len(frames) = 1 => ~Waiting
  BY HookDoneFacts DEF LastHook, MembershipInv
<1>2. Pop
  BY DEF LastHook
<1> QED BY <1>1, <1>2, PopInv DEF JoinPcs

LEMMA AfterPartInv ==
  ASSUME MembershipInv, AfterPart
  PROVE  MembershipInv'
<1>1. /\ frames # <<>> /\ Top.pc \in {"part", "kick"} /\ UNCHANGED <<tables, pending, clearing>>
      /\ Len(frames) = 1 => ~Waiting
  BY HookDoneFacts DEF AfterPart, MembershipInv
<1>2. /\ Len(frames) \in DOMAIN frames /\ Top = frames[Len(frames)] /\ Top \in Frame
      /\ FrameShape(Top) /\ FrameChan(Len(frames))
  BY <1>1, TopFacts DEF MembershipInv, TypeOK, StackShape, HandlersChan
<1>3. Goto("del") /\ "del" \in Pcs
  BY DEF AfterPart, Pcs
<1>4. ~Top.stale /\ (Top.op = "zero" => Top.np \in users[Top.cp])
  BY <1>1, <1>2 DEF FrameChan, FrameShape, PartPcs
<1>5. FrameShape([Top EXCEPT !.pc = "del"])
  BY <1>1, <1>2 DEF Frame, FrameShape, AddOps, DelOps, JoinPcs, BurstPcs, PartPcs
<1>6. "del" \in LeavePcs /\ Top.pc \in LeavePcs /\ Top.op # "quit"
  BY <1>1, <1>2 DEF LeavePcs, FrameShape
<1> QED BY <1>1, <1>3, <1>4, <1>5, <1>6, GotoInv

LEMMA delnickfromchannelInv ==
  ASSUME MembershipInv, delnickfromchannel
  PROVE  MembershipInv'
<1>1. /\ frames # <<>> /\ Top.pc = "del" /\ UNCHANGED <<tables, pending, clearing>>
  BY DEF delnickfromchannel, Idle
<1>2. /\ Len(frames) \in DOMAIN frames /\ Top = frames[Len(frames)] /\ Top \in Frame
      /\ FrameShape(Top) /\ FrameChan(Len(frames)) /\ StackShape
  BY <1>1, TopFacts DEF MembershipInv, TypeOK, StackShape, HandlersChan
<1>3. Len(frames) = 1 => ~Waiting
  BY <1>1, <1>2 DEF StackShape, JoinPcs
<1>4. CASE Top.np \in users[Top.cp]
  <2>1. Goto("lostnick") /\ "lostnick" \in Pcs
    BY <1>4 DEF delnickfromchannel, Pcs, HookPcs
  <2>2. ~Top.stale
    BY <1>1, <1>2 DEF FrameChan
  <2>3. FrameShape([Top EXCEPT !.pc = "lostnick"])
    BY <1>1, <1>2 DEF Frame, FrameShape, AddOps, DelOps, JoinPcs, BurstPcs, PartPcs
  <2>4. "lostnick" \in LeavePcs /\ Top.pc \in LeavePcs /\ Top.op # "quit"
    BY <1>1, <1>2 DEF LeavePcs, FrameShape
  <2> QED BY <1>1, <1>3, <1>4, <2>1, <2>2, <2>3, <2>4, GotoInv
<1>5. CASE Top.np \notin users[Top.cp]
  <2>1. Pop
    BY <1>5 DEF delnickfromchannel
  <2> QED BY <1>1, <1>3, <1>5, <2>1, PopInv
<1> QED BY <1>4, <1>5

-----------------------------------------------------------------------------
(* The only handler goes on. *)

LEMMA NoHandlers ==
  ASSUME frames' = <<>>, ~Waiting', Tables', clearing' \in BOOLEAN, IndexShape', UsersAlive',
         \A cp \in allocated' : users'[cp] # {},
         \A np \in Nicks, cp \in Chans : np \in users'[cp] <=> Listed(np, cp)'
  PROVE  MembershipInv'
<1>1. DOMAIN frames' = {} /\ frames' \in Seq(Frame)
  OBVIOUS
<1>2. pendingkicklist' = <<>> /\ pendingkilllist' = {} /\ DOMAIN pendingkicklist' = {}
  BY DEF Waiting
<1>3. TypeOK'
  BY <1>1, <1>2 DEF TypeOK, Tables
<1>4. StackShape' /\ Used' /\ HandlersChan' /\ ServiceStays' /\ Walks'
  BY <1>1 DEF StackShape, Used, HandlersChan, ServiceStays, Walks
<1>5. PendingShape'
  BY <1>2 DEF PendingShape
<1>6. Mirrored'
  BY DEF Mirrored
<1> QED BY <1>3, <1>4, <1>5, <1>6 DEF MembershipInv

LEMMA OneHandler ==
  ASSUME frames' \in Seq(Frame), frames' # <<>>, DOMAIN frames' = {1}, Len(frames') = 1,
         ~Waiting', Tables', clearing' \in BOOLEAN, IndexShape', UsersAlive',
         FrameShape(frames'[1]), frames'[1].op # "quitdel",
         \A cp \in allocated' : users'[cp] = {} =>
           frames'[1].cp = cp /\ frames'[1].pc \in {"lostchannel", "adding"},
         FrameChan(1)', Mirrored', Walked(1)'
  PROVE  MembershipInv'
<1>2. pendingkicklist' = <<>> /\ pendingkilllist' = {} /\ DOMAIN pendingkicklist' = {}
  BY DEF Waiting
<1>3. TypeOK'
  BY <1>2 DEF TypeOK, Tables
<1>4. StackShape' /\ Used' /\ HandlersChan' /\ ServiceStays' /\ Walks'
  BY DEF StackShape, Used, HandlersChan, ServiceStays, Walks
<1>5. PendingShape'
  BY <1>2 DEF PendingShape
<1> QED BY <1>3, <1>4, <1>5 DEF MembershipInv

\* A burst is never inside of a hook.
LEMMA BurstFacts ==
  ASSUME MembershipInv, frames # <<>>, Top.op = "burst"
  PROVE  /\ Len(frames) = 1 /\ DOMAIN frames = {1} /\ Top = frames[1] /\ frames \in Seq(Frame)
         /\ Tables /\ FrameShape(Top) /\ FrameChan(1)
         /\ Top.cp \in Chans /\ ~Top.stale /\ Top.cp \in allocated
         /\ Top.pc \in {"adding", "lostchannel"} => ~Waiting
         /\ \A np \in Nicks, cp \in Chans : np \in users[cp] <=> Listed(np, cp)
         /\ \A cp \in allocated : users[cp] = {} => cp = Top.cp
<1>1. /\ frames \in Seq(Frame) /\ TypeOK /\ StackShape
      /\ Len(frames) \in Nat \ {0} /\ DOMAIN frames = 1 .. Len(frames)
      /\ Top = frames[Len(frames)] /\ Len(frames) \in DOMAIN frames
  BY TopFacts DEF MembershipInv, TypeOK
<1>2. Len(frames) = 1
  <2>1. Len(frames) > 1 => Nested(Len(frames))
    BY <1>1 DEF StackShape
  <2> QED BY <1>1, <2>1 DEF Nested
<1>3. DOMAIN frames = {1} /\ Top = frames[1]
  BY <1>1, <1>2
<1>4. FrameShape(Top) /\ FrameChan(1)
  BY <1>3 DEF MembershipInv, StackShape, HandlersChan
<1>5. Top.pc \in BurstPcs /\ Top.cp \in Chans /\ ~Top.stale /\ Top.cp \in allocated
  BY <1>3, <1>4 DEF FrameShape, FrameChan, BurstPcs
<1>6. Top.pc \in {"adding", "lostchannel"} => ~Waiting
  BY <1>1, <1>3 DEF StackShape, JoinPcs
<1>7. \A np \in Nicks, cp \in Chans : np \in users[cp] <=> Listed(np, cp)
  BY <1>3 DEF MembershipInv, Mirrored, Ending
<1>8. \A cp \in allocated : users[cp] = {} => cp = Top.cp
  BY <1>3 DEF MembershipInv, Used
<1>9. Tables
  BY <1>1 DEF TypeOK, Tables
<1> QED BY <1>1, <1>2, <1>3, <1>4, <1>5, <1>6, <1>7, <1>8, <1>9

LEMMA BurstUserInv ==
  ASSUME MembershipInv, NEW np \in Nicks, BurstUser(np)
  PROVE  MembershipInv'
<1> DEFINE cp == Top.cp
<1>1. /\ frames # <<>> /\ Top.pc = "adding" /\ np \in alive \ users[cp] /\ Add(cp, np)
      /\ Goto("newnick") /\ "newnick" \in Pcs
      /\ UNCHANGED <<alive, index, allocated, pending, clearing>>
  BY DEF BurstUser, Idle, Pcs, HookPcs
<1>2. Top.op = "burst"
  <2>1. /\ Len(frames) \in DOMAIN frames /\ Top = frames[Len(frames)] /\ Top \in Frame
    BY <1>1, TopFacts DEF MembershipInv, TypeOK
  <2>2. FrameShape(Top)
    BY <2>1 DEF MembershipInv, StackShape
  <2> QED BY <1>1, <2>1, <2>2
         DEF FrameShape, Frame, Ops, AddOps, DelOps, JoinPcs, PartPcs
<1>3. /\ Len(frames) = 1 /\ DOMAIN frames = {1} /\ Top = frames[1] /\ frames \in Seq(Frame)
      /\ Tables /\ FrameShape(frames[1]) /\ cp \in Chans /\ ~Top.stale /\ cp \in allocated /\ ~Waiting
      /\ \A x \in Nicks, c \in Chans : x \in users[c] <=> Listed(x, c)
      /\ \A c \in allocated : users[c] = {} => c = cp
  BY <1>1, <1>2, BurstFacts
<1>4. /\ frames' \in Seq(Frame) /\ frames' # <<>> /\ Len(frames') = 1 /\ DOMAIN frames' = {1}
      /\ frames'[1].op = "burst" /\ frames'[1].cp = cp /\ frames'[1].pc = "newnick"
      /\ frames'[1].i = frames[1].i /\ ~frames'[1].stale
  BY <1>1, <1>2, <1>3, GotoFacts
<1> HIDE DEF cp
<1>5. ~Listed(np, cp)
  BY <1>1, <1>3
<1>6. /\ channels' \in [Nicks -> Seq(Chans)]
      /\ \A x \in Nicks : IsInjective(channels'[x])
      /\ users' \in [Chans -> SUBSET Nicks]
      /\ \A x \in Nicks, c \in Chans : Listed(x, c)' <=> Listed(x, c) \/ (x = np /\ c = cp)
      /\ \A x \in Nicks, c \in Chans : x \in users'[c] <=> x \in users[c] \/ (x = np /\ c = cp)
  BY <1>1, <1>3, <1>5, AddFacts
<1>7. Tables'
  BY <1>1, <1>3, <1>6 DEF Tables
<1>8. Mirrored'
  BY <1>3, <1>6 DEF Mirrored
<1>9. ASSUME NEW c \in Chans, NEW x \in users'[c]
      PROVE  c \in allocated /\ x \in alive
  <2>1. x \in Nicks /\ (x \in users[c] \/ (x = np /\ c = cp))
    BY <1>6
  <2>2. CASE x \in users[c]
    BY <2>2 DEF MembershipInv, IndexShape, UsersAlive
  <2>3. CASE x = np /\ c = cp
    BY <1>1, <1>3, <2>3
  <2> QED BY <2>1, <2>2, <2>3
<1>10. IndexShape'
  <2>1. \A c \in Chans : users'[c] # {} => c \in allocated
    BY <1>9
  <2> QED BY <1>1, <2>1 DEF MembershipInv, IndexShape
<1>11. UsersAlive'
  BY <1>1, <1>9 DEF UsersAlive
<1>12. \A c \in allocated' : users'[c] # {}
  <2> SUFFICES ASSUME NEW c \in allocated
               PROVE  users'[c] # {}
    BY <1>1
  <2>1. c \in Chans /\ users[c] \subseteq Nicks
    BY <1>3 DEF Tables
  <2>2. CASE c = cp
    BY <1>6, <2>1, <2>2
  <2>3. CASE c # cp
    BY <1>3, <1>6, <2>1, <2>3
  <2> QED BY <2>2, <2>3
<1>13. ~Waiting' /\ clearing' \in BOOLEAN
  BY <1>1, <1>3 DEF Waiting, pending, MembershipInv, TypeOK
<1>14. FrameShape(frames'[1]) /\ FrameChan(1)' /\ Walked(1)'
  BY <1>1, <1>3, <1>4 DEF FrameShape, FrameChan, Walked, AddOps, DelOps, BurstPcs
<1> QED BY <1>4, <1>7, <1>8, <1>10, <1>11, <1>12, <1>13, <1>14, OneHandler

\* delchannel() of a channel without users.
LEMMA delchannelFacts ==
  ASSUME MembershipAssumption, Tables, IndexShape, NEW cp \in allocated, users[cp] = {},
         delchannel(cp)
  PROVE  /\ UNCHANGED users
         /\ allocated' = allocated \ {cp}
         /\ UNCHANGED <<alive, channels>> => Tables' /\ IndexShape'
         /\ pendingkicklist = <<>> => pendingkicklist' = <<>>
<1> DEFINE n == NameOf(cp)
<1>1. /\ cp \in Chans /\ NULL \notin Chans
      /\ index \in [Names -> Chans \cup {NULL}] /\ users \in [Chans -> SUBSET Nicks]
  BY DEF Tables, MembershipAssumption
<1>2. n \in Names /\ index[n] = cp
  BY <1>1 DEF IndexShape, NameOf
<1> HIDE DEF n
<1>3. /\ index' = [index EXCEPT ![n] = NULL] /\ allocated' = allocated \ {cp}
      /\ users' = [users EXCEPT ![cp] = {}]
  BY DEF delchannel, n
<1>4. users' = users
  BY <1>1, <1>3
<1>5. /\ index' \in [Names -> Chans \cup {NULL}]
      /\ \A m \in Names : index'[m] = IF m = n THEN NULL ELSE index[m]
  BY <1>1, <1>2, <1>3
<1>6. ASSUME NEW c \in Chans
      PROVE  c \in allocated' <=> \E m \in Names : index'[m] = c
  <2>1. CASE c = cp
    <3>1. \A m \in Names : index[m] = cp => m = n
      BY <1>1, <1>2 DEF IndexShape
    <3> QED BY <1>1, <1>3, <1>5, <2>1, <3>1
  <2>2. CASE c # cp
    <3>1. c \in allocated' <=> \E m \in Names : index[m] = c
      BY <1>3, <2>2 DEF IndexShape
    <3>2. \A m \in Names : index'[m] = c <=> index[m] = c
      BY <1>1, <1>2, <1>5, <2>2
    <3> QED BY <3>1, <3>2
  <2> QED BY <2>1, <2>2
<1>7. \A k, m \in Names : index'[k] = index'[m] /\ index'[k] # NULL => k = m
  BY <1>5 DEF IndexShape
<1>8. \A c \in Chans : users'[c] # {} => c \in allocated'
  BY <1>3, <1>4 DEF IndexShape
<1>9. IndexShape'
  BY <1>6, <1>7, <1>8 DEF IndexShape
<1>10. UNCHANGED <<alive, channels>> => Tables'
  BY <1>3, <1>4, <1>5 DEF Tables
<1>11. pendingkicklist = <<>> => pendingkicklist' = <<>>
  BY DEF delchannel, StaleKicks
<1> QED BY <1>3, <1>4, <1>9, <1>10, <1>11

\* A burst that has freed its channel.
LEMMA BurstFreed ==
  ASSUME MembershipAssumption, MembershipInv, frames # <<>>, Top.op = "burst",
         Top.pc \in {"adding", "lostchannel"}, users[Top.cp] = {}, delchannel(Top.cp),
         frames' = <<>>, UNCHANGED <<alive, channels, pendingkilllist, clearing>>
  PROVE  MembershipInv'
<1> DEFINE cp == Top.cp
<1>1. /\ Tables /\ cp \in Chans /\ cp \in allocated /\ ~Waiting /\ IndexShape
      /\ \A x \in Nicks, c \in Chans : x \in users[c] <=> Listed(x, c)
      /\ \A c \in allocated : users[c] = {} => c = cp
  BY BurstFacts DEF MembershipInv
<1> HIDE DEF cp
<1>2. /\ UNCHANGED users /\ allocated' = allocated \ {cp} /\ Tables' /\ IndexShape'
      /\ pendingkicklist' = <<>>
  BY <1>1, delchannelFacts DEF cp, Waiting
<1>3. ~Waiting' /\ clearing' \in BOOLEAN
  BY <1>1, <1>2 DEF Waiting, MembershipInv, TypeOK
<1>4. UsersAlive'
  BY <1>2 DEF MembershipInv, UsersAlive
<1>5. \A c \in allocated' : users'[c] # {}
  BY <1>1, <1>2
<1>6. \A x \in Nicks, c \in Chans : x \in users'[c] <=> Listed(x, c)'
  BY <1>1, <1>2 DEF Listed
<1> QED BY <1>2, <1>3, <1>4, <1>5, <1>6, NoHandlers

LEMMA BurstDoneInv ==
  ASSUME MembershipAssumption, MembershipInv, BurstDone
  PROVE  MembershipInv'
<1> DEFINE cp == Top.cp
<1>1. /\ frames # <<>> /\ Top.pc = "adding" /\ UNCHANGED <<alive, channels, pendingkilllist, clearing>>
  BY DEF BurstDone, Idle
<1>2. Top.op = "burst"
  <2>1. /\ Len(frames) \in DOMAIN frames /\ Top = frames[Len(frames)] /\ Top \in Frame
    BY <1>1, TopFacts DEF MembershipInv, TypeOK
  <2>2. FrameShape(Top)
    BY <2>1 DEF MembershipInv, StackShape
  <2> QED BY <1>1, <2>1, <2>2
         DEF FrameShape, Frame, Ops, AddOps, DelOps, JoinPcs, PartPcs
<1>3. /\ Len(frames) = 1 /\ DOMAIN frames = {1} /\ Top = frames[1] /\ frames \in Seq(Frame)
      /\ Tables /\ FrameShape(frames[1]) /\ cp \in Chans /\ ~Top.stale /\ cp \in allocated /\ ~Waiting
      /\ \A x \in Nicks, c \in Chans : x \in users[c] <=> Listed(x, c)
      /\ \A c \in allocated : users[c] = {} => c = cp
  BY <1>1, <1>2, BurstFacts
<1>4. CASE users[cp] = {} /\ Top.new
  <2>1. delchannel(cp) /\ Pop
    BY <1>4 DEF BurstDone
  <2>2. frames' = <<>>
    BY <1>1, <1>3, <2>1, PopFacts
  <2> QED BY <1>1, <1>2, <1>4, <2>1, <2>2, BurstFreed
<1>5. CASE users[cp] # {} \/ ~Top.new
  <2> DEFINE pc == IF users[cp] = {} THEN "lostchannel" ELSE IF Top.new THEN "newchannel" ELSE "burst"
  <2>1. Goto(pc) /\ pc \in Pcs /\ UNCHANGED <<index, users, allocated>>
    BY <1>5 DEF BurstDone, Pcs, HookPcs
  <2>2. pendingkicklist' = <<>>
    BY <1>3, <1>5 DEF BurstDone, checkpendingkickchannels, Waiting
  <2>3. pc \in {"lostchannel", "newchannel", "burst"} /\ (pc = "lostchannel" <=> users[cp] = {})
    OBVIOUS
  <2> HIDE DEF pc, cp
  <2>4. /\ frames' \in Seq(Frame) /\ frames' # <<>> /\ Len(frames') = 1 /\ DOMAIN frames' = {1}
        /\ frames'[1].op = "burst" /\ frames'[1].cp = cp /\ frames'[1].pc = pc
        /\ frames'[1].i = frames[1].i /\ ~frames'[1].stale
    BY <1>1, <1>2, <1>3, <2>1, GotoFacts DEF cp
  <2>5. Tables' /\ IndexShape' /\ UsersAlive'
    BY <1>1, <1>3, <2>1 DEF Tables, MembershipInv, IndexShape, UsersAlive
  <2>6. Mirrored'
    BY <1>1, <1>3, <2>1 DEF Mirrored, Listed
  <2>7. \A c \in allocated' : users'[c] = {} =>
          frames'[1].cp = c /\ frames'[1].pc \in {"lostchannel", "adding"}
    BY <1>3, <2>1, <2>3, <2>4
  <2>8. ~Waiting' /\ clearing' \in BOOLEAN
    BY <1>1, <1>3, <2>2 DEF Waiting, MembershipInv, TypeOK
  <2>9. FrameShape(frames'[1]) /\ FrameChan(1)' /\ Walked(1)'
    BY <1>3, <2>1, <2>3, <2>4 DEF FrameShape, FrameChan, Walked, AddOps, DelOps, BurstPcs
  <2> QED BY <2>4, <2>5, <2>6, <2>7, <2>8, <2>9, OneHandler
<1> QED BY <1>4, <1>5

\* A walk for channel "0" is never inside of a hook.
LEMMA ZeroFacts ==
  ASSUME MembershipInv, frames # <<>>, Top.op = "zero"
  PROVE  /\ Len(frames) = 1 /\ DOMAIN frames = {1} /\ Top = frames[1] /\ frames \in Seq(Frame)
         /\ Top \in Frame /\ Tables /\ FrameShape(Top) /\ FrameChan(1) /\ Walked(1)
         /\ ~Waiting /\ Top.np \in Nicks /\ ~Top.stale
         /\ Top.pc # "lostchannel" => \A cp \in allocated : users[cp] # {}
<1>1. /\ frames \in Seq(Frame) /\ TypeOK /\ StackShape
      /\ Len(frames) \in Nat \ {0} /\ DOMAIN frames = 1 .. Len(frames)
      /\ Top = frames[Len(frames)] /\ Len(frames) \in DOMAIN frames /\ Top \in Frame
  BY TopFacts DEF MembershipInv, TypeOK
<1>2. Len(frames) = 1
  <2>1. Len(frames) > 1 => Nested(Len(frames))
    BY <1>1 DEF StackShape
  <2> QED BY <1>1, <2>1 DEF Nested
<1>3. DOMAIN frames = {1} /\ Top = frames[1]
  BY <1>1, <1>2
<1>4. FrameShape(Top) /\ FrameChan(1) /\ Walked(1)
  BY <1>3 DEF MembershipInv, StackShape, HandlersChan, Walks
<1>5. Top.pc \notin JoinPcs /\ Top.np \in Nicks /\ ~Top.stale
  BY <1>3, <1>4 DEF FrameShape, FrameChan, PartPcs, JoinPcs
<1>6. ~Waiting
  BY <1>1, <1>3, <1>5 DEF StackShape
<1>7. Top.pc # "lostchannel" => \A cp \in allocated : users[cp] # {}
  BY <1>3, <1>4 DEF MembershipInv, Used, FrameShape, PartPcs
<1>8. Tables
  BY <1>1 DEF TypeOK, Tables
<1> QED BY <1>1, <1>2, <1>3, <1>4, <1>5, <1>6, <1>7, <1>8

LEMMA NextZeroInv ==
  ASSUME MembershipInv, NextZero
  PROVE  MembershipInv'
<1> DEFINE np == Top.np
           a == channels[np]
<1>1. frames # <<>> /\ Top.pc = "next" /\ UNCHANGED <<alive, index, users, allocated, pending, clearing>>
  BY DEF NextZero, Idle
<1>2. Top.op = "zero"
  <2>1. /\ Len(frames) \in DOMAIN frames /\ Top = frames[Len(frames)] /\ Top \in Frame
    BY <1>1, TopFacts DEF MembershipInv, TypeOK
  <2>2. FrameShape(Top)
    BY <2>1 DEF MembershipInv, StackShape
  <2> QED BY <1>1, <2>1, <2>2
         DEF FrameShape, Frame, Ops, AddOps, DelOps, JoinPcs, PartPcs, BurstPcs
<1>3. /\ Len(frames) = 1 /\ DOMAIN frames = {1} /\ Top = frames[1] /\ frames \in Seq(Frame)
      /\ Top \in Frame /\ Tables /\ FrameShape(Top) /\ Walked(1)
      /\ ~Waiting /\ np \in Nicks /\ ~Top.stale
      /\ \A c \in allocated : users[c] # {}
  BY <1>1, <1>2, ZeroFacts
<1>4. /\ a \in Seq(Chans) /\ Len(a) \in Nat /\ DOMAIN a = 1 .. Len(a)
      /\ Top.i \in Nat /\ Top.i >= 1
  <2>1. a \in Seq(Chans) /\ Top.i \in Nat /\ Top.i >= 1
    BY <1>3 DEF Tables, FrameShape, Frame
  <2> HIDE DEF a
  <2> QED BY <2>1
<1>5. /\ \A j \in DOMAIN a : j >= Top.i => np \in users[a[j]]
      /\ \A j \in DOMAIN a : j < Top.i => np \notin users[a[j]]
  BY <1>1, <1>2, <1>3 DEF Walked, LeavePcs
<1>6. \A x \in Nicks, c \in Chans : Ending(x, c) <=> x = np
  BY <1>1, <1>2, <1>3 DEF Ending
<1>7. IndexShape' /\ UsersAlive'
  BY <1>1 DEF MembershipInv, IndexShape, UsersAlive
<1>8. ~Waiting' /\ clearing' \in BOOLEAN
  BY <1>1, <1>3 DEF Waiting, pending, MembershipInv, TypeOK
<1>9. CASE Top.i <= Len(a)
  <2> DEFINE c == a[Top.i]
             f == [Top EXCEPT !.pc = "part", !.cp = c, !.i = @ + 1]
  <2>1. frames' = Front(frames) \o <<f>> /\ UNCHANGED channels
    BY <1>9 DEF NextZero
  <2>2. Top.i \in DOMAIN a /\ c \in Chans /\ np \in users[c]
    <3> HIDE DEF a
    <3>1. Top.i \in 1 .. Len(a)
      BY <1>4, <1>9
    <3> QED BY <1>4, <1>5, <3>1
  <2>3. c \in allocated
    BY <2>2 DEF MembershipInv, IndexShape
  <2> HIDE DEF c
  <2>4. /\ f \in Frame /\ f.op = "zero" /\ f.pc = "part" /\ f.np = np /\ f.cp = c /\ f.i = Top.i + 1
        /\ ~f.stale
    <3>1. "part" \in Pcs /\ Top.i + 1 \in Nat
      BY <1>4 DEF Pcs, HookPcs
    <3> QED BY <1>2, <1>3, <2>2, <3>1 DEF Frame
  <2> HIDE DEF f
  <2>5. /\ frames' \in Seq(Frame) /\ Len(frames') = 1 /\ DOMAIN frames' = {1}
        /\ frames'[1] = f /\ frames' # <<>> /\ Top' = f
    <3>1. /\ frames' \in Seq(Frame) /\ Len(frames') = 1 /\ DOMAIN frames' = 1 .. 1 /\ frames'[1] = f
      BY <1>1, <1>3, <2>1, <2>4, ReplaceFacts
    <3> QED BY <3>1 DEF Top, Last
  <2>6. FrameShape(frames'[1]) /\ FrameChan(1)'
    BY <1>1, <1>3, <1>4, <2>2, <2>3, <2>4, <2>5 DEF FrameShape, FrameChan, AddOps, DelOps, PartPcs
  <2>7. Walked(1)'
    <3>1. ASSUME NEW j \in DOMAIN a
          PROVE  /\ j >= Top.i + 1 => np \in users[a[j]]
                 /\ j < Top.i + 1 /\ np \in users[a[j]] => j = Top.i
      <4> HIDE DEF a
      <4>1. j \in Nat
        BY <1>4
      <4> QED BY <1>4, <1>5, <4>1
    <3>2. c = a[Top.i] /\ Top.i < Top.i + 1 /\ (Top.i + 1) - 1 = Top.i /\ Top.i \in DOMAIN a
      BY <1>4, <2>2 DEF c
    <3>3. channels'[np] = a /\ users' = users
      BY <1>1, <2>1
    <3> HIDE DEF a, np
    <3> QED BY <2>4, <2>5, <3>1, <3>2, <3>3 DEF Walked, LeavePcs
  <2>8. Mirrored'
    <3>1. \A x \in Nicks, d \in Chans : Ending(x, d) => Ending(x, d)'
      BY <1>6, <2>4, <2>5 DEF Ending
    <3> QED BY <1>1, <2>1, <3>1 DEF MembershipInv, Mirrored, Listed
  <2>9. Tables'
    BY <1>1, <1>3, <2>1 DEF Tables
  <2>10. \A d \in allocated' : users'[d] # {}
    BY <1>1, <1>3
  <2> QED BY <1>7, <1>8, <2>4, <2>5, <2>6, <2>7, <2>8, <2>9, <2>10, OneHandler
<1>10. CASE ~(Top.i <= Len(a))
  <2>1. Pop /\ channels' = [channels EXCEPT ![np] = <<>>]
    BY <1>10 DEF NextZero
  <2>2. frames' = <<>>
    BY <1>1, <1>3, <2>1, PopFacts
  <2>3. ASSUME NEW c \in Chans
        PROVE  np \notin users[c]
    <3>1. \A j \in DOMAIN a : np \notin users[a[j]]
      <4> HIDE DEF a
      <4>1. \A j \in DOMAIN a : j < Top.i
        BY <1>4, <1>10
      <4> QED BY <1>5, <4>1
    <3> QED BY <1>3, <3>1 DEF MembershipInv, Mirrored, Listed
  <2>4. /\ channels' \in [Nicks -> Seq(Chans)] /\ channels'[np] = <<>>
        /\ \A x \in Nicks : x # np => channels'[x] = channels[x]
    BY <1>3, <2>1 DEF Tables
  <2>5. Tables'
    <3>1. ASSUME NEW x \in Nicks
          PROVE  IsInjective(channels'[x])
      <4>1. CASE x = np
        <5>1. DOMAIN channels'[x] = {}
          BY <2>4, <4>1
        <5> QED BY <5>1 DEF IsInjective
      <4>2. CASE x # np
        BY <1>3, <2>4, <4>2 DEF Tables
      <4> QED BY <4>1, <4>2
    <3> QED BY <1>1, <1>3, <2>4, <3>1 DEF Tables
  <2>6. ASSUME NEW x \in Nicks, NEW c \in Chans
        PROVE  x \in users'[c] <=> Listed(x, c)'
    <3>1. CASE x = np
      BY <1>1, <2>3, <2>4, <3>1 DEF Listed
    <3>2. CASE x # np
      BY <1>1, <1>6, <2>4, <3>2 DEF MembershipInv, Mirrored, Listed
    <3> QED BY <3>1, <3>2
  <2>7. \A d \in allocated' : users'[d] # {}
    BY <1>1, <1>3
  <2> QED BY <1>7, <1>8, <2>2, <2>5, <2>6, <2>7, NoHandlers
<1> QED BY <1>9, <1>10

-----------------------------------------------------------------------------
(* A user leaves a channel. *)

\* Below a handler that takes somebody off a channel: the one that runs hooks about a join,
\* which is the outermost one, and a nick that leaves the network.
LEMMA LeaverStack ==
  ASSUME TypeOK, StackShape, frames # <<>>, Top.pc \in PartPcs
  PROVE  /\ \A i \in 1 .. Len(frames) - 1 :
              IF frames[i].pc \in JoinPcs THEN i = 1 ELSE frames[i].cp = NULL
         /\ Len(frames) > 1 /\ frames[1].pc \in JoinPcs => Top.np \notin Services
         /\ Top.op \in DelOps \cup {"zero", "burst"}
<1> DEFINE n == Len(frames)
<1>1. /\ n \in Nat \ {0} /\ DOMAIN frames = 1 .. n /\ Top = frames[n]
      /\ 1 \in 1 .. n /\ n \in 1 .. n /\ \A i \in 1 .. n : frames[i] \in Frame
  BY TopFacts DEF TypeOK
<1>2. \A i \in 1 .. n : FrameShape(frames[i]) /\ (i > 1 => Nested(i))
  BY <1>1 DEF StackShape
<1>3. \A i \in 1 .. n - 1 : frames[i].pc \in JoinPcs \cup {"nicklost"}
  BY BelowTop
<1>4. Top.op \in DelOps \cup {"zero", "burst"}
  BY <1>1, <1>2 DEF FrameShape, Frame, Ops, AddOps, DelOps, JoinPcs, PartPcs
<1>5. ASSUME NEW i \in 1 .. n - 1, frames[i].pc \notin JoinPcs
      PROVE  frames[i].cp = NULL /\ frames[i].op = "quit"
  <2>1. i \in 1 .. n /\ frames[i].pc = "nicklost"
    BY <1>1, <1>3, <1>5
  <2> QED BY <1>1, <1>2, <2>1
         DEF FrameShape, Frame, Ops, AddOps, DelOps, JoinPcs, PartPcs, BurstPcs
<1>6. CASE n = 1
  BY <1>4, <1>6
<1>7. CASE n > 1
  <2>1. Nested(n) /\ Top.op # "localjoin" /\ Top.op # "quit"
    BY <1>1, <1>2, <1>4, <1>7 DEF DelOps
  <2>2. CASE n = 2 /\ Top.np \notin Services
    BY <1>1, <1>4, <1>5, <2>2
  <2>3. CASE frames[n - 1].op = "quit" /\ Top.np = frames[n - 1].np
    <3>1. n - 1 \in 1 .. n /\ n - 1 \in 1 .. n - 1
      BY <1>1, <1>7
    <3>2. frames[n - 1].pc \notin JoinPcs
      BY <1>2, <2>3, <3>1 DEF FrameShape, JoinPcs
    <3>3. CASE n - 1 = 1
      <4>1. \A i \in 1 .. n - 1 : i = 1
        BY <3>3
      <4> QED BY <1>4, <1>5, <3>2, <3>3, <4>1
    <3>4. CASE n - 1 > 1
      <4>1. n - 1 = 2 /\ Top.np \notin Services
        BY <1>1, <1>2, <2>3, <3>1, <3>4 DEF Nested
      <4>2. ASSUME NEW i \in 1 .. n - 1
            PROVE  i = 1 \/ i = n - 1
        <5>1. n - 1 = 2
          BY <4>1
        <5> HIDE DEF n
        <5> QED BY <5>1
      <4> QED BY <1>4, <1>5, <3>2, <4>1, <4>2
    <3>5. n - 1 = 1 \/ n - 1 > 1
      <4>1. n \in Nat
        BY <1>1
      <4> HIDE DEF n
      <4> QED BY <1>7, <4>1
    <3> QED BY <3>3, <3>4, <3>5
  <2> QED BY <1>1, <2>1, <2>2, <2>3 DEF Nested
<1> QED BY <1>1, <1>6, <1>7

\* The kicks that wait, one by one.
LEMMA KicksKept ==
  ASSUME PendingShape, pendingkilllist' \subseteq pendingkilllist,
         DOMAIN pendingkicklist' = DOMAIN pendingkicklist,
         \A i \in DOMAIN pendingkicklist : \A k, k2 :
           k = pendingkicklist[i] /\ KickShape(k) /\ k2 = pendingkicklist'[i] => KickShape(k2)'
  PROVE  PendingShape'
<1>1. ASSUME NEW i \in DOMAIN pendingkicklist', NEW k2, k2 = pendingkicklist'[i]
      PROVE  KickShape(k2)'
  BY <1>1 DEF PendingShape
<1> QED BY <1>1 DEF PendingShape

\* The inner handler goes on; of the others nothing changes but stale.
LEMMA StackKept ==
  ASSUME TypeOK, StackShape, frames # <<>>, frames' \in Seq(Frame), Len(frames') = Len(frames),
         \A i \in 1 .. Len(frames) :
           /\ frames'[i].op = frames[i].op /\ frames'[i].np = frames[i].np
           /\ frames'[i].cp = frames[i].cp /\ frames'[i].i >= frames[i].i,
         \A i \in 1 .. Len(frames) - 1 : frames'[i].pc = frames[i].pc,
         FrameShape(frames'[Len(frames)]), UNCHANGED clearing,
         Waiting' => Waiting, Len(frames) = 1 => ~Waiting
  PROVE  StackShape'
<1> DEFINE n == Len(frames)
<1>1. /\ n \in Nat \ {0} /\ DOMAIN frames = 1 .. n /\ DOMAIN frames' = 1 .. n /\ frames' # <<>>
      /\ 1 \in 1 .. n
  BY TopFacts DEF TypeOK
<1>2. \A i \in 1 .. n : frames[i] \in Frame /\ frames'[i] \in Frame
  BY <1>1, TopFacts DEF TypeOK
<1>3. ASSUME NEW i \in 1 .. n
      PROVE  FrameShape(frames'[i])
  <2>1. CASE i \in 1 .. n - 1
    <3>1. FrameShape(frames[i]) /\ frames[i].i \in Nat /\ frames'[i].i \in Nat
      BY <1>1, <1>2 DEF StackShape, Frame
    <3> QED BY <2>1, <3>1 DEF FrameShape
  <2>2. i = n \/ i \in 1 .. n - 1
    <3>1. n \in Nat \ {0}
      BY <1>1
    <3> QED BY <3>1
  <2> QED BY <2>1, <2>2
<1>4. ASSUME NEW i \in 1 .. n, i > 1
      PROVE  Nested(i)'
  <2>1. i - 1 \in 1 .. n - 1 /\ i - 1 \in 1 .. n /\ 1 \in 1 .. n - 1
    BY <1>1, <1>4
  <2>2. Nested(i)
    BY <1>1, <1>4 DEF StackShape
  <2> QED BY <1>1, <2>1, <2>2 DEF Nested
<1>5. Waiting' => frames'[1].pc \in JoinPcs
  <2>1. n # 1 => frames'[1].pc = frames[1].pc
    BY <1>1
  <2> QED BY <2>1 DEF StackShape
<1>6. frames'[1].op # "quitdel"
  BY <1>1 DEF StackShape
<1> QED BY <1>1, <1>3, <1>4, <1>5, <1>6 DEF StackShape

LEMMA AfterLostNickInv ==
  ASSUME MembershipAssumption, MembershipInv, AfterLostNick
  PROVE  MembershipInv'
<1> DEFINE n == Len(frames)
           np == Top.np
           cp == Top.cp
           pc == IF users'[cp] = {} THEN "lostchannel" ELSE "deleted"
<1>1. /\ frames # <<>> /\ Top.pc = "lostnick" /\ UNCHANGED clearing /\ (n = 1 => ~Waiting)
      /\ TypeOK /\ StackShape
  BY HookDoneFacts DEF AfterLostNick, MembershipInv
<1>2. /\ users' = [users EXCEPT ![cp] = @ \ {np}]
      /\ Goto(pc) /\ pc \in Pcs /\ pc \in {"lostchannel", "deleted"}
      /\ pendingkicklist' = IF pc = "lostchannel" THEN checkpendingkickchannels(cp) ELSE pendingkicklist
      /\ UNCHANGED <<alive, channels, index, allocated, pendingkilllist>>
  BY DEF AfterLostNick, Pcs, HookPcs
<1>3. /\ frames \in Seq(Frame) /\ n \in Nat \ {0} /\ DOMAIN frames = 1 .. n /\ Top = frames[n]
      /\ n \in 1 .. n /\ 1 \in 1 .. n /\ Top \in Frame
  BY <1>1, TopFacts DEF TypeOK
<1>4. FrameShape(frames[n]) /\ FrameChan(n)
  BY <1>3 DEF MembershipInv, StackShape, HandlersChan
<1>5. /\ cp \in Chans /\ ~Top.stale /\ cp \in allocated /\ np \in users[cp] /\ NULL \notin Chans
      /\ Top.op \in DelOps \cup {"zero"} /\ np \in Nicks
  BY <1>1, <1>3, <1>4, LeaverStack
     DEF FrameShape, FrameChan, MembershipAssumption, PartPcs, BurstPcs, DelOps
<1>6. /\ frames' \in Seq(Frame) /\ frames' # <<>>
      /\ Len(frames') = n /\ DOMAIN frames' = 1 .. n
      /\ \A i \in 1 .. n - 1 : frames'[i] = frames[i]
      /\ \A i \in 1 .. n :
           /\ frames'[i].op = frames[i].op /\ frames'[i].np = frames[i].np
           /\ frames'[i].cp = frames[i].cp /\ frames'[i].new = frames[i].new
           /\ frames'[i].i = frames[i].i /\ frames'[i].stale = frames[i].stale
      /\ frames'[n].pc = pc /\ Top' = frames'[n]
  BY <1>1, <1>2, <1>3, GotoFacts
<1>7. \A i \in 1 .. n : i = n \/ i \in 1 .. n - 1
  <2>1. n \in Nat \ {0}
    BY <1>3
  <2> QED BY <2>1
<1>8. /\ users \in [Chans -> SUBSET Nicks] /\ users' \in [Chans -> SUBSET Nicks]
      /\ \A c \in Chans : users'[c] = IF c = cp THEN users[cp] \ {np} ELSE users[c]
  <2>1. users \in [Chans -> SUBSET Nicks]
    BY <1>1 DEF TypeOK
  <2> HIDE DEF cp, np
  <2> QED BY <1>2, <1>5, <2>1
<1>9. pc = "lostchannel" <=> users'[cp] = {}
  OBVIOUS
<1> HIDE DEF pc, cp, np
<1>10. /\ pendingkicklist' \in Seq(Kick) /\ DOMAIN pendingkicklist' = DOMAIN pendingkicklist
       /\ \A i \in DOMAIN pendingkicklist :
            /\ pendingkicklist'[i].target = pendingkicklist[i].target
            /\ pendingkicklist'[i].stale = pendingkicklist[i].stale
            /\ pendingkicklist'[i].chan = IF pc = "lostchannel" /\ pendingkicklist[i].chan = cp THEN NULL
                                          ELSE pendingkicklist[i].chan
  <2>1. pendingkicklist \in Seq(Kick)
    BY <1>1 DEF TypeOK
  <2>2. CASE pc # "lostchannel"
    BY <1>2, <2>1, <2>2
  <2>3. CASE pc = "lostchannel"
    <3>1. pendingkicklist' = checkpendingkickchannels(cp)
      BY <1>2, <2>3
    <3>2. DOMAIN pendingkicklist' = DOMAIN pendingkicklist
      BY <3>1 DEF checkpendingkickchannels
    <3>3. ASSUME NEW i \in DOMAIN pendingkicklist
          PROVE  /\ pendingkicklist'[i] \in Kick
                 /\ pendingkicklist'[i].target = pendingkicklist[i].target
                 /\ pendingkicklist'[i].stale = pendingkicklist[i].stale
                 /\ pendingkicklist'[i].chan = IF pendingkicklist[i].chan = cp THEN NULL
                                               ELSE pendingkicklist[i].chan
      <4>1. pendingkicklist[i] \in Kick
        BY <2>1
      <4>2. pendingkicklist'[i] =
              [pendingkicklist[i] EXCEPT !.chan = IF pendingkicklist[i].chan = cp THEN NULL
                                                  ELSE pendingkicklist[i].chan]
        BY <3>1 DEF checkpendingkickchannels
      <4> QED BY <4>1, <4>2 DEF Kick
    <3>4. pendingkicklist' \in Seq(Kick)
      <4>1. pendingkicklist' = [i \in 1 .. Len(pendingkicklist) |-> pendingkicklist'[i]]
        BY <2>1, <3>1 DEF checkpendingkickchannels
      <4>2. Len(pendingkicklist) \in Nat /\ DOMAIN pendingkicklist = 1 .. Len(pendingkicklist)
        BY <2>1
      <4> QED BY <3>3, <4>1, <4>2
    <3> QED BY <2>3, <3>2, <3>3, <3>4
  <2> QED BY <2>2, <2>3
<1>11. TypeOK'
  BY <1>1, <1>2, <1>6, <1>8, <1>10 DEF TypeOK
<1>12. StackShape'
  <2>1. FrameShape(frames'[n])
    <3>1. /\ frames'[n].op = frames[n].op /\ frames'[n].np = frames[n].np
          /\ frames'[n].cp = frames[n].cp /\ frames'[n].i = frames[n].i
          /\ frames'[n].pc \in {"lostchannel", "deleted"}
      BY <1>2, <1>3, <1>6
    <3>2. frames[n].op \in DelOps \cup {"zero"} /\ frames[n].cp \in Chans
      BY <1>3, <1>5 DEF cp
    <3> QED BY <1>4, <3>1, <3>2 DEF FrameShape, AddOps, DelOps, PartPcs
  <2>2. Waiting' => Waiting
    <3>1. pendingkicklist' # <<>> => pendingkicklist # <<>>
      <4>1. pendingkicklist = <<>> => DOMAIN pendingkicklist' = {}
        BY <1>10
      <4> QED BY <1>10, <4>1
    <3> QED BY <1>1, <1>2, <3>1 DEF Waiting
  <2>3. \A i \in 1 .. n : frames'[i].i >= frames[i].i
    BY <1>3, <1>6, TopFacts DEF Frame
  <2> QED BY <1>1, <1>6, <2>1, <2>2, <2>3, StackKept
<1>13. IndexShape' /\ UsersAlive'
  BY <1>2, <1>5, <1>8 DEF MembershipInv, IndexShape, UsersAlive
<1>14. Used'
  <2> SUFFICES ASSUME NEW c \in allocated, users'[c] = {}
               PROVE  \E i \in 1 .. n : frames'[i].cp = c /\ frames'[i].pc \in {"lostchannel", "adding"}
    BY <1>2, <1>6 DEF Used
  <2>1. CASE c = cp
    BY <1>3, <1>6, <1>9, <2>1 DEF cp
  <2>2. CASE c # cp
    <3>1. c \in Chans /\ users[c] = {}
      BY <1>1, <1>8, <2>2 DEF TypeOK
    <3>2. PICK i \in 1 .. n : frames[i].cp = c /\ frames[i].pc \in {"lostchannel", "adding"}
      BY <1>3, <3>1 DEF MembershipInv, Used
    <3> QED BY <1>3, <1>6, <1>7, <2>2, <3>2 DEF cp
  <2> QED BY <2>1, <2>2
<1>15. HandlersChan'
  <2>1. ASSUME NEW i \in 1 .. n - 1
        PROVE  FrameChan(i)'
    <3>1. FrameChan(i) /\ frames'[i] = frames[i] /\ frames[i].pc \in JoinPcs \cup {"nicklost"}
      BY <1>1, <1>3, <1>6, BelowTop, SMTT(20) DEF MembershipInv, HandlersChan
    <3> QED BY <1>2, <3>1 DEF FrameChan, JoinPcs
  <2>2. FrameChan(n)'
    <3>1. /\ frames'[n].np = np /\ frames'[n].cp = cp /\ ~frames'[n].stale
          /\ frames'[n].pc \in {"lostchannel", "deleted"}
          /\ frames'[n].pc = "lostchannel" => users'[cp] = {}
      BY <1>2, <1>3, <1>5, <1>6, <1>9 DEF np, cp
    <3>2. np \notin users'[cp] /\ cp \in allocated'
      BY <1>2, <1>5, <1>8
    <3>3. n' = n
      BY <1>6
    <3> QED BY <3>1, <3>2, <3>3 DEF FrameChan
  <2> QED BY <1>6, <1>7, <2>1, <2>2 DEF HandlersChan
<1>16. PendingShape'
  <2>1. ASSUME NEW i \in DOMAIN pendingkicklist, NEW k, NEW k2,
               k = pendingkicklist[i], KickShape(k), k2 = pendingkicklist'[i]
        PROVE  KickShape(k2)'
    <3>1. /\ k2.target = k.target /\ k2.stale = k.stale
          /\ k2.chan = IF pc = "lostchannel" /\ k.chan = cp THEN NULL ELSE k.chan
      BY <1>10, <2>1
    <3>2. frames'[1].cp = frames[1].cp
      BY <1>3, <1>6
    <3>3. \A j \in 1 .. n : /\ frames'[j].pc = "gone" => frames[j].pc = "gone" /\ j # n
                            /\ frames'[j].pc = "lostchannel" /\ j # n => frames[j].pc = "lostchannel"
      BY <1>2, <1>6, <1>7
    <3>4. frames'[n].cp = cp /\ frames'[n].pc = pc
      BY <1>3, <1>6 DEF cp
    <3> QED BY <1>2, <1>3, <1>6, <2>1, <3>1, <3>2, <3>3, <3>4, ZenonT(40) DEF KickShape
  <2> QED BY <1>2, <1>10, <2>1, KicksKept DEF MembershipInv
<1>17. ServiceStays'
  <2>1. CASE n = 1
    BY <1>2, <1>6, <2>1 DEF ServiceStays, NeedsChannel
  <2>2. CASE n # 1
    <3>1. frames'[1] = frames[1] /\ n > 1
      BY <1>3, <1>6, <2>2
    <3> SUFFICES ASSUME NeedsChannel
                 PROVE  users'[frames[1].cp] \cap Services # {}
      BY <1>6, <3>1 DEF ServiceStays, NeedsChannel
    <3>2. frames[1].pc \in JoinPcs
      BY DEF NeedsChannel, JoinPcs
    <3>3. np \notin Services
      BY <1>1, <3>1, <3>2, LeaverStack DEF np, PartPcs
    <3>4. users[frames[1].cp] \cap Services # {}
      BY <1>1, <3>1 DEF MembershipInv, ServiceStays
    <3>5. frames[1].cp \in Chans
      BY <1>1, <1>3, <3>2 DEF StackShape, FrameShape, JoinPcs
    <3> QED BY <1>8, <3>3, <3>4, <3>5
  <2> QED BY <2>1, <2>2
<1>18. Mirrored'
  <2> SUFFICES ASSUME NEW x \in Nicks, NEW c \in Chans
               PROVE  /\ x \in users'[c] => Listed(x, c)
                      /\ Listed(x, c) /\ ~Ending(x, c)' => x \in users'[c]
    BY <1>2 DEF Mirrored, Listed
  <2>1. x \in users'[c] => x \in users[c]
    BY <1>8
  <2>2. Ending(x, c) => Ending(x, c)'
    <3>1. ASSUME NEW i \in 1 .. n, frames[i].np = x,
                 \/ frames[i].cp = c /\ frames[i].pc \in {"lostchannel", "deleted"}
                    /\ frames[i].op # "burst"
                 \/ frames[i].op \in {"zero", "quit"}
          PROVE  Ending(x, c)'
      BY <1>1, <1>3, <1>6, <1>7, <3>1 DEF Ending
    <3> QED BY <1>3, <3>1 DEF Ending
  <2>3. x = np /\ c = cp => Ending(x, c)'
    BY <1>2, <1>3, <1>5, <1>6 DEF Ending, np, cp, DelOps
  <2> QED BY <1>8, <2>1, <2>2, <2>3 DEF MembershipInv, Mirrored
<1>19. Walks'
  <2> SUFFICES ASSUME NEW i \in 1 .. n, frames[i].op \in {"zero", "quit"}
               PROVE  Walked(i)'
    BY <1>6 DEF Walks, Walked
  <2>1. Walked(i)
    BY <1>3 DEF MembershipInv, Walks
  <2>2. frames[i].np = np /\ frames[i].pc # "gone"
    <3>1. CASE i = n
      BY <1>1, <1>3, <3>1 DEF np
    <3>2. CASE i \in 1 .. n - 1
      BY <1>1, <1>3, <3>2, Walkers DEF np
    <3> QED BY <1>7, <3>1, <3>2
  <2> DEFINE a == channels[np]
  <2>3. a \in Seq(Chans) /\ IsInjective(a)
    BY <1>1, <1>5 DEF TypeOK
  <2>4. /\ \A j \in DOMAIN a : /\ j >= frames[i].i => np \in users[a[j]]
                               /\ j < frames[i].i /\ np \in users[a[j]] => cp = a[j]
        /\ \E j \in DOMAIN a : j < frames[i].i /\ a[j] = cp
    BY <1>1, <2>1, <2>2 DEF Walked, LeavePcs, np, cp
  <2>5. ASSUME NEW j \in DOMAIN a
        PROVE  /\ j >= frames[i].i => np \in users'[a[j]]
               /\ ~(j < frames[i].i /\ np \in users'[a[j]])
    <3> HIDE DEF a
    <3>1. a[j] \in Chans /\ j \in Nat
      BY <2>3
    <3>2. PICK m \in DOMAIN a : m < frames[i].i /\ a[m] = cp
      BY <2>4
    <3>3. a[j] = cp => j = m
      BY <2>3, <3>2 DEF IsInjective
    <3>4. m \in Nat /\ frames[i].i \in Nat
      BY <1>3, <2>3, TopFacts DEF Frame
    <3>5. CASE a[j] = cp
      BY <1>8, <3>1, <3>2, <3>3, <3>4, <3>5
    <3>6. CASE a[j] # cp
      BY <1>8, <2>4, <3>1, <3>6
    <3> QED BY <3>5, <3>6
  <2>6. channels'[frames'[i].np] = a /\ frames'[i].i = frames[i].i /\ frames'[i].np = np
    BY <1>2, <1>6, <2>2
  <2>7. frames'[i].pc # "gone" /\ Top'.pc \notin LeavePcs
    BY <1>2, <1>6, <1>7, <2>2 DEF LeavePcs
  <2> HIDE DEF a
  <2> QED BY <2>5, <2>6, <2>7 DEF Walked
<1> QED BY <1>11, <1>12, <1>13, <1>14, <1>15, <1>16, <1>17, <1>18, <1>19 DEF MembershipInv

\* The stack after delchannel(): the inner handler goes on, pointers in the others are dangling.
LEMMA StaleFacts ==
  ASSUME frames \in Seq(Frame), frames # <<>>, NEW cp,
         frames' = Stale(Front(frames), cp) \o <<[Top EXCEPT !.pc = "deleted"]>>
  PROVE  /\ frames' \in Seq(Frame) /\ frames' # <<>>
         /\ Len(frames') = Len(frames) /\ DOMAIN frames' = 1 .. Len(frames)
         /\ \A i \in 1 .. Len(frames) :
              /\ frames'[i].op = frames[i].op /\ frames'[i].np = frames[i].np
              /\ frames'[i].cp = frames[i].cp /\ frames'[i].i = frames[i].i
         /\ \A i \in 1 .. Len(frames) - 1 :
              /\ frames'[i].pc = frames[i].pc
              /\ frames'[i].stale <=> frames[i].stale \/ frames[i].cp = cp
         /\ frames'[Len(frames)].pc = "deleted"
         /\ frames'[Len(frames)].stale = frames[Len(frames)].stale
         /\ Top' = frames'[Len(frames)]
<1> DEFINE n == Len(frames)
           s == Front(frames)
           t == Stale(s, cp)
           f == [Top EXCEPT !.pc = "deleted"]
<1>1. /\ n \in Nat \ {0} /\ DOMAIN frames = 1 .. n /\ Top = frames[n] /\ n \in 1 .. n
      /\ \A i \in 1 .. n : frames[i] \in Frame
  BY TopFacts
<1>2. n \in Nat \ {0} /\ n - 1 \in Nat
  BY <1>1
<1>3. /\ s \in Seq(Frame) /\ DOMAIN s = 1 .. n - 1
      /\ \A i \in 1 .. n - 1 : s[i] = frames[i]
  BY FrontFacts
<1>4. /\ f \in Frame /\ f.pc = "deleted" /\ f.op = frames[n].op /\ f.np = frames[n].np
      /\ f.cp = frames[n].cp /\ f.i = frames[n].i /\ f.stale = frames[n].stale
  BY <1>1 DEF Frame, Pcs
<1>5. t = [i \in 1 .. n - 1 |-> [s[i] EXCEPT !.stale = @ \/ s[i].cp = cp]]
  BY <1>3 DEF Stale
<1> HIDE DEF f, s, t
<1>6. ASSUME NEW i \in 1 .. n - 1
      PROVE  /\ t[i] \in Frame
             /\ t[i].op = frames[i].op /\ t[i].np = frames[i].np
             /\ t[i].cp = frames[i].cp /\ t[i].i = frames[i].i /\ t[i].pc = frames[i].pc
             /\ t[i].stale <=> frames[i].stale \/ frames[i].cp = cp
  <2>1. frames[i] \in Frame
    BY <1>1, <1>2
  <2>2. t[i] = [frames[i] EXCEPT !.stale = @ \/ frames[i].cp = cp]
    BY <1>3, <1>5
  <2> QED BY <2>1, <2>2 DEF Frame
<1>7. t \in Seq(Frame) /\ Len(t) = n - 1
  <2>1. t = [i \in 1 .. n - 1 |-> t[i]]
    BY <1>5
  <2>2. \A i \in 1 .. n - 1 : t[i] \in Frame
    BY <1>6
  <2> HIDE DEF n
  <2> QED BY <1>2, <2>1, <2>2, SeqFacts
<1>8. /\ t \o <<f>> \in Seq(Frame) /\ Len(t \o <<f>>) = n
      /\ DOMAIN (t \o <<f>>) = 1 .. n
      /\ \A i \in 1 .. n - 1 : (t \o <<f>>)[i] = t[i]
      /\ (t \o <<f>>)[n] = f
  <2>1. t \in Seq(Frame) /\ f \in Frame
    BY <1>4, <1>7
  <2>2. /\ t \o <<f>> \in Seq(Frame) /\ Len(t \o <<f>>) = Len(t) + 1
        /\ \A i \in 1 .. Len(t) : (t \o <<f>>)[i] = t[i]
        /\ (t \o <<f>>)[Len(t) + 1] = f
    BY <2>1
  <2>3. Len(t) + 1 = n /\ Len(t) = n - 1
    BY <1>2, <1>7
  <2> QED BY <2>2, <2>3
<1>9. frames' = t \o <<f>>
  BY DEF f, s, t
<1>10. frames' # <<>> /\ Top' = frames'[n]
  <2> DEFINE g == t \o <<f>>
  <2>1. g \in Seq(Frame) /\ Len(g) = n /\ g[n] = f
    BY <1>8
  <2> HIDE DEF g, n
  <2>2. g # <<>> /\ Last(g) = g[n]
    BY <1>2, <2>1 DEF Last
  <2>3. frames' = g
    BY <1>9 DEF g
  <2> QED BY <2>2, <2>3 DEF Top
<1>11. \A i \in 1 .. n : i = n \/ i \in 1 .. n - 1
  <2> HIDE DEF n
  <2> QED BY <1>2
<1>12. ASSUME NEW i \in 1 .. n
       PROVE  /\ frames'[i].op = frames[i].op /\ frames'[i].np = frames[i].np
              /\ frames'[i].cp = frames[i].cp /\ frames'[i].i = frames[i].i
  <2>1. CASE i = n
    <3>1. frames'[i] = f
      BY <1>8, <1>9, <2>1
    <3> QED BY <1>4, <2>1, <3>1
  <2>2. CASE i \in 1 .. n - 1
    <3>1. frames'[i] = t[i]
      BY <1>8, <1>9, <2>2
    <3> QED BY <1>6, <2>2, <3>1
  <2> QED BY <1>11, <2>1, <2>2
<1>13. \A i \in 1 .. n - 1 :
          /\ frames'[i].pc = frames[i].pc
          /\ frames'[i].stale <=> frames[i].stale \/ frames[i].cp = cp
  BY <1>6, <1>8, <1>9
<1> QED BY <1>4, <1>8, <1>9, <1>10, <1>12, <1>13

\* The inner handler is destroying its channel: what needs a channel below does not need this one.
LEMMA LostFacts ==
  ASSUME MembershipAssumption, MembershipInv, frames # <<>>, Top.pc = "lostchannel"
  PROVE  /\ Top.cp \in allocated /\ Top.cp \in Chans /\ users[Top.cp] = {} /\ ~Top.stale
         /\ \A i \in 1 .. Len(frames) - 1 : frames[i].cp = Top.cp =>
              /\ i = 1 /\ frames[i].pc \in {"newchannel", "join"} /\ frames[i].op # "burst"
         /\ \A i \in DOMAIN pendingkicklist :
              ~pendingkicklist[i].stale /\ pendingkicklist[i].chan # Top.cp
<1> DEFINE n == Len(frames)
<1>1. /\ n \in Nat \ {0} /\ DOMAIN frames = 1 .. n /\ Top = frames[n] /\ n \in 1 .. n
      /\ TypeOK /\ StackShape
  BY TopFacts DEF MembershipInv, TypeOK
<1>2. FrameChan(n) /\ FrameShape(Top)
  BY <1>1 DEF MembershipInv, HandlersChan, StackShape
<1>3. Top.cp \in allocated /\ Top.cp \in Chans /\ users[Top.cp] = {} /\ ~Top.stale
  BY <1>1, <1>2 DEF FrameChan, FrameShape
<1>4. ASSUME NEW i \in 1 .. n - 1, frames[i].cp = Top.cp
      PROVE  i = 1 /\ frames[i].pc \in {"newchannel", "join"} /\ frames[i].op # "burst"
  <2>1. frames[i].cp # NULL /\ n > 1 /\ i \in DOMAIN frames
    BY <1>1, <1>3, <1>4 DEF MembershipAssumption
  <2>2. frames[i].pc \in JoinPcs /\ i = 1
    BY <1>1, <2>1, LeaverStack DEF PartPcs
  <2>3. ~NeedsChannel
    BY <1>1, <1>3, <1>4, <2>1, <2>2 DEF MembershipInv, ServiceStays
  <2>4. FrameShape(frames[1])
    BY <1>1, <2>1, <2>2 DEF StackShape
  <2> QED BY <2>2, <2>3, <2>4 DEF NeedsChannel, JoinPcs, FrameShape, BurstPcs
<1>5. ASSUME NEW i \in DOMAIN pendingkicklist
      PROVE  ~pendingkicklist[i].stale /\ pendingkicklist[i].chan # Top.cp
  <2>1. KickShape(pendingkicklist[i])
    BY DEF MembershipInv, PendingShape
  <2> QED BY <1>1, <1>3, <2>1 DEF KickShape, MembershipAssumption
<1> QED BY <1>3, <1>4, <1>5

LEMMA AfterLostChannelInv ==
  ASSUME MembershipAssumption, MembershipInv, AfterLostChannel
  PROVE  MembershipInv'
<1> DEFINE n == Len(frames)
           np == Top.np
           cp == Top.cp
<1>1. /\ frames # <<>> /\ Top.pc = "lostchannel" /\ UNCHANGED clearing /\ (n = 1 => ~Waiting)
      /\ TypeOK /\ StackShape
  BY HookDoneFacts DEF AfterLostChannel, MembershipInv
<1>2. delchannel(cp) /\ UNCHANGED <<alive, channels, pendingkilllist>>
  BY DEF AfterLostChannel
<1>3. /\ frames \in Seq(Frame) /\ n \in Nat \ {0} /\ DOMAIN frames = 1 .. n /\ Top = frames[n]
      /\ n \in 1 .. n /\ 1 \in 1 .. n /\ Top \in Frame /\ FrameShape(frames[n])
  BY <1>1, TopFacts DEF TypeOK, StackShape
<1>4. /\ cp \in allocated /\ cp \in Chans /\ users[cp] = {} /\ ~Top.stale
      /\ \A i \in 1 .. n - 1 : frames[i].cp = cp =>
           /\ i = 1 /\ frames[i].pc \in {"newchannel", "join"} /\ frames[i].op # "burst"
      /\ \A i \in DOMAIN pendingkicklist :
           ~pendingkicklist[i].stale /\ pendingkicklist[i].chan # cp
  BY <1>1, LostFacts
<1>5. CASE Top.op = "burst"
  <2>1. n = 1 /\ frames' = Stale(Front(frames), cp)
    BY <1>1, <1>5, BurstFacts DEF AfterLostChannel
  <2>2. frames' = <<>>
    <3>1. DOMAIN Front(frames) = {}
      BY <1>1, <1>3, <2>1, FrontFacts
    <3> QED BY <2>1, <3>1 DEF Stale
  <2> QED BY <1>1, <1>2, <1>4, <1>5, <2>2, BurstFreed
<1>6. CASE Top.op # "burst"
  <2>1. frames' = Stale(Front(frames), cp) \o <<[Top EXCEPT !.pc = "deleted"]>>
    BY <1>6 DEF AfterLostChannel
  <2>2. /\ frames' \in Seq(Frame) /\ frames' # <<>>
        /\ Len(frames') = n /\ DOMAIN frames' = 1 .. n
        /\ \A i \in 1 .. n :
             /\ frames'[i].op = frames[i].op /\ frames'[i].np = frames[i].np
             /\ frames'[i].cp = frames[i].cp /\ frames'[i].i = frames[i].i
        /\ \A i \in 1 .. n - 1 :
             /\ frames'[i].pc = frames[i].pc
             /\ frames'[i].stale <=> frames[i].stale \/ frames[i].cp = cp
        /\ frames'[n].pc = "deleted"
        /\ frames'[n].stale = frames[n].stale
        /\ Top' = frames'[n]
    BY <1>1, <1>3, <2>1, StaleFacts
  <2>3. \A i \in 1 .. n : i = n \/ i \in 1 .. n - 1
    <3>1. n \in Nat \ {0}
      BY <1>3
    <3> HIDE DEF n
    <3> QED BY <3>1
  <2>4. Tables /\ IndexShape
    BY <1>1 DEF TypeOK, Tables, MembershipInv
  <2> HIDE DEF cp, np
  <2>5. /\ UNCHANGED users /\ allocated' = allocated \ {cp} /\ Tables' /\ IndexShape'
    BY <1>2, <1>4, <2>4, delchannelFacts
  <2>6. pendingkicklist' = pendingkicklist
    <3>1. pendingkicklist \in Seq(Kick) /\ pendingkicklist' = StaleKicks(cp)
      BY <1>1, <1>2 DEF TypeOK, delchannel
    <3>2. ASSUME NEW i \in DOMAIN pendingkicklist
          PROVE  pendingkicklist'[i] = pendingkicklist[i]
      <4>1. pendingkicklist[i] \in Kick /\ pendingkicklist[i].stale = FALSE
            /\ pendingkicklist[i].chan # cp
        <5>1. pendingkicklist[i] \in Kick
          BY <3>1
        <5>2. pendingkicklist[i].stale \in BOOLEAN
          BY <5>1 DEF Kick
        <5> QED BY <1>4, <5>1, <5>2
      <4>2. pendingkicklist'[i] =
              [pendingkicklist[i] EXCEPT !.stale = @ \/ pendingkicklist[i].chan = cp]
        BY <3>1 DEF StaleKicks
      <4> DEFINE k == pendingkicklist[i]
                 b == k.stale \/ k.chan = cp
      <4>3. b = FALSE /\ pendingkicklist'[i] = [k EXCEPT !.stale = b]
        BY <4>1, <4>2
      <4>4. k \in Kick /\ k.stale = FALSE
        BY <4>1
      <4> HIDE DEF b, k
      <4>5. [k EXCEPT !.stale = b] = k
        BY <4>3, <4>4 DEF Kick
      <4> QED BY <4>3, <4>5 DEF k
    <3>3. DOMAIN pendingkicklist' = DOMAIN pendingkicklist
      BY <3>1 DEF StaleKicks
    <3>4. /\ pendingkicklist' = [i \in DOMAIN pendingkicklist |-> pendingkicklist'[i]]
          /\ pendingkicklist = [i \in DOMAIN pendingkicklist |-> pendingkicklist[i]]
      BY <3>1 DEF StaleKicks
    <3> QED BY <3>2, <3>4
  <2>7. TypeOK'
    BY <1>1, <1>2, <2>2, <2>5, <2>6 DEF TypeOK, Tables
  <2>8. StackShape'
    <3>1. FrameShape(frames'[n])
      BY <1>1, <1>3, <1>6, <2>2 DEF FrameShape, AddOps, DelOps, PartPcs, JoinPcs
    <3>2. Waiting' => Waiting
      BY <1>1, <1>2, <2>6 DEF Waiting
    <3>3. \A i \in 1 .. n : frames'[i].i >= frames[i].i
      BY <1>3, <2>2, TopFacts DEF Frame
    <3> QED BY <1>1, <2>2, <3>1, <3>2, <3>3, StackKept
  <2>9. UsersAlive'
    BY <1>2, <2>5 DEF MembershipInv, UsersAlive
  <2>10. Used'
    <3> SUFFICES ASSUME NEW c \in allocated \ {cp}, users[c] = {}
                 PROVE  \E i \in 1 .. n : frames'[i].cp = c /\ frames'[i].pc \in {"lostchannel", "adding"}
      BY <2>2, <2>5 DEF Used
    <3>1. PICK i \in 1 .. n : frames[i].cp = c /\ frames[i].pc \in {"lostchannel", "adding"}
      BY <1>3 DEF MembershipInv, Used
    <3>2. i # n
      BY <1>3, <3>1 DEF cp
    <3> QED BY <2>2, <2>3, <3>1, <3>2
  <2>11. HandlersChan'
    <3>1. ASSUME NEW i \in 1 .. n - 1
          PROVE  FrameChan(i)'
      <4>1. FrameChan(i) /\ i \in 1 .. n /\ frames[i].pc \in JoinPcs \cup {"nicklost"}
        BY <1>1, <1>3, BelowTop DEF MembershipInv, HandlersChan
      <4>2. /\ frames'[i].op = frames[i].op /\ frames'[i].cp = frames[i].cp
            /\ frames'[i].pc = frames[i].pc
            /\ frames'[i].stale <=> frames[i].stale \/ frames[i].cp = cp
        BY <2>2, <4>1
      <4>3. CASE frames[i].cp = cp
        BY <1>4, <2>5, <4>2, <4>3 DEF FrameChan
      <4>4. CASE frames[i].cp # cp
        BY <2>5, <4>1, <4>2, <4>4 DEF FrameChan, JoinPcs
      <4> QED BY <4>3, <4>4
    <3>2. FrameChan(n)'
      <4>1. n' = n /\ frames'[n].cp = cp /\ ~frames'[n].stale /\ users' = users
        BY <1>3, <1>4, <2>2, <2>5 DEF cp
      <4> QED BY <1>4, <2>2, <4>1 DEF FrameChan
    <3> QED BY <2>2, <2>3, <3>1, <3>2 DEF HandlersChan
  <2>12. PendingShape'
    <3>1. ASSUME NEW i \in DOMAIN pendingkicklist, NEW k, NEW k2,
                 k = pendingkicklist[i], KickShape(k), k2 = pendingkicklist'[i]
          PROVE  KickShape(k2)'
      <4>1. k2 = k /\ k.chan # cp
        BY <1>4, <2>6, <3>1
      <4>2. frames'[1].cp = frames[1].cp
        BY <1>3, <2>2
      <4>3. \A j \in 1 .. n : /\ frames'[j].pc = "gone" => frames[j].pc = "gone"
                              /\ frames'[j].pc = "lostchannel" => frames[j].pc = "lostchannel"
        BY <2>2, <2>3
      <4> QED BY <1>2, <1>3, <2>2, <2>5, <3>1, <4>1, <4>2, <4>3 DEF KickShape
    <3> QED BY <1>2, <2>6, <3>1, KicksKept DEF MembershipInv
  <2>13. ServiceStays'
    <3>1. CASE n = 1
      BY <2>2, <3>1 DEF ServiceStays, NeedsChannel
    <3>2. CASE n # 1
      <4>1. 1 \in 1 .. n - 1 /\ n > 1
        BY <1>3, <3>2
      <4> QED BY <2>2, <2>5, <4>1 DEF MembershipInv, ServiceStays, NeedsChannel
    <3> QED BY <3>1, <3>2
  <2>14. Mirrored'
    <3>1. ASSUME NEW x \in Nicks, NEW c \in Chans, Ending(x, c)
          PROVE  Ending(x, c)'
      <4>1. ASSUME NEW i \in 1 .. n, frames[i].np = x,
                   \/ frames[i].cp = c /\ frames[i].pc \in {"lostchannel", "deleted"}
                      /\ frames[i].op # "burst"
                   \/ frames[i].op \in {"zero", "quit"}
            PROVE  Ending(x, c)'
        BY <2>2, <2>3, <4>1 DEF Ending
      <4> QED BY <1>3, <3>1, <4>1 DEF Ending
    <3> QED BY <1>2, <2>5, <3>1 DEF MembershipInv, Mirrored, Listed
  <2>15. Walks'
    <3> SUFFICES ASSUME NEW i \in 1 .. n
                 PROVE  Walked(i)'
      BY <2>2 DEF Walks
    <3>1. Walked(i)
      BY <1>3 DEF MembershipInv, Walks
    <3>2. Top.pc \notin LeavePcs /\ Top'.pc \notin LeavePcs
      BY <1>1, <2>2 DEF LeavePcs
    <3>3. /\ frames'[i].op = frames[i].op /\ frames'[i].np = frames[i].np
          /\ frames'[i].i = frames[i].i
          /\ frames'[i].pc = "gone" => frames[i].pc = "gone"
      BY <2>2, <2>3
    <3> QED BY <1>2, <2>5, <3>1, <3>2, <3>3 DEF Walked
  <2> QED BY <2>5, <2>7, <2>8, <2>9, <2>10, <2>11, <2>12, <2>13, <2>14, <2>15 DEF MembershipInv
<1> QED BY <1>5, <1>6

\* array_delslot() takes out one entry, and only that one.
LEMMA DelslotFacts ==
  ASSUME NEW S, NEW a \in Seq(S), IsInjective(a), NEW k \in DOMAIN a
  PROVE  /\ delslot(a, k) \in Seq(S) /\ IsInjective(delslot(a, k))
         /\ \A c \in S : (\E j \in DOMAIN delslot(a, k) : delslot(a, k)[j] = c)
                     <=> (\E j \in DOMAIN a : a[j] = c) /\ c # a[k]
<1> DEFINE m == Len(a)
           e == [a EXCEPT ![k] = Last(a)]
           b == delslot(a, k)
<1>1. m \in Nat \ {0} /\ DOMAIN a = 1 .. m /\ k \in 1 .. m /\ m \in 1 .. m /\ a # <<>>
  OBVIOUS
<1>2. Last(a) = a[m] /\ a[m] \in S
  BY <1>1 DEF Last
<1>3. /\ e \in Seq(S) /\ Len(e) = m /\ e # <<>>
      /\ \A j \in 1 .. m : e[j] = IF j = k THEN a[m] ELSE a[j]
  BY <1>1, <1>2
<1> HIDE DEF e
<1>4. /\ b \in Seq(S) /\ DOMAIN b = 1 .. m - 1
      /\ \A j \in 1 .. m - 1 : b[j] = e[j]
  BY <1>3, FrontFacts DEF delslot, e
<1>5. \A i, j \in 1 .. m : a[i] = a[j] => i = j
  BY <1>1 DEF IsInjective
<1> HIDE DEF b
<1>6. m \in Nat \ {0} /\ k \in 1 .. m
  BY <1>1
<1>7. \A j \in 1 .. m - 1 : j \in 1 .. m /\ j # m /\ b[j] = IF j = k THEN a[m] ELSE a[j]
  <2> HIDE DEF m
  <2> QED BY <1>3, <1>4, <1>6
<1>8. \A i, j \in 1 .. m - 1 : b[i] = b[j] => i = j
  BY <1>1, <1>5, <1>7
<1>9. IsInjective(b)
  BY <1>4, <1>8 DEF IsInjective
<1>10. ASSUME NEW j \in 1 .. m - 1
       PROVE  (\E i \in 1 .. m : a[i] = b[j]) /\ b[j] # a[k]
  BY <1>1, <1>5, <1>7
<1>11. ASSUME NEW j \in 1 .. m, a[j] # a[k]
       PROVE  \E i \in 1 .. m - 1 : b[i] = a[j]
  <2>1. CASE j = m
    <3>1. k \in 1 .. m - 1
      <4>1. k # m
        BY <1>11, <2>1
      <4> HIDE DEF m
      <4> QED BY <1>6, <4>1
    <3> QED BY <1>7, <2>1, <3>1
  <2>2. CASE j # m
    <3>1. j \in 1 .. m - 1 /\ j # k
      <4>1. j # k
        BY <1>11
      <4> HIDE DEF m
      <4> QED BY <1>6, <2>2, <4>1
    <3> QED BY <1>7, <3>1
  <2> QED BY <2>1, <2>2
<1>12. ASSUME NEW c \in S
       PROVE  (\E j \in DOMAIN b : b[j] = c) <=> (\E j \in DOMAIN a : a[j] = c) /\ c # a[k]
  BY <1>1, <1>4, <1>10, <1>11
<1> QED BY <1>4, <1>9, <1>12 DEF b

LEMMA UnlistFacts ==
  ASSUME Tables, NEW np \in Nicks, NEW cp \in Chans, Unlist(np, cp)
  PROVE  /\ channels' \in [Nicks -> Seq(Chans)]
         /\ \A x \in Nicks : IsInjective(channels'[x])
         /\ \A x \in Nicks, c \in Chans : Listed(x, c)' <=> Listed(x, c) /\ ~(x = np /\ c = cp)
         /\ \A x \in Nicks \ {np} : channels'[x] = channels[x]
<1> DEFINE a == channels[np]
           k == CHOOSE i \in DOMAIN a : a[i] = cp
           b == IF cp \in ToSet(a) THEN delslot(a, k) ELSE a
<1>1. channels \in [Nicks -> Seq(Chans)] /\ a \in Seq(Chans) /\ IsInjective(a)
  BY DEF Tables
<1>2. channels' = [channels EXCEPT ![np] = b]
  BY DEF Unlist
<1>3. cp \in ToSet(a) <=> \E j \in DOMAIN a : a[j] = cp
  BY DEF ToSet
<1>4. /\ b \in Seq(Chans) /\ IsInjective(b)
      /\ \A c \in Chans : (\E j \in DOMAIN b : b[j] = c) <=> (\E j \in DOMAIN a : a[j] = c) /\ c # cp
  <2>1. CASE cp \in ToSet(a)
    <3>1. k \in DOMAIN a /\ a[k] = cp
      BY <1>3, <2>1
    <3> HIDE DEF k, a
    <3>2. /\ delslot(a, k) \in Seq(Chans) /\ IsInjective(delslot(a, k))
          /\ \A c \in Chans : (\E j \in DOMAIN delslot(a, k) : delslot(a, k)[j] = c)
                              <=> (\E j \in DOMAIN a : a[j] = c) /\ c # a[k]
      <4> HIDE DEF b
      <4>1. a \in Seq(Chans) /\ IsInjective(a) /\ k \in DOMAIN a
        BY <1>1, <3>1
      <4> QED BY <4>1, DelslotFacts
    <3>3. b = delslot(a, k)
      BY <2>1
    <3> HIDE DEF b
    <3> QED BY <3>1, <3>2, <3>3
  <2>2. CASE cp \notin ToSet(a)
    <3>1. b = a
      BY <2>2
    <3> HIDE DEF a, b
    <3> QED BY <1>1, <1>3, <2>2, <3>1
  <2> QED BY <2>1, <2>2
<1> HIDE DEF b
<1>5. channels' \in [Nicks -> Seq(Chans)] /\ channels'[np] = b
      /\ \A x \in Nicks \ {np} : channels'[x] = channels[x]
  BY <1>1, <1>2, <1>4
<1>6. \A x \in Nicks : IsInjective(channels'[x])
  BY <1>4, <1>5 DEF Tables
<1>7. ASSUME NEW x \in Nicks, NEW c \in Chans
      PROVE  Listed(x, c)' <=> Listed(x, c) /\ ~(x = np /\ c = cp)
  BY <1>4, <1>5 DEF Listed
<1> QED BY <1>5, <1>6, <1>7

LEMMA deletedInv ==
  ASSUME MembershipInv, deleted
  PROVE  MembershipInv'
<1> DEFINE n == Len(frames)
           np == Top.np
           cp == Top.cp
<1>1. /\ frames # <<>> /\ Top.pc = "deleted"
      /\ UNCHANGED <<alive, index, users, allocated, pending, clearing>>
  BY DEF deleted, Idle
<1>2. /\ frames \in Seq(Frame) /\ TypeOK /\ StackShape
      /\ n \in Nat \ {0} /\ DOMAIN frames = 1 .. n /\ Top = frames[n]
      /\ 1 \in 1 .. n /\ n \in 1 .. n
      /\ FrameChan(n) /\ FrameShape(frames[n]) /\ Top \in Frame
  BY <1>1, TopFacts DEF MembershipInv, TypeOK, HandlersChan, StackShape
<1>3. /\ np \notin users[cp] /\ np \in Nicks /\ ~Top.stale
      /\ Top.op \in DelOps \cup {"zero"}
  BY <1>1, <1>2, LeaverStack DEF FrameChan, FrameShape, PartPcs, BurstPcs
<1>4. Tables
  BY <1>2 DEF TypeOK, Tables
<1>5. CASE Top.op = "zero"
  <2>1. Goto("next") /\ UNCHANGED channels /\ "next" \in Pcs
    BY <1>5 DEF deleted, Pcs
  <2>2. /\ n = 1 /\ DOMAIN frames = {1} /\ Walked(1) /\ ~Waiting
        /\ \A c \in allocated : users[c] # {}
    BY <1>1, <1>5, ZeroFacts
  <2>3. /\ frames' \in Seq(Frame) /\ frames' # <<>> /\ Len(frames') = 1 /\ DOMAIN frames' = {1}
        /\ frames'[1].op = "zero" /\ frames'[1].pc = "next" /\ frames'[1].np = np
        /\ frames'[1].i = frames[1].i /\ ~frames'[1].stale /\ Top' = frames'[1]
    BY <1>1, <1>2, <1>3, <1>5, <2>1, <2>2, GotoFacts
  <2>4. Tables' /\ IndexShape' /\ UsersAlive'
    BY <1>1, <1>4, <2>1 DEF Tables, MembershipInv, IndexShape, UsersAlive
  <2>5. Mirrored'
    <3>1. \A x \in Nicks, c \in Chans : Ending(x, c) => Ending(x, c)'
      BY <1>2, <2>2, <2>3 DEF Ending
    <3> QED BY <1>1, <2>1, <3>1 DEF MembershipInv, Mirrored, Listed
  <2>6. ~Waiting' /\ clearing' \in BOOLEAN
    BY <1>1, <1>2, <2>2 DEF Waiting, pending, TypeOK
  <2>7. FrameShape(frames'[1]) /\ FrameChan(1)'
    BY <1>2, <1>5, <2>2, <2>3 DEF FrameShape, FrameChan, AddOps, DelOps, PartPcs
  <2>8. Walked(1)'
    <3>1. /\ Top.pc \notin LeavePcs /\ Top'.pc \notin LeavePcs
          /\ frames'[1].op = frames[1].op /\ frames'[1].np = frames[1].np
          /\ channels' = channels /\ users' = users
      BY <1>1, <1>2, <1>5, <2>1, <2>2, <2>3 DEF LeavePcs
    <3> QED BY <2>2, <2>3, <3>1 DEF Walked
  <2>9. \A c \in allocated' : users'[c] # {}
    BY <1>1, <2>2
  <2> QED BY <2>3, <2>4, <2>5, <2>6, <2>7, <2>8, <2>9, OneHandler
<1>6. CASE Top.op # "zero"
  <2>1. Pop /\ IF Top.op = "quitdel" THEN UNCHANGED channels ELSE Unlist(np, cp)
    BY <1>6 DEF deleted
  <2>2. n = 1 => ~Waiting
    BY <1>1, <1>2 DEF StackShape, JoinPcs
  <2>3. /\ StackShape' /\ IndexShape' /\ Used' /\ HandlersChan' /\ PendingShape' /\ ServiceStays'
        /\ frames' \in Seq(Frame)
    BY <1>1, <2>1, <2>2, PopRest
  <2>4. /\ DOMAIN frames' = 1 .. n - 1
        /\ \A i \in 1 .. n - 1 : frames'[i] = frames[i]
        /\ n > 1 => Top' = frames[n - 1]
    BY <1>1, <1>2, <2>1, PopFacts
  <2>5. \A i \in 1 .. n : i = n \/ i \in 1 .. n - 1
    <3>1. n \in Nat \ {0}
      BY <1>2
    <3> HIDE DEF n
    <3> QED BY <3>1
  <2>6. cp \in Chans /\ Top.op \in DelOps
    BY <1>1, <1>2, <1>3, <1>6 DEF FrameShape
  <2>7. n > 1 => (Top.op = "quitdel" => frames[n - 1].op = "quit" /\ frames[n - 1].np = np)
    BY <1>2 DEF StackShape, Nested
  <2>8. n = 1 => Top.op # "quitdel"
    BY <1>2 DEF StackShape
  <2> HIDE DEF np, cp
  <2>9. /\ channels' \in [Nicks -> Seq(Chans)]
        /\ \A x \in Nicks : IsInjective(channels'[x])
        /\ \A x \in Nicks, c \in Chans :
             Listed(x, c)' <=> Listed(x, c) /\ ~(Top.op # "quitdel" /\ x = np /\ c = cp)
        /\ \A x \in Nicks : x # np \/ Top.op = "quitdel" => channels'[x] = channels[x]
    <3>1. CASE Top.op = "quitdel"
      BY <1>4, <2>1, <3>1 DEF Tables, Listed
    <3>2. CASE Top.op # "quitdel"
      BY <1>3, <1>4, <2>1, <2>6, <3>2, UnlistFacts
    <3> QED BY <3>1, <3>2
  <2>10. TypeOK' /\ UsersAlive'
    BY <1>1, <1>2, <2>3, <2>9 DEF TypeOK, MembershipInv, UsersAlive, pending
  <2>11. Mirrored'
    <3> SUFFICES ASSUME NEW x \in Nicks, NEW c \in Chans
                 PROVE  /\ x \in users[c] => Listed(x, c)'
                        /\ Listed(x, c)' /\ ~Ending(x, c)' => x \in users[c]
      BY <1>1 DEF Mirrored
    <3>1. CASE x = np /\ c = cp
      <4>1. Listed(x, c)' => Ending(x, c)'
        <5>1. Listed(x, c)' => Top.op = "quitdel" /\ n > 1
          BY <1>2, <2>8, <2>9, <3>1
        <5>2. n > 1 => n - 1 \in 1 .. n - 1
          BY <1>2
        <5> QED BY <2>4, <2>7, <3>1, <5>1, <5>2 DEF Ending
      <4> QED BY <1>3, <3>1, <4>1 DEF np, cp
    <3>2. CASE ~(x = np /\ c = cp)
      <4>1. Listed(x, c)' <=> Listed(x, c)
        BY <2>9, <3>2
      <4>2. ASSUME Ending(x, c)
            PROVE  Ending(x, c)'
        <5>1. PICK i \in 1 .. n :
                /\ frames[i].np = x
                /\ \/ frames[i].cp = c /\ frames[i].pc \in {"lostchannel", "deleted"}
                      /\ frames[i].op # "burst"
                   \/ frames[i].op \in {"zero", "quit"}
          BY <1>2, <4>2 DEF Ending
        <5>2. i # n
          BY <1>2, <2>6, <3>2, <5>1 DEF np, cp, DelOps
        <5> QED BY <2>4, <2>5, <5>1, <5>2 DEF Ending
      <4> QED BY <4>1, <4>2 DEF MembershipInv, Mirrored
    <3> QED BY <3>1, <3>2
  <2>12. Walks'
    <3> SUFFICES ASSUME NEW i \in 1 .. n - 1, frames[i].op \in {"zero", "quit"}
                 PROVE  Walked(i)'
      BY <2>4 DEF Walks, Walked
    <3>1. Walked(i) /\ frames'[i] = frames[i] /\ frames[i].np = np /\ Top.op = "quitdel"
      <4>1. i \in 1 .. n
        BY <1>2
      <4>2. frames[i].np = np /\ Top.op = "quitdel"
        BY <1>1, <1>2, Walkers DEF np
      <4> QED BY <1>2, <2>4, <4>1, <4>2 DEF MembershipInv, Walks
    <3>2. Top.pc \notin LeavePcs /\ Top'.pc \notin LeavePcs
      <4>1. n - 1 \in 1 .. n - 1 /\ n > 1
        BY <1>2
      <4> QED BY <1>1, <1>2, <2>4, <4>1, BelowTop DEF JoinPcs, LeavePcs
    <3>3. channels'[np] = channels[np] /\ users' = users
      BY <1>1, <1>3, <2>9, <3>1 DEF np
    <3> QED BY <3>1, <3>2, <3>3 DEF Walked
  <2> QED BY <2>3, <2>10, <2>11, <2>12 DEF MembershipInv
<1> QED BY <1>5, <1>6

-----------------------------------------------------------------------------
(* A nick leaves the network. *)

\* The nick, and the place of its handler in the stack.
LEMMA QuitFacts ==
  ASSUME MembershipInv, frames # <<>>, Top.pc \in {"nicklost", "gone"}
  PROVE  /\ frames \in Seq(Frame) /\ TypeOK /\ StackShape /\ Tables
         /\ Len(frames) \in Nat \ {0} /\ DOMAIN frames = 1 .. Len(frames)
         /\ Top = frames[Len(frames)]
         /\ 1 \in 1 .. Len(frames) /\ Len(frames) \in 1 .. Len(frames)
         /\ FrameChan(Len(frames)) /\ FrameShape(Top) /\ Walked(Len(frames)) /\ Top \in Frame
         /\ Top.op = "quit" /\ Top.np \in Nicks /\ ~Top.stale
         /\ \A i \in 1 .. Len(frames) - 1 : frames[i].op \notin {"zero", "quit"}
         /\ Len(frames) = 1 => ~Waiting
         /\ \A i \in 1 .. Len(frames) : i = Len(frames) \/ i \in 1 .. Len(frames) - 1
<1>1. /\ frames \in Seq(Frame) /\ TypeOK /\ StackShape /\ Tables
      /\ Len(frames) \in Nat \ {0} /\ DOMAIN frames = 1 .. Len(frames)
      /\ Top = frames[Len(frames)]
      /\ 1 \in 1 .. Len(frames) /\ Len(frames) \in 1 .. Len(frames)
  BY TopFacts DEF MembershipInv, TypeOK, Tables
<1>2. FrameChan(Len(frames)) /\ FrameShape(Top) /\ Walked(Len(frames)) /\ Top \in Frame
  BY <1>1, TopFacts DEF MembershipInv, HandlersChan, StackShape, Walks
<1>3. Top.op = "quit"
  BY <1>2 DEF FrameShape, Frame, Ops, AddOps, DelOps, JoinPcs, PartPcs, BurstPcs
<1>4. Top.np \in Nicks /\ ~Top.stale
  BY <1>1, <1>2, <1>3 DEF FrameShape, FrameChan
<1>5. \A i \in 1 .. Len(frames) - 1 : frames[i].op \notin {"zero", "quit"}
  BY <1>1, <1>3, Walkers
<1>6. Len(frames) = 1 => ~Waiting
  BY <1>1 DEF StackShape, JoinPcs
<1>7. \A i \in 1 .. Len(frames) : i = Len(frames) \/ i \in 1 .. Len(frames) - 1
  <2>1. Len(frames) \in Nat \ {0}
    BY <1>1
  <2> QED BY <2>1
<1> QED BY <1>1, <1>2, <1>3, <1>4, <1>5, <1>6, <1>7

\* The walk of the array has come to its end.
LEMMA WalkDone ==
  ASSUME MembershipInv, frames # <<>>, Top.pc = "nicklost", ~(Top.i <= Len(channels[Top.np]))
  PROVE  \A c \in Chans : Top.np \notin users[c]
<1> DEFINE np == Top.np
           a == channels[np]
<1>1. /\ Walked(Len(frames)) /\ Top = frames[Len(frames)] /\ Top.op = "quit" /\ np \in Nicks
      /\ Top \in Frame /\ Tables
  BY QuitFacts
<1>2. a \in Seq(Chans) /\ Top.i \in Nat
  BY <1>1 DEF Tables, Frame
<1>3. \A j \in DOMAIN a : j < Top.i
  <2> HIDE DEF a
  <2>1. ~(Top.i <= Len(a))
    BY DEF a
  <2> QED BY <1>2, <2>1
<1>4. \A j \in DOMAIN a : np \notin users[a[j]]
  BY <1>1, <1>3 DEF Walked, LeavePcs
<1> QED BY <1>1, <1>4 DEF MembershipInv, Mirrored, Listed

\* The next channel of the nick.
LEMMA WalkStep ==
  ASSUME MembershipAssumption, MembershipInv, addordelnick, Top.i <= Len(channels[Top.np])
  PROVE  MembershipInv'
<1> DEFINE n == Len(frames)
           np == Top.np
           a == channels[np]
           c == a[Top.i]
           f == [Top EXCEPT !.i = @ + 1]
           g == NewFrame("quitdel", "del", np, c, FALSE)
<1>1. /\ frames # <<>> /\ Top.pc = "nicklost"
      /\ frames' = Front(frames) \o <<f, g>>
      /\ UNCHANGED <<alive, channels, index, users, allocated, pendingkicklist, pendingkilllist, clearing>>
  BY DEF addordelnick, InHook, Idle, pending
<1>2. /\ frames \in Seq(Frame) /\ TypeOK /\ StackShape /\ Tables
      /\ n \in Nat \ {0} /\ DOMAIN frames = 1 .. n /\ Top = frames[n]
      /\ 1 \in 1 .. n /\ n \in 1 .. n
      /\ FrameShape(Top) /\ Walked(n) /\ Top \in Frame
      /\ Top.op = "quit" /\ np \in Nicks /\ ~Top.stale
      /\ \A i \in 1 .. n - 1 : frames[i].op \notin {"zero", "quit"}
      /\ n = 1 => ~Waiting
  BY <1>1, QuitFacts
<1>3. /\ a \in Seq(Chans) /\ Len(a) \in Nat /\ DOMAIN a = 1 .. Len(a)
      /\ Top.i \in Nat /\ Top.i >= 1
  <2>1. a \in Seq(Chans) /\ Top.i \in Nat /\ Top.i >= 1
    BY <1>2 DEF Tables, FrameShape, Frame
  <2> HIDE DEF a
  <2> QED BY <2>1
<1>4. Top.i \in DOMAIN a /\ c \in Chans /\ np \in users[c] /\ c \in allocated
  <2>1. Top.i \in DOMAIN a
    <3>1. Top.i <= Len(a)
      OBVIOUS
    <3> HIDE DEF a
    <3> QED BY <1>3, <3>1
  <2>2. np \in users[c]
    BY <1>2, <1>3, <2>1 DEF Walked
  <2>3. c \in Chans
    <3> HIDE DEF a
    <3> QED BY <1>3, <2>1
  <2> QED BY <2>1, <2>2, <2>3 DEF MembershipInv, IndexShape
<1> HIDE DEF c
<1>5. /\ f \in Frame /\ f.op = "quit" /\ f.pc = "nicklost" /\ f.np = np /\ f.cp = Top.cp
      /\ f.i = Top.i + 1 /\ ~f.stale
  <2>1. Top.i + 1 \in Nat
    BY <1>3
  <2> QED BY <1>1, <1>2, <2>1 DEF Frame
<1>6. /\ g \in Frame /\ FrameShape(g) /\ g.op = "quitdel" /\ g.pc = "del" /\ g.np = np /\ g.cp = c
      /\ ~g.stale
  BY <1>2, <1>4, ShapeOfStart DEF NewFrame
<1> HIDE DEF f, g
<1>7. /\ frames' \in Seq(Frame) /\ frames' # <<>> /\ Len(frames') = n + 1
      /\ DOMAIN frames' = 1 .. n + 1
      /\ \A i \in 1 .. n - 1 : frames'[i] = frames[i]
      /\ frames'[n] = f /\ frames'[n + 1] = g /\ Top' = g
  <2>1. /\ frames \in Seq(Frame) /\ frames # <<>> /\ f \in Frame /\ g \in Frame
        /\ frames' = Front(frames) \o <<f, g>>
    BY <1>1, <1>2, <1>5, <1>6
  <2>2. /\ frames' \in Seq(Frame) /\ Len(frames') = n + 1 /\ DOMAIN frames' = 1 .. n + 1
        /\ \A i \in 1 .. n - 1 : frames'[i] = frames[i]
        /\ frames'[n] = f /\ frames'[n + 1] = g
    BY <2>1, SpliceFacts
  <2>3. frames' # <<>> /\ Top' = g
    BY <1>2, <2>2 DEF Top, Last
  <2> QED BY <2>2, <2>3
<1>8. \A i \in 1 .. n + 1 : i = n + 1 \/ i = n \/ i \in 1 .. n - 1
  <2>1. n \in Nat \ {0}
    BY <1>2
  <2> HIDE DEF n
  <2> QED BY <2>1
<1>9. /\ n \in 1 .. n + 1 /\ n + 1 \in 1 .. n + 1 /\ (n + 1) - 1 = n
      /\ \A i \in 1 .. n - 1 : i \in 1 .. n + 1 /\ i \in 1 .. n
      /\ \A i \in 1 .. n : /\ frames'[i].op = frames[i].op /\ frames'[i].np = frames[i].np
                           /\ frames'[i].cp = frames[i].cp /\ frames'[i].pc = frames[i].pc
                           /\ frames'[i].stale = frames[i].stale
  <2>1. n \in Nat \ {0}
    BY <1>2
  <2>2. n \in 1 .. n + 1 /\ n + 1 \in 1 .. n + 1 /\ (n + 1) - 1 = n
        /\ \A i \in 1 .. n - 1 : i \in 1 .. n + 1 /\ i \in 1 .. n
    <3> HIDE DEF n
    <3> QED BY <2>1
  <2>3. \A i \in 1 .. n : i = n \/ i \in 1 .. n - 1
    <3> HIDE DEF n
    <3> QED BY <2>1
  <2>4. f.stale = Top.stale
    BY <1>2 DEF f, Frame
  <2> QED BY <1>1, <1>2, <1>5, <1>7, <2>2, <2>3, <2>4
<1>10. TypeOK'
  BY <1>1, <1>2, <1>7 DEF TypeOK
<1>11. StackShape'
  <2>1. ASSUME NEW i \in 1 .. n + 1
        PROVE  FrameShape(frames'[i])
    <3>1. FrameShape(f)
      BY <1>2, <1>3, <1>5 DEF FrameShape, AddOps, DelOps, f
    <3> QED BY <1>2, <1>6, <1>7, <1>8, <1>9, <3>1 DEF StackShape
  <2>2. ASSUME NEW i \in 1 .. n + 1, i > 1
        PROVE  Nested(i)'
    <3>1. CASE i = n + 1
      BY <1>1, <1>2, <1>5, <1>6, <1>7, <1>9, <3>1 DEF Nested
    <3>2. CASE i \in 1 .. n
      <4>1. i - 1 \in 1 .. n /\ Nested(i)
        BY <1>2, <2>2, <3>2 DEF StackShape
      <4> QED BY <1>1, <1>2, <1>9, <3>2, <4>1 DEF Nested
    <3> QED BY <1>2, <1>8, <1>9, <3>1, <3>2
  <2>3. /\ frames'[1].op # "quitdel"
        /\ Waiting' => frames'[1].pc \in JoinPcs
    BY <1>1, <1>2, <1>9 DEF StackShape, Waiting
  <2> QED BY <1>7, <2>1, <2>2, <2>3 DEF StackShape
<1>12. IndexShape' /\ UsersAlive'
  BY <1>1 DEF MembershipInv, IndexShape, UsersAlive
<1>13. Used'
  <2> SUFFICES ASSUME NEW d \in allocated, users[d] = {}
               PROVE  \E i \in 1 .. n + 1 : frames'[i].cp = d /\ frames'[i].pc \in {"lostchannel", "adding"}
    BY <1>1, <1>7 DEF Used
  <2>1. PICK i \in 1 .. n : frames[i].cp = d /\ frames[i].pc \in {"lostchannel", "adding"}
    BY <1>2 DEF MembershipInv, Used
  <2>2. i \in 1 .. n + 1
    BY <1>2
  <2> QED BY <1>9, <2>1, <2>2
<1>14. HandlersChan'
  <2>1. ASSUME NEW i \in 1 .. n
        PROVE  FrameChan(i)'
    <3>1. FrameChan(i)
      BY <1>2 DEF MembershipInv, HandlersChan
    <3> QED BY <1>1, <1>9, <3>1 DEF FrameChan
  <2>2. ASSUME NEW i, i = n + 1
        PROVE  FrameChan(i)'
    <3>1. frames'[i] = g
      BY <1>7, <2>2
    <3> QED BY <1>1, <1>4, <1>6, <3>1 DEF FrameChan
  <2>3. \A i \in 1 .. n + 1 : i = n + 1 \/ i \in 1 .. n
    BY <1>2
  <2> QED BY <1>7, <2>1, <2>2, <2>3 DEF HandlersChan
<1>15. PendingShape'
  <2>1. ASSUME NEW k, KickShape(k)
        PROVE  KickShape(k)'
    <3>1. \A i \in 1 .. n + 1 : /\ frames'[i].pc = "gone" => i \in 1 .. n /\ frames[i].pc = "gone"
                                /\ frames'[i].pc = "lostchannel" => i \in 1 .. n /\ frames[i].pc = "lostchannel"
      BY <1>2, <1>6, <1>7, <1>8, <1>9
    <3>2. frames'[1].cp = frames[1].cp /\ DOMAIN frames' = 1 .. n + 1 /\ DOMAIN frames = 1 .. n
          /\ UNCHANGED <<alive, allocated>>
      BY <1>1, <1>2, <1>7, <1>9
    <3>3. \A i \in 1 .. n : frames'[i].np = frames[i].np /\ frames'[i].cp = frames[i].cp
      BY <1>9
    <3> HIDE DEF n
    <3> QED BY <2>1, <3>1, <3>2, <3>3 DEF KickShape
  <2> QED BY <1>1, <2>1, FewerKicks DEF MembershipInv
<1>16. ServiceStays'
  <2>1. CASE n = 1
    BY <1>1, <1>2, <1>9, <2>1 DEF ServiceStays, NeedsChannel
  <2>2. CASE n > 1
    BY <1>1, <1>2, <1>9, <2>2 DEF MembershipInv, ServiceStays, NeedsChannel
  <2> QED BY <1>2, <2>1, <2>2
<1>17. Mirrored'
  <2>1. ASSUME NEW x \in Nicks, NEW d \in Chans, Ending(x, d)
        PROVE  Ending(x, d)'
    <3>1. PICK i \in 1 .. n :
            /\ frames[i].np = x
            /\ \/ frames[i].cp = d /\ frames[i].pc \in {"lostchannel", "deleted"}
                  /\ frames[i].op # "burst"
               \/ frames[i].op \in {"zero", "quit"}
      BY <1>2, <2>1 DEF Ending
    <3>2. i \in DOMAIN frames'
      BY <1>2, <1>7
    <3> QED BY <1>9, <3>1, <3>2 DEF Ending
  <2> QED BY <1>1, <2>1 DEF MembershipInv, Mirrored, Listed
<1>18. Walks'
  <2>1. ASSUME NEW i, i = n
        PROVE  Walked(i)'
    <3>1. /\ channels'[np] = a /\ users' = users /\ frames'[i] = f /\ Top' = g
      BY <1>1, <1>7, <2>1
    <3>2. ASSUME NEW j \in DOMAIN a
          PROVE  /\ j >= Top.i + 1 => np \in users[a[j]]
                 /\ j < Top.i + 1 /\ np \in users[a[j]] => j = Top.i
      <4>1. /\ j >= Top.i => np \in users[a[j]]
            /\ ~(j < Top.i /\ np \in users[a[j]])
        BY <1>1, <1>2 DEF Walked, LeavePcs
      <4> HIDE DEF a
      <4>2. j \in Nat
        BY <1>3
      <4> QED BY <1>3, <4>1, <4>2
    <3>3. c = a[Top.i] /\ Top.i < Top.i + 1 /\ (Top.i + 1) - 1 = Top.i /\ Top.i \in DOMAIN a
      BY <1>3, <1>4 DEF c
    <3> HIDE DEF a, np
    <3> QED BY <1>5, <1>6, <3>1, <3>2, <3>3 DEF Walked, LeavePcs
  <2>2. ASSUME NEW i \in 1 .. n + 1, i # n
        PROVE  Walked(i)'
    <3>1. frames'[i].op \notin {"zero", "quit"}
      BY <1>2, <1>6, <1>7, <1>8, <2>2
    <3> QED BY <3>1 DEF Walked
  <2> QED BY <1>7, <2>1, <2>2 DEF Walks
<1> QED BY <1>10, <1>11, <1>12, <1>13, <1>14, <1>15, <1>16, <1>17, <1>18 DEF MembershipInv

\* The nick has left its channels: no kick and no kill names it any more.
LEMMA WalkEnd ==
  ASSUME MembershipAssumption, MembershipInv, addordelnick, ~(Top.i <= Len(channels[Top.np]))
  PROVE  MembershipInv'
<1> DEFINE n == Len(frames)
           np == Top.np
<1>1. /\ frames # <<>> /\ Top.pc = "nicklost" /\ Goto("gone") /\ "gone" \in Pcs
      /\ channels' = [channels EXCEPT ![np] = <<>>]
      /\ pendingkicklist' = checkpendingkicknicks(np)
      /\ pendingkilllist' = pendingkilllist \ {np}
      /\ UNCHANGED <<alive, index, users, allocated, clearing>>
  BY DEF addordelnick, InHook, Idle, Pcs, HookPcs
<1>2. /\ frames \in Seq(Frame) /\ TypeOK /\ StackShape /\ Tables
      /\ n \in Nat \ {0} /\ DOMAIN frames = 1 .. n /\ Top = frames[n]
      /\ 1 \in 1 .. n /\ n \in 1 .. n
      /\ FrameShape(Top) /\ Top \in Frame
      /\ Top.op = "quit" /\ np \in Nicks /\ ~Top.stale
      /\ \A i \in 1 .. n - 1 : frames[i].op \notin {"zero", "quit"}
      /\ n = 1 => ~Waiting
  BY <1>1, QuitFacts
<1>3. /\ \A c \in Chans : np \notin users[c]
      /\ \A i \in 1 .. n : i = n \/ i \in 1 .. n - 1
  BY <1>1, WalkDone, QuitFacts
<1>4. /\ frames' \in Seq(Frame) /\ frames' # <<>>
      /\ Len(frames') = n /\ DOMAIN frames' = 1 .. n
      /\ \A i \in 1 .. n - 1 : frames'[i] = frames[i]
      /\ \A i \in 1 .. n :
           /\ frames'[i].op = frames[i].op /\ frames'[i].np = frames[i].np
           /\ frames'[i].cp = frames[i].cp /\ frames'[i].new = frames[i].new
           /\ frames'[i].i = frames[i].i /\ frames'[i].stale = frames[i].stale
      /\ frames'[n].pc = "gone" /\ Top' = frames'[n]
  BY <1>1, <1>2, GotoFacts
<1>5. /\ channels' \in [Nicks -> Seq(Chans)] /\ channels'[np] = <<>>
      /\ \A x \in Nicks : x # np => channels'[x] = channels[x]
  <2>1. channels \in [Nicks -> Seq(Chans)] /\ np \in Nicks /\ <<>> \in Seq(Chans)
    BY <1>2 DEF Tables
  <2> HIDE DEF np
  <2> QED BY <1>1, <2>1
<1>6. ASSUME NEW x \in Nicks
      PROVE  IsInjective(channels'[x])
  <2>1. CASE x = np
    <3>1. DOMAIN channels'[x] = {}
      BY <1>5, <2>1
    <3> QED BY <3>1 DEF IsInjective
  <2>2. CASE x # np
    BY <1>2, <1>5, <2>2 DEF Tables
  <2> QED BY <2>1, <2>2
<1> HIDE DEF np
<1>7. /\ pendingkicklist' \in Seq(Kick) /\ DOMAIN pendingkicklist' = DOMAIN pendingkicklist
      /\ \A i \in DOMAIN pendingkicklist :
           /\ pendingkicklist'[i].chan = pendingkicklist[i].chan
           /\ pendingkicklist'[i].stale = pendingkicklist[i].stale
           /\ pendingkicklist'[i].target = IF pendingkicklist[i].target = np THEN NULL
                                           ELSE pendingkicklist[i].target
  <2>1. pendingkicklist \in Seq(Kick)
    BY <1>2 DEF TypeOK
  <2>2. DOMAIN pendingkicklist' = DOMAIN pendingkicklist
    BY <1>1 DEF checkpendingkicknicks
  <2>3. ASSUME NEW i \in DOMAIN pendingkicklist
        PROVE  /\ pendingkicklist'[i] \in Kick
               /\ pendingkicklist'[i].chan = pendingkicklist[i].chan
               /\ pendingkicklist'[i].stale = pendingkicklist[i].stale
               /\ pendingkicklist'[i].target = IF pendingkicklist[i].target = np THEN NULL
                                               ELSE pendingkicklist[i].target
    <3>1. pendingkicklist[i] \in Kick
      BY <2>1
    <3>2. pendingkicklist'[i] =
            [pendingkicklist[i] EXCEPT !.target = IF pendingkicklist[i].target = np THEN NULL
                                                  ELSE pendingkicklist[i].target]
      BY <1>1 DEF checkpendingkicknicks
    <3> QED BY <3>1, <3>2 DEF Kick
  <2>4. pendingkicklist' \in Seq(Kick)
    <3>1. pendingkicklist' = [i \in 1 .. Len(pendingkicklist) |-> pendingkicklist'[i]]
      BY <1>1, <2>1 DEF checkpendingkicknicks
    <3>2. Len(pendingkicklist) \in Nat /\ DOMAIN pendingkicklist = 1 .. Len(pendingkicklist)
      BY <2>1
    <3> QED BY <2>3, <3>1, <3>2, SeqFacts
  <2> QED BY <2>2, <2>3, <2>4
<1>8. TypeOK'
  BY <1>1, <1>2, <1>4, <1>5, <1>6, <1>7 DEF TypeOK
<1>9. StackShape'
  <2>1. FrameShape(frames'[n])
    <3>1. /\ frames'[n].op = "quit" /\ frames'[n].np = frames[n].np
          /\ frames'[n].cp = frames[n].cp /\ frames'[n].i = frames[n].i /\ FrameShape(frames[n])
      BY <1>2, <1>4
    <3> QED BY <1>4, <3>1 DEF FrameShape, AddOps, DelOps
  <2>2. Waiting' => Waiting
    <3>1. pendingkicklist' # <<>> => pendingkicklist # <<>>
      <4>1. pendingkicklist = <<>> => DOMAIN pendingkicklist' = {}
        BY <1>7
      <4> QED BY <1>7, <4>1
    <3> QED BY <1>1, <3>1 DEF Waiting
  <2>3. \A i \in 1 .. n : frames'[i].i >= frames[i].i
    BY <1>2, <1>4, TopFacts DEF Frame
  <2> QED BY <1>1, <1>2, <1>4, <2>1, <2>2, <2>3, StackKept
<1>10. IndexShape' /\ UsersAlive'
  BY <1>1 DEF MembershipInv, IndexShape, UsersAlive
<1>11. Used'
  <2> SUFFICES ASSUME NEW c \in allocated, users[c] = {}
               PROVE  \E i \in 1 .. n : frames'[i].cp = c /\ frames'[i].pc \in {"lostchannel", "adding"}
    BY <1>1, <1>4 DEF Used
  <2>1. PICK i \in 1 .. n : frames[i].cp = c /\ frames[i].pc \in {"lostchannel", "adding"}
    BY <1>2 DEF MembershipInv, Used
  <2>2. i # n
    BY <1>1, <1>2, <2>1
  <2> QED BY <1>3, <1>4, <2>1, <2>2
<1>12. HandlersChan'
  <2>1. ASSUME NEW i \in 1 .. n - 1
        PROVE  FrameChan(i)'
    <3>1. FrameChan(i) /\ frames'[i] = frames[i]
      BY <1>2, <1>4 DEF MembershipInv, HandlersChan
    <3> QED BY <1>1, <3>1 DEF FrameChan
  <2>2. FrameChan(n)'
    <3>1. n' = n /\ ~frames'[n].stale
      BY <1>2, <1>4
    <3> QED BY <1>4, <3>1 DEF FrameChan
  <2> QED BY <1>3, <1>4, <2>1, <2>2 DEF HandlersChan
<1>13. PendingShape'
  <2>1. ASSUME NEW i \in DOMAIN pendingkicklist, NEW k, NEW k2,
               k = pendingkicklist[i], KickShape(k), k2 = pendingkicklist'[i]
        PROVE  KickShape(k2)'
    <3>1. /\ k2.chan = k.chan /\ k2.stale = k.stale
          /\ k2.target = IF k.target = np THEN NULL ELSE k.target
      BY <1>7, <2>1
    <3>2. frames'[1].cp = frames[1].cp
      BY <1>2, <1>4
    <3>3. \A j \in 1 .. n : /\ frames'[j].pc = "lostchannel" => frames[j].pc = "lostchannel"
                            /\ frames'[j].pc = "gone" /\ j # n => frames[j].pc = "gone"
      BY <1>3, <1>4
    <3>4. frames'[n].np = np
      BY <1>2, <1>4 DEF np
    <3>5. /\ DOMAIN frames' = 1 .. n /\ DOMAIN frames = 1 .. n /\ UNCHANGED <<alive, allocated>>
          /\ \A j \in 1 .. n : frames'[j].np = frames[j].np /\ frames'[j].cp = frames[j].cp
      BY <1>1, <1>2, <1>4
    <3> HIDE DEF n
    <3>6. ASSUME k2.chan # NULL
          PROVE  /\ k2.chan = frames'[1].cp /\ k2.chan \in allocated'
                 /\ \A j \in DOMAIN frames' : frames'[j].pc = "lostchannel" => frames'[j].cp # k2.chan
      BY <2>1, <3>1, <3>2, <3>3, <3>5, <3>6 DEF KickShape
    <3>7. ASSUME k2.target # NULL
          PROVE  /\ k2.target \in alive' \ Services
                 /\ \A j \in DOMAIN frames' : frames'[j].pc = "gone" => frames'[j].np # k2.target
      BY <2>1, <3>1, <3>3, <3>4, <3>5, <3>7 DEF KickShape
    <3> QED BY <2>1, <3>1, <3>6, <3>7 DEF KickShape
  <2> QED BY <1>1, <1>7, <2>1, KicksKept DEF MembershipInv
<1>14. ServiceStays'
  <2>1. CASE n = 1
    BY <1>4, <2>1 DEF ServiceStays, NeedsChannel
  <2>2. CASE n # 1
    <3>1. frames'[1] = frames[1] /\ n > 1
      BY <1>2, <1>4, <2>2
    <3> QED BY <1>1, <1>4, <3>1 DEF MembershipInv, ServiceStays, NeedsChannel
  <2> QED BY <2>1, <2>2
<1>15. Mirrored'
  <2> SUFFICES ASSUME NEW x \in Nicks, NEW c \in Chans
               PROVE  /\ x \in users[c] => Listed(x, c)'
                      /\ Listed(x, c)' /\ ~Ending(x, c)' => x \in users[c]
    BY <1>1 DEF Mirrored
  <2>1. CASE x = np
    BY <1>3, <1>5, <2>1 DEF Listed
  <2>2. CASE x # np
    <3>1. Listed(x, c)' <=> Listed(x, c)
      BY <1>5, <2>2 DEF Listed
    <3>2. ASSUME Ending(x, c)
          PROVE  Ending(x, c)'
      <4>1. PICK i \in 1 .. n :
              /\ frames[i].np = x
              /\ \/ frames[i].cp = c /\ frames[i].pc \in {"lostchannel", "deleted"}
                    /\ frames[i].op # "burst"
                 \/ frames[i].op \in {"zero", "quit"}
        BY <1>2, <3>2 DEF Ending
      <4>2. i # n
        BY <1>2, <2>2, <4>1 DEF np
      <4> QED BY <1>3, <1>4, <4>1, <4>2 DEF Ending
    <3> QED BY <3>1, <3>2 DEF MembershipInv, Mirrored
  <2> QED BY <2>1, <2>2
<1>16. Walks'
  <2>1. ASSUME NEW i, i = n
        PROVE  Walked(i)'
    <3>1. frames'[i].np = np /\ DOMAIN channels'[np] = {} /\ Top'.pc \notin LeavePcs
          /\ channels'[np] = <<>>
      BY <1>2, <1>4, <1>5, <2>1 DEF np, LeavePcs
    <3> QED BY <3>1 DEF Walked
  <2>2. ASSUME NEW i \in 1 .. n - 1
        PROVE  Walked(i)'
    <3>1. frames'[i].op \notin {"zero", "quit"}
      BY <1>2, <1>4
    <3> QED BY <3>1 DEF Walked
  <2> QED BY <1>3, <1>4, <2>1, <2>2 DEF Walks
<1> QED BY <1>8, <1>9, <1>10, <1>11, <1>12, <1>13, <1>14, <1>15, <1>16 DEF MembershipInv

LEMMA addordelnickInv ==
  ASSUME MembershipAssumption, MembershipInv, addordelnick
  PROVE  MembershipInv'
<1>1. CASE Top.i <= Len(channels[Top.np])
  BY <1>1, WalkStep
<1>2. CASE ~(Top.i <= Len(channels[Top.np]))
  BY <1>2, WalkEnd
<1> QED BY <1>1, <1>2

LEMMA NickGoneInv ==
  ASSUME MembershipInv, NickGone
  PROVE  MembershipInv'
<1> DEFINE n == Len(frames)
           np == Top.np
<1>1. /\ frames # <<>> /\ Top.pc = "gone" /\ Pop /\ alive' = alive \ {np}
      /\ UNCHANGED <<channels, index, users, allocated, pending, clearing>>
  BY HookDoneFacts DEF NickGone, MembershipInv
<1>2. /\ frames \in Seq(Frame) /\ TypeOK /\ Tables
      /\ n \in Nat \ {0} /\ DOMAIN frames = 1 .. n /\ Top = frames[n]
      /\ Walked(n) /\ Top.op = "quit" /\ np \in Nicks
      /\ \A i \in 1 .. n - 1 : frames[i].op \notin {"zero", "quit"}
      /\ n = 1 => ~Waiting
      /\ \A i \in 1 .. n : i = n \/ i \in 1 .. n - 1
  BY <1>1, QuitFacts
<1>3. /\ StackShape' /\ IndexShape' /\ Used' /\ HandlersChan' /\ PendingShape' /\ ServiceStays'
      /\ frames' \in Seq(Frame)
  BY <1>1, <1>2, PopRest
<1>4. /\ DOMAIN frames' = 1 .. n - 1
      /\ \A i \in 1 .. n - 1 : frames'[i] = frames[i]
  BY <1>1, <1>2, PopFacts
<1>5. channels[np] = <<>>
  BY <1>1, <1>2 DEF Walked
<1> HIDE DEF np
<1>6. \A c \in Chans : ~Listed(np, c) /\ np \notin users[c]
  BY <1>2, <1>5 DEF MembershipInv, Mirrored, Listed
<1>7. TypeOK'
  BY <1>1, <1>2, <1>3 DEF TypeOK, pending
<1>8. UsersAlive'
  BY <1>1, <1>6 DEF MembershipInv, UsersAlive
<1>9. Mirrored'
  <2>1. ASSUME NEW x \in Nicks, NEW c \in Chans, Ending(x, c), x # np
        PROVE  Ending(x, c)'
    <3>1. PICK i \in 1 .. n :
            /\ frames[i].np = x
            /\ \/ frames[i].cp = c /\ frames[i].pc \in {"lostchannel", "deleted"}
                  /\ frames[i].op # "burst"
               \/ frames[i].op \in {"zero", "quit"}
      BY <1>2, <2>1 DEF Ending
    <3>2. i # n
      BY <1>2, <2>1, <3>1 DEF np
    <3> QED BY <1>2, <1>4, <3>1, <3>2 DEF Ending
  <2> QED BY <1>1, <1>6, <2>1 DEF MembershipInv, Mirrored, Listed
<1>10. Walks'
  BY <1>2, <1>4 DEF Walks, Walked
<1> QED BY <1>3, <1>7, <1>8, <1>9, <1>10 DEF MembershipInv

-----------------------------------------------------------------------------
(* A callback asks for a kick or a kill. *)

\* Requests are only made in a hook of a join, and only one that the outermost handler survives.
LEMMA RequestInv ==
  ASSUME MembershipInv, frames # <<>>, Top.pc \in JoinPcs, UNCHANGED <<tables, frames, clearing>>,
         pendingkicklist' \in Seq(Kick), pendingkilllist' \subseteq Nicks \ Services,
         PendingShape',
         Len(frames) = 1 /\ NeedsChannel => users[Top.cp] \cap Services # {}
  PROVE  MembershipInv'
<1>1. /\ frames \in Seq(Frame) /\ TypeOK /\ StackShape
      /\ Len(frames) \in Nat \ {0} /\ DOMAIN frames = 1 .. Len(frames)
      /\ Top = frames[Len(frames)] /\ 1 \in DOMAIN frames
  BY TopFacts DEF MembershipInv, TypeOK
<1>2. frames[1].pc \in JoinPcs /\ Top.cp = frames[1].cp
  BY <1>1, JoiningStack
<1>3. UNCHANGED <<alive, channels, index, users, allocated, frames, clearing>>
  BY DEF tables
<1>4. TypeOK'
  BY <1>1, <1>3 DEF TypeOK
<1>5. StackShape'
  BY <1>1, <1>2, <1>3 DEF StackShape, Nested
<1>6. IndexShape' /\ UsersAlive' /\ Used' /\ HandlersChan' /\ Mirrored' /\ Walks'
  BY <1>3 DEF MembershipInv, IndexShape, UsersAlive, Used, HandlersChan, FrameChan, Mirrored, Ending,
              Listed, Walks, Walked, Top
<1>7. ServiceStays'
  <2>1. Len(frames) = 1 \/ Len(frames) > 1
    BY <1>1
  <2> QED BY <1>2, <1>3, <2>1 DEF MembershipInv, ServiceStays, NeedsChannel
<1> QED BY <1>4, <1>5, <1>6, <1>7 DEF MembershipInv

LEMMA killuserInv ==
  ASSUME HooksAssumption, MembershipInv, NEW np \in Nicks, killuser(np)
  PROVE  MembershipInv'
<1>1. /\ frames # <<>> /\ Top.pc = "join" /\ np \notin Services
      /\ pendingkilllist' = pendingkilllist \cup {np}
      /\ UNCHANGED <<tables, pendingkicklist, frames, clearing>>
  BY DEF killuser, InHook, Idle, HooksAssumption
<1>2. /\ frames \in Seq(Frame) /\ TypeOK
      /\ Len(frames) \in Nat \ {0} /\ Top = frames[Len(frames)]
  BY <1>1, TopFacts DEF MembershipInv, TypeOK
<1>3. PendingShape'
  <2>1. ASSUME NEW k, KickShape(k)
        PROVE  KickShape(k)'
    BY <1>1, <2>1 DEF KickShape, tables
  <2>2. pendingkicklist' = pendingkicklist
    BY <1>1
  <2>3. ASSUME NEW i \in DOMAIN pendingkicklist', NEW k, k = pendingkicklist'[i]
        PROVE  KickShape(k)'
    BY <2>1, <2>2, <2>3 DEF MembershipInv, PendingShape
  <2>4. pendingkilllist' \cap Services = {}
    BY <1>1 DEF MembershipInv, PendingShape
  <2> QED BY <2>3, <2>4 DEF PendingShape
<1>4. pendingkicklist' \in Seq(Kick) /\ pendingkilllist' \subseteq Nicks \ Services
  BY <1>1, <1>2 DEF TypeOK, MembershipInv, PendingShape
<1>5. ~(Len(frames) = 1 /\ NeedsChannel)
  BY <1>1, <1>2 DEF NeedsChannel
<1> QED BY <1>1, <1>3, <1>4, <1>5, RequestInv DEF JoinPcs

LEMMA KickInHookInv ==
  ASSUME MembershipAssumption, HooksAssumption, MembershipInv, ~Idle,
         NEW cp \in Chans, NEW np \in Nicks, localkickuser(cp, np)
  PROVE  MembershipInv'
<1> DEFINE k == [chan |-> cp, target |-> np, stale |-> FALSE]
<1>1. /\ frames # <<>> /\ Top.pc \in JoinPcs
      /\ cp \in allocated /\ np \in alive /\ cp = Top.cp /\ np \in users[cp] \ Services
      /\ Top.pc = "newnick" => users[cp] \cap Services # {}
      /\ ~(Top.pc = "newchannel" /\ Top.op = "burst")
      /\ pendingkicklist' = <<k>> \o pendingkicklist
      /\ UNCHANGED <<tables, pendingkilllist, frames, clearing>>
  BY DEF localkickuser, Idle, HooksAssumption
<1>2. /\ frames \in Seq(Frame) /\ TypeOK /\ StackShape
      /\ Len(frames) \in Nat \ {0} /\ Top = frames[Len(frames)]
  BY <1>1, TopFacts DEF MembershipInv, TypeOK
<1>3. k \in Kick
  BY DEF Kick
<1>4. /\ \A i \in DOMAIN frames : frames[i].pc \in JoinPcs
      /\ Top.cp = frames[1].cp
  BY <1>1, <1>2, JoiningStack
<1>5. /\ k.chan = cp /\ k.target = np /\ ~k.stale
  OBVIOUS
<1> HIDE DEF k
<1>6. /\ pendingkicklist' \in Seq(Kick)
      /\ \A i \in DOMAIN pendingkicklist' :
           IF i = 1 THEN pendingkicklist'[i] = k
           ELSE i - 1 \in DOMAIN pendingkicklist /\ pendingkicklist'[i] = pendingkicklist[i - 1]
  <2>1. pendingkicklist \in Seq(Kick)
    BY <1>2 DEF TypeOK
  <2> QED BY <1>1, <1>3, <2>1, PrependFacts
<1>7. PendingShape'
  <2>1. ASSUME NEW x, KickShape(x)
        PROVE  KickShape(x)'
    BY <1>1, <2>1 DEF KickShape, tables
  <2>2. KickShape(k)
    BY <1>1, <1>4, <1>5 DEF KickShape, JoinPcs
  <2>3. ASSUME NEW i \in DOMAIN pendingkicklist', NEW x, x = pendingkicklist'[i]
        PROVE  KickShape(x)'
    <3>1. KickShape(x)
      BY <1>6, <2>2, <2>3 DEF MembershipInv, PendingShape
    <3> QED BY <2>1, <3>1
  <2>4. pendingkilllist' \cap Services = {}
    BY <1>1 DEF MembershipInv, PendingShape
  <2> QED BY <2>3, <2>4 DEF PendingShape
<1>8. pendingkilllist' \subseteq Nicks \ Services
  BY <1>1, <1>2 DEF TypeOK, MembershipInv, PendingShape
<1>9. Len(frames) = 1 /\ NeedsChannel => users[Top.cp] \cap Services # {}
  BY <1>1, <1>2 DEF NeedsChannel
<1> QED BY <1>1, <1>6, <1>7, <1>8, <1>9, RequestInv

-----------------------------------------------------------------------------
(* The invariant, and the properties it implies. *)

LEMMA InitInv ==
  ASSUME MembershipAssumption, Init
  PROVE  MembershipInv
<1>1. /\ frames = <<>> /\ DOMAIN frames = {} /\ pendingkicklist = <<>> /\ DOMAIN pendingkicklist = {}
      /\ pendingkilllist = {} /\ clearing = FALSE /\ ~Waiting
  BY DEF Init, Waiting
<1>2. TypeOK
  <2>1. \A np \in Nicks : channels[np] = <<>>
    BY DEF Init
  <2>2. \A np \in Nicks : IsInjective(channels[np])
    BY <2>1 DEF IsInjective
  <2>3. alive \subseteq Nicks /\ users \in [Chans -> SUBSET Nicks] /\ allocated \subseteq Chans
        /\ index \in [Names -> Chans \cup {NULL}] /\ channels \in [Nicks -> Seq(Chans)]
    BY DEF Init
  <2>4. frames \in Seq(Frame) /\ pendingkicklist \in Seq(Kick)
    BY <1>1
  <2>5. clearing \in BOOLEAN /\ pendingkilllist \subseteq Nicks
    BY <1>1
  <2> QED BY <2>2, <2>3, <2>4, <2>5 DEF TypeOK
<1>3. StackShape /\ HandlersChan /\ Walks
  BY <1>1 DEF StackShape, HandlersChan, Walks
<1>4. Used /\ ServiceStays
  BY <1>1 DEF Used, ServiceStays, Init
<1>5. PendingShape
  BY <1>1 DEF PendingShape
<1>6. IndexShape /\ UsersAlive
  BY DEF Init, IndexShape, UsersAlive, MembershipAssumption
<1>7. Mirrored
  <2>1. \A np \in Nicks : DOMAIN channels[np] = {}
    BY DEF Init
  <2>2. \A cp \in Chans : users[cp] = {}
    BY DEF Init
  <2> QED BY <2>1, <2>2 DEF Mirrored, Listed
<1> QED BY <1>2, <1>3, <1>4, <1>5, <1>6, <1>7 DEF MembershipInv

LEMMA MessagesInv ==
  ASSUME MembershipAssumption, HooksAssumption, MembershipInv, Messages
  PROVE  MembershipInv'
<1>1. ASSUME NEW np \in Nicks, NEW n \in Names, handlejoinmsg(np, n) \/ localcreatechannel(np, n)
      PROVE  MembershipInv'
  BY <1>1, handlejoinmsgInv, localcreatechannelInv
<1>2. ASSUME NEW np \in Nicks, NEW cp \in Chans, localjoinchannel(np, cp)
      PROVE  MembershipInv'
  BY <1>2, JoinIdleInv, JoinInHookInv
<1>3. ASSUME NEW np \in Nicks, NEW cp \in Chans, handlepartmsg(np, cp) \/ handlekickmsg(np, cp)
      PROVE  MembershipInv'
  BY <1>3, handlepartmsgInv
<1>4. ASSUME NEW np \in Nicks, NEW cp \in Chans, localkickuser(cp, np)
      PROVE  MembershipInv'
  BY <1>4, handlepartmsgInv, KickInHookInv
<1>5. ASSUME NEW n \in Names, handleburstmsg(n)
      PROVE  MembershipInv'
  BY <1>5, handleburstmsgInv
<1>6. ASSUME NEW np \in Nicks, killuser(np) \/ JoinZero(np) \/ NickLost(np) \/ NewNick(np)
      PROVE  MembershipInv'
  BY <1>6, killuserInv, JoinZeroInv, NewNickInv
<1> QED BY <1>1, <1>2, <1>3, <1>4, <1>5, <1>6 DEF Messages

LEMMA HandlersInv ==
  ASSUME MembershipAssumption, MembershipInv, Handlers
  PROVE  MembershipInv'
<1>1. ASSUME NEW np \in Nicks, BurstUser(np) \/ clearpendingkills(np)
      PROVE  MembershipInv'
  BY <1>1, BurstUserInv, clearpendingkillsInv
<1>2. CASE BurstDone \/ EndOfHooksQueue \/ clearpendingkicks
  BY <1>2, BurstDoneInv, EndOfHooksQueueInv, clearpendingkicksInv
<1>3. CASE AfterNewNick \/ AfterNewChannel \/ LastHook \/ AfterPart
  BY <1>3, AfterNewNickInv, AfterNewChannelInv, LastHookInv, AfterPartInv
<1>4. CASE delnickfromchannel \/ AfterLostNick \/ AfterLostChannel \/ deleted
  BY <1>4, delnickfromchannelInv, AfterLostNickInv, AfterLostChannelInv, deletedInv
<1>5. CASE NextZero \/ addordelnick \/ NickGone
  BY <1>5, NextZeroInv, addordelnickInv, NickGoneInv
<1> QED BY <1>1, <1>2, <1>3, <1>4, <1>5 DEF Handlers

LEMMA StutterInv ==
  ASSUME MembershipInv, UNCHANGED vars
  PROVE  MembershipInv'
<1>1. UNCHANGED <<alive, channels, index, users, allocated, pendingkicklist, pendingkilllist, frames,
                  clearing>>
  BY DEF vars, pending
<1>2. TypeOK'
  BY <1>1 DEF MembershipInv, TypeOK
<1>3. StackShape'
  BY <1>1 DEF MembershipInv, StackShape, Nested, Waiting
<1>4. IndexShape' /\ UsersAlive' /\ Used' /\ HandlersChan' /\ Mirrored' /\ Walks'
  BY <1>1 DEF MembershipInv, IndexShape, UsersAlive, Used, HandlersChan, FrameChan, Mirrored, Ending,
              Listed, Walks, Walked, Top
<1>5. PendingShape'
  <2>1. ASSUME NEW k, KickShape(k)
        PROVE  KickShape(k)'
    BY <1>1, <2>1 DEF KickShape
  <2> QED BY <1>1, <2>1, FewerKicks DEF MembershipInv
<1>6. ServiceStays'
  BY <1>1 DEF MembershipInv, ServiceStays, NeedsChannel, Waiting
<1> QED BY <1>2, <1>3, <1>4, <1>5, <1>6 DEF MembershipInv

LEMMA Invariance ==
  ASSUME HooksAssumption
  PROVE  Spec => []MembershipInv
<1>1. Init => MembershipInv
  BY InitInv, MembershipAssumption
<1>2. MembershipInv /\ [Next]_vars => MembershipInv'
  BY MessagesInv, HandlersInv, StutterInv, MembershipAssumption DEF Next
<1> QED BY <1>1, <1>2, PTL DEF Spec

\* MirrorExact: whatever callbacks kick, kill and join in the hooks of a join, and however deep the
\* handlers are nested, a user is in a channel's user hash exactly if the channel is in the
\* user's array, but for the memberships a running handler is about to end; the index holds the
\* allocated channels, and nobody is on a channel who has left the network.
THEOREM MembershipMirrored ==
  ASSUME HooksAssumption
  PROVE  Spec => []MirrorExact
<1>1. ASSUME MembershipInv
      PROVE  MirrorExact
  <2>1. ASSUME NEW np \in Nicks, NEW cp \in Chans
        PROVE  /\ np \in users[cp] => cp \in ToSet(channels[np])
               /\ cp \in ToSet(channels[np]) /\ <<np, cp>> \notin HalfGone /\ np \notin Leaving
                    => np \in users[cp]
    <3>1. cp \in ToSet(channels[np]) <=> Listed(np, cp)
      BY DEF ToSet, Listed
    <3>2. Ending(np, cp) => <<np, cp>> \in HalfGone \/ np \in Leaving
      BY DEF Ending, HalfGone, Leaving
    <3> QED BY <1>1, <3>1, <3>2 DEF MembershipInv, Mirrored
  <2> QED BY <1>1, <2>1 DEF MirrorExact, MembershipInv, IndexShape, Used, UsersAlive
<1> QED BY <1>1, Invariance, PTL

\* ChannelsAlive: the channel a handler goes on with after a hook has not been freed by a kick that
\* the hook's callbacks asked for, nor does a kick that waits name a nick that has left or a channel
\* that was freed.
THEOREM HandlersSafe ==
  ASSUME HooksAssumption
  PROVE  Spec => []ChannelsAlive
<1>1. ASSUME MembershipInv
      PROVE  ChannelsAlive
  <2>1. \A i \in DOMAIN frames : frames[i].stale => frames[i].pc \in {"newchannel", "join"}
    BY <1>1 DEF MembershipInv, HandlersChan, FrameChan
  <2>2. ASSUME NEW k \in ToSet(pendingkicklist), k.chan # NULL, k.target # NULL
        PROVE  ~k.stale /\ k.chan \in allocated /\ k.target \in alive
    <3>1. KickShape(k)
      BY <1>1 DEF MembershipInv, PendingShape, ToSet
    <3> QED BY <2>2, <3>1 DEF KickShape
  <2> QED BY <2>1, <2>2 DEF ChannelsAlive
<1> QED BY <1>1, Invariance, PTL

\* NoKickLeftOver: when no hook is running, no kick and no kill waits.
THEOREM KicksCarriedOut ==
  ASSUME HooksAssumption
  PROVE  Spec => []NoKickLeftOver
<1>1. ASSUME MembershipInv
      PROVE  NoKickLeftOver
  <2>1. hookqueuelength = 0 => \A i \in DOMAIN frames : frames[i].pc \notin HookPcs
    BY <1>1, QueueLength DEF MembershipInv, TypeOK
  <2>2. Waiting => frames # <<>> /\ frames[1].pc \in HookPcs
    BY <1>1 DEF MembershipInv, StackShape, JoinPcs, HookPcs
  <2>3. frames # <<>> => 1 \in DOMAIN frames
    BY <1>1 DEF MembershipInv, TypeOK
  <2> QED BY <2>1, <2>2, <2>3 DEF NoKickLeftOver, Waiting
<1> QED BY <1>1, Invariance, PTL

-----------------------------------------------------------------------------
(* A hook is never run about a channel that has been freed. *)

\* A frame that is stale is in the hook it was in.
StaleWaits ==
  \A i \in DOMAIN frames' : frames'[i].stale => i \in DOMAIN frames /\ frames[i].pc = frames'[i].pc

LEMMA StalePush ==
  ASSUME MembershipInv, NEW op, NEW pc, NEW np, NEW cp, NEW new, Push(NewFrame(op, pc, np, cp, new))
  PROVE  StaleWaits
<1> DEFINE f == NewFrame(op, pc, np, cp, new)
<1>1. ~f.stale
  BY DEF NewFrame
<1>2. frames \in Seq(Frame) /\ frames' = Append(frames, f)
  BY DEF MembershipInv, TypeOK, Push
<1> HIDE DEF f
<1>3. \A i \in DOMAIN frames' : IF i \in DOMAIN frames THEN frames'[i] = frames[i] ELSE frames'[i] = f
  BY <1>2
<1> QED BY <1>1, <1>3 DEF StaleWaits

LEMMA StaleGoto ==
  ASSUME MembershipInv, frames # <<>>, NEW pc \in Pcs, Goto(pc), ~Top.stale
  PROVE  StaleWaits
<1> DEFINE n == Len(frames)
<1>1. /\ frames \in Seq(Frame) /\ n \in Nat \ {0} /\ DOMAIN frames = 1 .. n /\ Top = frames[n]
  BY TopFacts DEF MembershipInv, TypeOK
<1>2. /\ DOMAIN frames' = 1 .. n
      /\ \A i \in 1 .. n - 1 : frames'[i] = frames[i]
      /\ \A i \in 1 .. n : frames'[i].stale = frames[i].stale
  BY <1>1, GotoFacts
<1>3. \A i \in 1 .. n : i = n \/ i \in 1 .. n - 1
  <2>1. n \in Nat \ {0}
    BY <1>1
  <2> HIDE DEF n
  <2> QED BY <2>1
<1> QED BY <1>1, <1>2, <1>3 DEF StaleWaits

LEMMA StalePop ==
  ASSUME MembershipInv, frames # <<>>, Pop
  PROVE  StaleWaits
<1> DEFINE n == Len(frames)
<1>1. /\ frames \in Seq(Frame) /\ n \in Nat \ {0} /\ DOMAIN frames = 1 .. n
  BY TopFacts DEF MembershipInv, TypeOK
<1>2. /\ DOMAIN frames' = 1 .. n - 1
      /\ \A i \in 1 .. n - 1 : frames'[i] = frames[i]
  BY <1>1, PopFacts
<1>3. \A i \in 1 .. n - 1 : i \in 1 .. n
  BY <1>1
<1> QED BY <1>1, <1>2, <1>3 DEF StaleWaits

LEMMA MessagesStale ==
  ASSUME MembershipInv, Messages
  PROVE  StaleWaits
<1>1. CASE UNCHANGED frames
  BY <1>1 DEF StaleWaits
<1>2. CASE \E np \in Nicks, n \in Names : handlejoinmsg(np, n) \/ localcreatechannel(np, n)
  BY <1>2, StalePush DEF handlejoinmsg, localcreatechannel
<1>3. CASE \E np \in Nicks, cp \in Chans :
             localjoinchannel(np, cp) \/ handlepartmsg(np, cp) \/ handlekickmsg(np, cp)
  BY <1>3, StalePush DEF localjoinchannel, handlepartmsg, handlekickmsg
<1>4. CASE \E np \in Nicks, cp \in Chans : localkickuser(cp, np)
  <2>1. PICK np \in Nicks, cp \in Chans : localkickuser(cp, np)
    BY <1>4
  <2>2. Push(NewFrame("localkick", "del", np, cp, FALSE)) \/ UNCHANGED frames
    BY <2>1 DEF localkickuser
  <2> QED BY <1>1, <2>2, StalePush
<1>5. CASE \E n \in Names : handleburstmsg(n)
  BY <1>5, StalePush DEF handleburstmsg
<1>6. CASE \E np \in Nicks : JoinZero(np) \/ NickLost(np)
  BY <1>6, StalePush DEF JoinZero, NickLost
<1>7. CASE \E np \in Nicks : killuser(np) \/ NewNick(np)
  BY <1>1, <1>7 DEF killuser, NewNick
<1> QED BY <1>2, <1>3, <1>4, <1>5, <1>6, <1>7 DEF Messages

LEMMA WalkStale ==
  ASSUME MembershipAssumption, MembershipInv, addordelnick, Top.i <= Len(channels[Top.np])
  PROVE  StaleWaits
<1> DEFINE f == [Top EXCEPT !.i = @ + 1]
           g == NewFrame("quitdel", "del", Top.np, channels[Top.np][Top.i], FALSE)
<1>1. frames # <<>> /\ Top.pc = "nicklost" /\ frames' = Front(frames) \o <<f, g>>
  BY DEF addordelnick, InHook, Idle
<1>2. /\ frames \in Seq(Frame) /\ DOMAIN frames = 1 .. Len(frames) /\ Len(frames) \in Nat \ {0}
      /\ Top \in Frame /\ Top.np \in Nicks /\ ~Top.stale /\ Top.i >= 1
      /\ channels \in [Nicks -> Seq(Chans)]
  BY <1>1, QuitFacts DEF Tables, FrameShape
<1>3. Top.i \in Nat /\ Top.i + 1 \in Nat
  BY <1>2 DEF Frame
<1>4. channels[Top.np][Top.i] \in Chans
  <2> DEFINE a == channels[Top.np]
  <2>1. a \in Seq(Chans) /\ Top.i <= Len(a)
    BY <1>2
  <2> HIDE DEF a
  <2>2. a[Top.i] \in Chans
    BY <1>2, <1>3, <2>1
  <2> QED BY <2>2 DEF a
<1>5. f \in Frame /\ ~f.stale
  BY <1>2, <1>3 DEF Frame
<1>6. g \in Frame /\ ~g.stale
  BY <1>2, <1>4, ShapeOfStart DEF NewFrame
<1> HIDE DEF f, g
<1>7. /\ DOMAIN frames' = 1 .. Len(frames) + 1
      /\ \A i \in 1 .. Len(frames) - 1 : frames'[i] = frames[i]
      /\ frames'[Len(frames)] = f /\ frames'[Len(frames) + 1] = g
  BY <1>1, <1>2, <1>5, <1>6, SpliceFacts
<1>8. ASSUME NEW i \in 1 .. Len(frames) + 1
      PROVE  i = Len(frames) + 1 \/ i = Len(frames)
             \/ (i \in 1 .. Len(frames) - 1 /\ i \in 1 .. Len(frames))
  <2>1. Len(frames) \in Nat \ {0}
    BY <1>2
  <2> QED BY <2>1
<1> QED BY <1>2, <1>5, <1>6, <1>7, <1>8 DEF StaleWaits

LEMMA HandlersStale ==
  ASSUME MembershipAssumption, MembershipInv, Handlers
  PROVE  StaleWaits
<1>1. CASE UNCHANGED frames
  BY <1>1 DEF StaleWaits
<1>2. ASSUME frames # <<>>
      PROVE  /\ Top \in Frame /\ FrameShape(Top) /\ FrameChan(Len(frames))
             /\ Top = frames[Len(frames)] /\ Len(frames) \in DOMAIN frames
  BY <1>2, TopFacts DEF MembershipInv, TypeOK, StackShape, HandlersChan
<1>3. ASSUME frames # <<>>, Top.stale
      PROVE  Top.pc \in {"newchannel", "join"} /\ \A n \in Names : index[n] # Top.cp
  <2>1. Top.pc \in {"newchannel", "join"} /\ Top.cp \notin allocated
    BY <1>2, <1>3 DEF FrameChan
  <2>2. Top.cp \in Chans
    BY <1>2, <1>3, <2>1 DEF FrameShape
  <2> QED BY <2>1, <2>2 DEF MembershipInv, IndexShape
<1>4. ASSUME NEW pc \in Pcs, frames # <<>>, Top.pc \notin {"newchannel", "join"}, Goto(pc)
      PROVE  StaleWaits
  BY <1>3, <1>4, StaleGoto
<1>5. \A pc \in {"newnick", "newchannel", "join", "burst", "lostchannel", "adding", "del", "lostnick",
                 "deleted", "next", "gone"} : pc \in Pcs
  BY DEF Pcs, HookPcs
<1>6. CASE \E np \in Nicks : BurstUser(np)
  BY <1>4, <1>5, <1>6 DEF BurstUser, Idle
<1>7. CASE \E np \in Nicks : clearpendingkills(np)
  BY <1>7, StalePush DEF clearpendingkills
<1>8. CASE BurstDone
  <2>1. frames # <<>> /\ Top.pc = "adding"
    BY <1>8 DEF BurstDone, Idle
  <2>2. \/ Pop
        \/ Goto("newchannel") \/ Goto("burst") \/ Goto("lostchannel")
    BY <1>8 DEF BurstDone
  <2> QED BY <1>4, <1>5, <2>1, <2>2, StalePop
<1>9. CASE EndOfHooksQueue
  BY <1>1, <1>9 DEF EndOfHooksQueue
<1>10. CASE clearpendingkicks
  BY <1>1, <1>10, StalePush DEF clearpendingkicks
<1>11. ASSUME NEW pc, HookDone(pc)
       PROVE  frames # <<>> /\ Top.pc = pc
  BY <1>11 DEF HookDone, InHook, Idle
<1>12. CASE AfterNewNick
  <2>1. frames # <<>> /\ Top.pc = "newnick"
    BY <1>11, <1>12 DEF AfterNewNick
  <2>2. Goto("adding") \/ Goto("newchannel") \/ Goto("join")
    BY <1>12 DEF AfterNewNick
  <2> QED BY <1>4, <1>5, <2>1, <2>2
<1>13. CASE AfterNewChannel
  <2>1. frames # <<>> /\ Top.pc = "newchannel"
    BY <1>11, <1>13 DEF AfterNewChannel
  <2>2. CASE Top.op = "join" /\ \E n \in Names : index[n] = Top.cp
    <3>1. Goto("join") /\ ~Top.stale
      BY <1>3, <1>13, <2>1, <2>2 DEF AfterNewChannel
    <3> QED BY <1>5, <2>1, <3>1, StaleGoto
  <2>3. CASE Top.op = "burst"
    <3>1. Goto("burst")
      BY <1>13, <2>3 DEF AfterNewChannel
    <3>2. ~Top.stale
      BY <1>2, <2>1, <2>3 DEF FrameChan
    <3> QED BY <1>5, <2>1, <3>1, <3>2, StaleGoto
  <2>4. CASE Pop
    BY <2>1, <2>4, StalePop
  <2> QED BY <1>13, <2>2, <2>3, <2>4 DEF AfterNewChannel
<1>14. CASE LastHook
  BY <1>11, <1>14, StalePop DEF LastHook
<1>15. CASE AfterPart
  <2>1. frames # <<>> /\ Top.pc \in {"part", "kick"} /\ Goto("del")
    BY <1>11, <1>15 DEF AfterPart
  <2> QED BY <1>4, <1>5, <2>1
<1>16. CASE delnickfromchannel
  <2>1. frames # <<>> /\ Top.pc = "del" /\ (Goto("lostnick") \/ Pop)
    BY <1>16 DEF delnickfromchannel, Idle
  <2> QED BY <1>4, <1>5, <2>1, StalePop
<1>17. CASE AfterLostNick
  <2>1. frames # <<>> /\ Top.pc = "lostnick" /\ (Goto("lostchannel") \/ Goto("deleted"))
    BY <1>11, <1>17 DEF AfterLostNick
  <2> QED BY <1>4, <1>5, <2>1
<1>18. CASE AfterLostChannel
  <2>1. frames # <<>> /\ Top.pc = "lostchannel" /\ frames \in Seq(Frame)
    BY <1>11, <1>18 DEF AfterLostChannel, MembershipInv, TypeOK
  <2>2. CASE Top.op = "burst"
    <3>1. DOMAIN Front(frames) = {}
      BY <2>1, <2>2, BurstFacts, FrontFacts
    <3>2. frames' = Stale(Front(frames), Top.cp)
      BY <1>18, <2>2 DEF AfterLostChannel
    <3>3. DOMAIN frames' = {}
      BY <3>1, <3>2 DEF Stale
    <3> QED BY <3>3 DEF StaleWaits
  <2>3. CASE Top.op # "burst"
    <3>1. frames' = Stale(Front(frames), Top.cp) \o <<[Top EXCEPT !.pc = "deleted"]>>
      BY <1>18, <2>3 DEF AfterLostChannel
    <3>2. /\ DOMAIN frames' = 1 .. Len(frames) /\ DOMAIN frames = 1 .. Len(frames)
          /\ \A i \in 1 .. Len(frames) - 1 : frames'[i].pc = frames[i].pc
          /\ frames'[Len(frames)].stale = frames[Len(frames)].stale
          /\ Len(frames) \in Nat \ {0}
      BY <2>1, <3>1, StaleFacts, TopFacts
    <3>3. ~frames[Len(frames)].stale
      BY <1>2, <1>3, <2>1
    <3>4. ASSUME NEW i \in 1 .. Len(frames)
          PROVE  i = Len(frames) \/ i \in 1 .. Len(frames) - 1
      <4>1. Len(frames) \in Nat \ {0}
        BY <3>2
      <4> QED BY <4>1
    <3> QED BY <3>2, <3>3, <3>4 DEF StaleWaits
  <2> QED BY <2>2, <2>3
<1>19. CASE deleted
  <2>1. frames # <<>> /\ Top.pc = "deleted" /\ (Goto("next") \/ Pop)
    BY <1>19 DEF deleted, Idle
  <2> QED BY <1>4, <1>5, <2>1, StalePop
<1>20. CASE NextZero
  <2>1. frames # <<>> /\ Top.pc = "next"
    BY <1>20 DEF NextZero, Idle
  <2>2. CASE Pop
    BY <2>1, <2>2, StalePop
  <2>3. CASE ~Pop
    <3> DEFINE f == [Top EXCEPT !.pc = "part", !.cp = channels[Top.np][Top.i], !.i = @ + 1]
    <3>1. frames' = Front(frames) \o <<f>> /\ Top.i <= Len(channels[Top.np])
      BY <1>20, <2>3 DEF NextZero
    <3>2. /\ Top.op = "zero" /\ Top \in Frame /\ Top.i \in Nat /\ Top.i >= 1
          /\ channels \in [Nicks -> Seq(Chans)]
      BY <1>2, <2>1
         DEF MembershipInv, TypeOK, FrameShape, Frame, Ops, AddOps, DelOps, JoinPcs, PartPcs, BurstPcs
    <3>3. frames \in Seq(Frame) /\ Len(frames) = 1 /\ Top.np \in Nicks /\ ~Top.stale
      BY <2>1, <3>2, ZeroFacts
    <3>4. f \in Frame /\ ~f.stale
      <4>1. "part" \in Pcs /\ Top.i + 1 \in Nat
        BY <3>2 DEF Pcs, HookPcs
      <4>2. channels[Top.np][Top.i] \in Chans
        <5> DEFINE a == channels[Top.np]
        <5>1. a \in Seq(Chans) /\ Top.i <= Len(a)
          BY <3>1, <3>2, <3>3
        <5> HIDE DEF a
        <5>2. a[Top.i] \in Chans
          BY <3>2, <5>1
        <5> QED BY <5>2 DEF a
      <4> QED BY <3>2, <3>3, <4>1, <4>2 DEF Frame
    <3> HIDE DEF f
    <3>5. DOMAIN frames' = 1 .. 1 /\ frames'[1] = f
      BY <2>1, <3>1, <3>3, <3>4, ReplaceFacts
    <3> QED BY <3>4, <3>5 DEF StaleWaits
  <2> QED BY <2>2, <2>3
<1>21. CASE addordelnick
  <2>1. frames # <<>> /\ Top.pc = "nicklost"
    BY <1>21 DEF addordelnick, InHook, Idle
  <2>2. CASE Goto("gone")
    BY <1>4, <1>5, <2>1, <2>2
  <2>3. CASE ~Goto("gone")
    <3>1. Top.i <= Len(channels[Top.np])
      BY <1>21, <2>3 DEF addordelnick
    <3> QED BY <1>21, <3>1, WalkStale
  <2> QED BY <2>2, <2>3
<1>22. CASE NickGone
  BY <1>11, <1>22, StalePop DEF NickGone
<1> QED BY <1>6, <1>7, <1>8, <1>9, <1>10, <1>12, <1>13, <1>14, <1>15, <1>16, <1>17, <1>18, <1>19, <1>20,
           <1>21, <1>22 DEF Handlers

\* HookChannelAlive: no handler starts a hook about a channel that was freed while its earlier
\* hook ran; the join in a fresh channel looks the channel up in the index before it goes on.
THEOREM HooksHaveChannels ==
  ASSUME HooksAssumption
  PROVE  Spec => HookChannelAlive
<1> DEFINE Step ==
      \A i \in DOMAIN frames' :
        frames'[i].pc \in HookPcs /\ (i \in DOMAIN frames => frames[i].pc # frames'[i].pc)
          => ~frames'[i].stale
<1>1. StaleWaits => Step
  BY DEF StaleWaits
<1>2. MembershipInv /\ [Next]_vars => Step \/ UNCHANGED vars
  BY <1>1, MessagesStale, HandlersStale, MembershipAssumption DEF Next
<1>3. MembershipInv /\ [Next]_vars => [Step]_vars
  BY <1>2
<1>4. Spec => [][Step]_vars
  <2> HIDE DEF Step
  <2> QED BY <1>3, Invariance, PTL DEF Spec
<1> QED BY <1>4 DEF HookChannelAlive
=============================================================================
