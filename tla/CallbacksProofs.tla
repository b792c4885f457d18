--------------------------- MODULE CallbacksProofs ---------------------------
(***************************************************************************)
(* Proofs about Hooks, for any hooks, callbacks, priorities and memory and *)
(* for triggerhook() nested to any depth, and about PendingKills, for any  *)
(* number of nicks, kills that wait and hooks that are nested.             *)
(*                                                                         *)
(* In PendingKills, three things that the nick of a hook is still there    *)
(* for: that nobody starts to delete it inside of the hook, that a kill    *)
(* which waits never names a nick whose LOSTNICK hook has run, and that    *)
(* the kills which wait are carried out when only the outermost hook is    *)
(* left, whose callbacks have all been told.                               *)
(***************************************************************************)
EXTENDS MCCallbacks, FiniteSetTheorems, WellFoundedInduction, TLAPS

\* m is behind n in the list s.
Behind(s, n, m) == Place(s, n) < Place(s, m)

\* The node a frame is at is in its list, and who is due in it and has not been called has a node
\* behind that one.
GoodFrame(f, lists, cbs) ==
  /\ f.hp # NULL => f.hp \in ToSet(lists[f.hook])
  /\ \A cb \in f.due :
       \/ cb \in f.called
       \/ \E n \in ToSet(lists[f.hook]) : cbs[n] = cb /\ (f.hp = NULL \/ Behind(lists[f.hook], f.hp, n))
FramesGood == \A i \in DOMAIN frames : GoodFrame(frames[i], head, callback)

DirtyMarked ==
  /\ IsInjective(dirtyhooks)
  /\ \A h \in HookNums : (\E n \in ToSet(head[h]) : callback[n] = NULL) => h \in ToSet(dirtyhooks)

ByPriority ==
  \A h \in HookNums : \A n, m \in ToSet(head[h]) : Behind(head[h], n, m) => priority[n] <= priority[m]

HooksInv == TypeOK /\ FramesGood /\ DirtyMarked /\ ByPriority

-----------------------------------------------------------------------------
(* Sequences, and the places of their elements. *)

\* A set of numbers that is not empty has a least one: what induction over lengths is made of.
LEMMA LeastNat ==
  ASSUME NEW T, T \subseteq Nat, T # {}
  PROVE  \E x \in T : \A y \in T : x <= y
<1> DEFINE R == OpToRel(<, Nat)
<1>1. IsWellFoundedOn(R, Nat)
  BY NatLessThanWellFounded
<1>2. \A x, y \in Nat : x < y => <<x, y>> \in R
  BY DEF OpToRel
<1> HIDE DEF R
<1>3. \E x \in T : \A y \in T : ~ (<<y, x>> \in R)
  BY <1>1, WFMin
<1>4. \A x, y \in Nat : ~(y < x) => x <= y
  OBVIOUS
<1> QED BY <1>2, <1>3, <1>4

\* A function on 1 .. m is a sequence.
LEMMA SeqFacts ==
  ASSUME NEW S, NEW m \in Nat, NEW t, t = [i \in 1 .. m |-> t[i]], \A i \in 1 .. m : t[i] \in S
  PROVE  t \in Seq(S) /\ Len(t) = m
  OBVIOUS

\* The empty sequence.
LEMMA EmptyFacts ==
  ASSUME NEW S
  PROVE  <<>> \in Seq(S) /\ DOMAIN <<>> = {}
  OBVIOUS

\* What Append does.
LEMMA AppendFacts ==
  ASSUME NEW S, NEW s \in Seq(S), NEW x \in S
  PROVE  /\ Append(s, x) \in Seq(S)
         /\ Len(Append(s, x)) = Len(s) + 1
         /\ DOMAIN Append(s, x) = 1 .. Len(s) + 1
         /\ \A i \in 1 .. Len(s) : Append(s, x)[i] = s[i]
         /\ Append(s, x)[Len(s) + 1] = x
  OBVIOUS

\* What Front leaves, and what Last is.
LEMMA FrontFacts ==
  ASSUME NEW S, NEW s \in Seq(S), s # <<>>
  PROVE  /\ Front(s) \in Seq(S)
         /\ Len(Front(s)) = Len(s) - 1
         /\ DOMAIN Front(s) = 1 .. Len(s) - 1
         /\ \A i \in 1 .. Len(s) - 1 : Front(s)[i] = s[i]
         /\ Last(s) = s[Len(s)]
         /\ Last(s) \in S
         /\ Len(s) \in Nat \ {0}
<1>1. Len(s) \in Nat \ {0} /\ DOMAIN s = 1 .. Len(s)
  OBVIOUS
<1>2. Len(s) - 1 \in Nat
  BY <1>1
<1>3. \A i \in 1 .. Len(s) : s[i] \in S
  BY <1>1
<1>4. Front(s) = [i \in 1 .. Len(s) - 1 |-> s[i]]
  BY <1>1, <1>2 DEF Front
<1>5. Front(s) \in Seq(S) /\ Len(Front(s)) = Len(s) - 1
  BY <1>1, <1>2, <1>3, <1>4
<1> QED BY <1>1, <1>3, <1>4, <1>5 DEF Last

\* The innermost frame replaced.
LEMMA ReplaceFacts ==
  ASSUME NEW S, NEW s \in Seq(S), s # <<>>, NEW x \in S
  PROVE  /\ Front(s) \o <<x>> \in Seq(S)
         /\ Len(Front(s) \o <<x>>) = Len(s)
         /\ DOMAIN (Front(s) \o <<x>>) = 1 .. Len(s)
         /\ \A i \in 1 .. Len(s) - 1 : (Front(s) \o <<x>>)[i] = s[i]
         /\ (Front(s) \o <<x>>)[Len(s)] = x
<1>1. /\ Front(s) \in Seq(S) /\ Len(Front(s)) = Len(s) - 1
      /\ \A i \in 1 .. Len(s) - 1 : Front(s)[i] = s[i]
      /\ Len(s) \in Nat \ {0}
  BY FrontFacts
<1> DEFINE t == Front(s)
<1>2. /\ t \o <<x>> \in Seq(S) /\ Len(t \o <<x>>) = Len(t) + 1
      /\ \A i \in 1 .. Len(t) : (t \o <<x>>)[i] = t[i]
      /\ (t \o <<x>>)[Len(t) + 1] = x
  <2> HIDE DEF t
  <2>1. t \in Seq(S)
    BY <1>1 DEF t
  <2> QED BY <2>1
<1> QED BY <1>1, <1>2

\* In a list without repetition each element has one place.
LEMMA PlaceFacts ==
  ASSUME NEW S, NEW s \in Seq(S), IsInjective(s)
  PROVE  /\ DOMAIN s = 1 .. Len(s) /\ Len(s) \in Nat
         /\ \A n \in ToSet(s) : Place(s, n) \in 1 .. Len(s) /\ s[Place(s, n)] = n
         /\ \A i \in 1 .. Len(s) : s[i] \in ToSet(s) /\ s[i] \in S /\ Place(s, s[i]) = i
         /\ ToSet(s) \subseteq S
<1>1. DOMAIN s = 1 .. Len(s) /\ Len(s) \in Nat /\ \A i \in 1 .. Len(s) : s[i] \in S
  OBVIOUS
<1>2. \A n \in ToSet(s) : \E i \in DOMAIN s : s[i] = n
  BY DEF ToSet
<1>3. \A n \in ToSet(s) : Place(s, n) \in DOMAIN s /\ s[Place(s, n)] = n
  BY <1>2 DEF Place
<1>4. \A i \in DOMAIN s : s[i] \in ToSet(s)
  BY DEF ToSet
<1>5. \A i \in DOMAIN s : Place(s, s[i]) = i
  BY <1>3, <1>4 DEF IsInjective
<1> QED BY <1>1, <1>3, <1>4, <1>5, <1>2

\* What concatenation does.
LEMMA ConcatFacts ==
  ASSUME NEW S, NEW c \in Seq(S), NEW b \in Seq(S)
  PROVE  /\ c \o b \in Seq(S) /\ Len(c \o b) = Len(c) + Len(b)
         /\ \A i \in 1 .. Len(c) : (c \o b)[i] = c[i]
         /\ \A i \in 1 .. Len(b) : (c \o b)[Len(c) + i] = b[i]
  OBVIOUS

\* What InsertAt does, index by index.
LEMMA InsertFacts ==
  ASSUME NEW S, NEW s \in Seq(S), NEW j \in 1 .. Len(s) + 1, NEW n \in S
  PROVE  /\ InsertAt(s, j, n) \in Seq(S) /\ Len(InsertAt(s, j, n)) = Len(s) + 1
         /\ \A i \in 1 .. j - 1 : InsertAt(s, j, n)[i] = s[i]
         /\ InsertAt(s, j, n)[j] = n
         /\ \A i \in j .. Len(s) : InsertAt(s, j, n)[i + 1] = s[i]
<1>k. PICK k \in 0 .. Len(s) : j = k + 1 /\ k = j - 1
  <2>1. j - 1 \in 0 .. Len(s) /\ (j - 1) + 1 = j
    OBVIOUS
  <2> QED BY <2>1
<1> DEFINE a == SubSeq(s, 1, k)
           b == SubSeq(s, k + 1, Len(s))
<1>0. Len(s) \in Nat /\ k \in Nat /\ k <= Len(s)
  OBVIOUS
<1>1. a \in Seq(S) /\ Len(a) = k /\ \A i \in 1 .. k : a[i] = s[i]
  BY <1>0
<1>2. b \in Seq(S) /\ Len(b) = Len(s) - k /\ \A i \in 1 .. Len(s) - k : b[i] = s[k + i]
  BY <1>0
<1>3. InsertAt(s, j, n) = a \o <<n>> \o b
  <2>1. InsertAt(s, j, n) = SubSeq(s, 1, j - 1) \o <<n>> \o SubSeq(s, j, Len(s))
    BY DEF InsertAt
  <2> QED BY <1>k, <2>1
<1> HIDE DEF a, b
<1> DEFINE c == a \o <<n>>
<1>4. c \in Seq(S) /\ Len(c) = k + 1 /\ (\A i \in 1 .. k : c[i] = s[i]) /\ c[k + 1] = n
  BY <1>0, <1>1
<1> HIDE DEF c
<1>5. /\ c \o b \in Seq(S) /\ Len(c \o b) = Len(s) + 1
      /\ \A i \in 1 .. k + 1 : (c \o b)[i] = c[i]
      /\ \A i \in 1 .. Len(s) - k : (c \o b)[i + k + 1] = b[i]
  <2>1. /\ c \o b \in Seq(S) /\ Len(c \o b) = Len(c) + Len(b)
        /\ \A i \in 1 .. Len(c) : (c \o b)[i] = c[i]
        /\ \A i \in 1 .. Len(b) : (c \o b)[Len(c) + i] = b[i]
    <3>1. c \in Seq(S) /\ b \in Seq(S)
      BY <1>2, <1>4
    <3> QED BY <3>1, ConcatFacts
  <2>2. \A i \in 1 .. Len(s) - k : (k + 1) + i = i + k + 1
    BY <1>0
  <2> HIDE DEF c
  <2> QED BY <1>0, <1>2, <1>4, <2>1, <2>2
<1>6. ASSUME NEW i \in k + 1 .. Len(s)
      PROVE  (c \o b)[i + 1] = s[i]
  <2>1. i - k \in 1 .. Len(s) - k /\ (i - k) + k + 1 = i + 1 /\ k + (i - k) = i
    BY <1>0
  <2>2. (c \o b)[(i - k) + k + 1] = b[i - k]
    BY <1>5, <2>1
  <2>3. b[i - k] = s[k + (i - k)]
    BY <1>2, <2>1
  <2> QED BY <2>1, <2>2, <2>3
<1>7. InsertAt(s, j, n) = c \o b
  BY <1>3 DEF c
<1>8. \A i \in 1 .. k : i \in 1 .. k + 1
  BY <1>0
<1>9. k + 1 \in 1 .. k + 1
  BY <1>0
<1>10. /\ c \o b \in Seq(S) /\ Len(c \o b) = Len(s) + 1
       /\ \A i \in 1 .. k : (c \o b)[i] = s[i]
       /\ (c \o b)[k + 1] = n
  BY <1>4, <1>5, <1>8, <1>9
<1> HIDE DEF c
<1> QED BY <1>k, <1>6, <1>7, <1>10

\* A list with a new node behind the k-th.
LEMMA InsertPlaces ==
  ASSUME NEW S, NEW s \in Seq(S), IsInjective(s), NEW k \in 0 .. Len(s), NEW n \in S, n \notin ToSet(s),
         NEW t, t = InsertAt(s, k + 1, n)
  PROVE  /\ t \in Seq(S) /\ IsInjective(t) /\ ToSet(t) = ToSet(s) \cup {n}
         /\ Place(t, n) = k + 1
         /\ \A m \in ToSet(s) : Place(t, m) = IF Place(s, m) <= k THEN Place(s, m) ELSE Place(s, m) + 1
         /\ \A l, m \in ToSet(s) : Behind(s, l, m) <=> Behind(t, l, m)
<1>1. /\ t \in Seq(S) /\ Len(t) = Len(s) + 1 /\ DOMAIN t = 1 .. Len(s) + 1
      /\ \A i \in 1 .. k : t[i] = s[i]
      /\ t[k + 1] = n
      /\ \A i \in k + 1 .. Len(s) : t[i + 1] = s[i]
  <2>1. /\ t \in Seq(S) /\ Len(t) = Len(s) + 1
        /\ \A i \in 1 .. k : t[i] = s[i]
        /\ t[k + 1] = n
        /\ \A i \in k + 1 .. Len(s) : t[i + 1] = s[i]
    <3> DEFINE j == k + 1
    <3>1. j \in 1 .. Len(s) + 1
      OBVIOUS
    <3> HIDE DEF j
    <3>2. /\ InsertAt(s, j, n) \in Seq(S) /\ Len(InsertAt(s, j, n)) = Len(s) + 1
          /\ \A i \in 1 .. j - 1 : InsertAt(s, j, n)[i] = s[i]
          /\ InsertAt(s, j, n)[j] = n
          /\ \A i \in j .. Len(s) : InsertAt(s, j, n)[i + 1] = s[i]
      BY <3>1, InsertFacts
    <3>3. t = InsertAt(s, j, n) /\ j = k + 1 /\ j - 1 = k
      BY DEF j
    <3> QED BY <3>2, <3>3
  <2>2. DOMAIN t = 1 .. Len(t)
    BY <2>1
  <2> QED BY <2>1, <2>2
<1>2. /\ DOMAIN s = 1 .. Len(s) /\ Len(s) \in Nat
      /\ \A m \in ToSet(s) : Place(s, m) \in 1 .. Len(s) /\ s[Place(s, m)] = m
      /\ \A i \in 1 .. Len(s) : s[i] \in ToSet(s) /\ s[i] \in S /\ Place(s, s[i]) = i
      /\ ToSet(s) \subseteq S
  BY PlaceFacts
<1>3. \A i \in 1 .. Len(s) + 1 : \/ i \in 1 .. k
                                 \/ i = k + 1
                                 \/ i - 1 \in k + 1 .. Len(s) /\ t[i] = s[i - 1]
  <2>1. ASSUME NEW i \in 1 .. Len(s) + 1, ~(i \in 1 .. k), i # k + 1
        PROVE  i - 1 \in k + 1 .. Len(s) /\ (i - 1) + 1 = i
    BY <1>2, <2>1
  <2> QED BY <1>1, <2>1
<1> DEFINE Old(i) == IF i <= k THEN i ELSE i - 1
<1>4. \A i \in 1 .. Len(s) + 1 : i # k + 1 => Old(i) \in 1 .. Len(s) /\ t[i] = s[Old(i)]
  <2>1. ASSUME NEW i \in 1 .. Len(s) + 1, i \in 1 .. k
        PROVE  Old(i) = i /\ i \in 1 .. Len(s) /\ t[i] = s[i]
    BY <1>1, <1>2, <2>1
  <2>2. ASSUME NEW i \in 1 .. Len(s) + 1, i - 1 \in k + 1 .. Len(s), t[i] = s[i - 1]
        PROVE  Old(i) = i - 1 /\ i - 1 \in 1 .. Len(s) /\ t[i] = s[i - 1]
    BY <1>2, <2>2
  <2> HIDE DEF Old
  <2> QED BY <1>3, <2>1, <2>2
<1>5. \A i, j \in 1 .. Len(s) + 1 : i # k + 1 /\ j # k + 1 /\ Old(i) = Old(j) => i = j
  BY <1>2
<1> HIDE DEF Old
<1>6. IsInjective(t)
  <2> SUFFICES ASSUME NEW i \in 1 .. Len(s) + 1, NEW j \in 1 .. Len(s) + 1, t[i] = t[j]
               PROVE  i = j
    BY <1>1 DEF IsInjective
  <2>1. CASE i = k + 1 /\ j # k + 1
    <3>1. t[j] \in ToSet(s)
      BY <1>2, <1>4, <2>1
    <3> QED BY <1>1, <2>1, <3>1
  <2>2. CASE i # k + 1 /\ j = k + 1
    <3>1. t[i] \in ToSet(s)
      BY <1>2, <1>4, <2>2
    <3> QED BY <1>1, <2>2, <3>1
  <2>3. CASE i # k + 1 /\ j # k + 1
    <3>1. s[Old(i)] = s[Old(j)] /\ Old(i) \in 1 .. Len(s) /\ Old(j) \in 1 .. Len(s)
      BY <1>4, <2>3
    <3>2. Old(i) = Old(j)
      BY <1>2, <3>1
    <3> QED BY <1>5, <2>3, <3>2
  <2> QED BY <2>1, <2>2, <2>3
<1> DEFINE New(i) == IF i <= k THEN i ELSE i + 1
<1>7. \A i \in 1 .. Len(s) : New(i) \in 1 .. Len(s) + 1 /\ t[New(i)] = s[i]
  <2>1. ASSUME NEW i \in 1 .. Len(s)
        PROVE  (i \in 1 .. k /\ New(i) = i) \/ (i \in k + 1 .. Len(s) /\ New(i) = i + 1)
    BY <1>2
  <2>2. \A i \in 1 .. Len(s) : New(i) \in 1 .. Len(s) + 1
    BY <1>2
  <2> HIDE DEF New
  <2> QED BY <1>1, <2>1, <2>2
<1>8. \A m \in ToSet(s) : Place(t, m) = New(Place(s, m))
  <2> SUFFICES ASSUME NEW m \in ToSet(s)
               PROVE  Place(t, m) = New(Place(s, m))
    OBVIOUS
  <2>1. New(Place(s, m)) \in 1 .. Len(t) /\ t[New(Place(s, m))] = m
    BY <1>1, <1>2, <1>7
  <2> HIDE DEF New
  <2> QED BY <1>1, <1>6, <2>1, PlaceFacts
<1>9. ToSet(t) = ToSet(s) \cup {n}
  <2>1. \A m \in ToSet(s) : m \in ToSet(t)
    BY <1>1, <1>2, <1>7 DEF ToSet
  <2>2. n \in ToSet(t)
    <3>1. k + 1 \in DOMAIN t
      BY <1>1, <1>2
    <3> QED BY <1>1, <3>1 DEF ToSet
  <2>3. \A m \in ToSet(t) : m \in ToSet(s) \cup {n}
    <3>1. ASSUME NEW i \in DOMAIN t
          PROVE  t[i] \in ToSet(s) \cup {n}
      BY <1>1, <1>2, <1>4, <3>1
    <3> QED BY <3>1 DEF ToSet
  <2> QED BY <2>1, <2>2, <2>3
<1>10. Place(t, n) = k + 1
  <2>1. k + 1 \in 1 .. Len(t)
    BY <1>1, <1>2
  <2> QED BY <1>1, <1>6, <2>1, PlaceFacts
<1>11. \A l, m \in ToSet(s) : Place(s, l) < Place(s, m) <=> New(Place(s, l)) < New(Place(s, m))
  <2>1. \A i, j \in 1 .. Len(s) : i < j <=> New(i) < New(j)
    BY <1>2
  <2> HIDE DEF New
  <2> QED BY <1>2, <2>1
<1> QED BY <1>1, <1>6, <1>8, <1>9, <1>10, <1>11 DEF Behind

\* What is left of a list: it can be listed in its order.
LEMMA Listing ==
  ASSUME NEW S, NEW L
  PROVE  \A m \in Nat : \A s \in Seq(S) :
           Len(s) = m /\ IsInjective(s) =>
             \E t \in Seq(S) : /\ IsInjective(t) /\ ToSet(t) = ToSet(s) \cap L
                               /\ \A n, l \in ToSet(t) : Behind(t, n, l) => Behind(s, n, l)
<1> DEFINE Good(s) == \E t \in Seq(S) : /\ IsInjective(t) /\ ToSet(t) = ToSet(s) \cap L
                                        /\ \A n, l \in ToSet(t) : Behind(t, n, l) => Behind(s, n, l)
           Bad == {m \in Nat : \E s \in Seq(S) : Len(s) = m /\ IsInjective(s) /\ ~Good(s)}
<1> SUFFICES ASSUME Bad # {}
             PROVE  FALSE
  OBVIOUS
<1>1. PICK m \in Bad : \A y \in Bad : m <= y
  BY LeastNat
<1>2. PICK s \in Seq(S) : Len(s) = m /\ IsInjective(s) /\ ~Good(s)
  BY <1>1
<1>3. \A u \in Seq(S) : Len(u) < m /\ IsInjective(u) => Good(u)
  <2>1. \A u \in Seq(S) : Len(u) \in Nat
    OBVIOUS
  <2>2. m \in Nat
    OBVIOUS
  <2>3. ASSUME NEW u \in Seq(S), Len(u) < m, IsInjective(u), ~Good(u)
        PROVE  FALSE
    <3>1. Len(u) \in Bad
      BY <2>1, <2>3
    <3> HIDE DEF Bad, Good
    <3>2. m <= Len(u)
      BY <1>1, <3>1
    <3> QED BY <2>1, <2>2, <2>3, <3>2
  <2> HIDE DEF Good
  <2> QED BY <2>3
<1> HIDE DEF Bad, Good
<1>4. s # <<>>
  <2>1. ASSUME s = <<>>
        PROVE  Good(s)
    <3>1. DOMAIN s = {} /\ ToSet(s) = {}
      BY <2>1 DEF ToSet
    <3> QED BY <1>2, <3>1 DEF Good
  <2> QED BY <1>2, <2>1
<1> DEFINE u == Front(s)
           x == Last(s)
<1>5. /\ u \in Seq(S) /\ Len(u) = m - 1 /\ DOMAIN u = 1 .. m - 1 /\ m \in Nat \ {0}
      /\ \A i \in 1 .. m - 1 : u[i] = s[i]
      /\ x = s[m] /\ x \in S
  BY <1>2, <1>4, FrontFacts
<1> HIDE DEF u, x
<1>6. /\ DOMAIN s = 1 .. m
      /\ \A n \in ToSet(s) : Place(s, n) \in 1 .. m /\ s[Place(s, n)] = n
      /\ \A i \in 1 .. m : s[i] \in ToSet(s) /\ Place(s, s[i]) = i
  BY <1>2, PlaceFacts
<1>7. \A i \in 1 .. m : i = m \/ i \in 1 .. m - 1
  BY <1>5
<1>8. \A i \in 1 .. m - 1 : i \in 1 .. m /\ i # m /\ i < m
  BY <1>5
<1>9. IsInjective(u)
  BY <1>2, <1>5, <1>6, <1>8 DEF IsInjective
<1>10. /\ \A n \in ToSet(u) : n \in ToSet(s) /\ Place(u, n) = Place(s, n) /\ Place(s, n) \in 1 .. m - 1
       /\ ToSet(s) = ToSet(u) \cup {x} /\ x \notin ToSet(u) /\ Place(s, x) = m
  <2>1. ASSUME NEW n \in ToSet(u)
        PROVE  n \in ToSet(s) /\ Place(u, n) = Place(s, n) /\ Place(s, n) \in 1 .. m - 1
    <3>1. Place(u, n) \in 1 .. m - 1 /\ u[Place(u, n)] = n
      BY <1>5, <1>9, PlaceFacts
    <3> QED BY <1>5, <1>6, <1>8, <3>1
  <2>2. m \in 1 .. m
    BY <1>5
  <2>3. x \in ToSet(s) /\ Place(s, x) = m
    BY <1>5, <1>6, <2>2
  <2>4. x \notin ToSet(u)
    BY <1>8, <2>1, <2>3
  <2>5. ASSUME NEW n \in ToSet(s), n # x
        PROVE  n \in ToSet(u)
    <3>1. Place(s, n) \in 1 .. m - 1
      BY <1>5, <1>6, <1>7, <2>5
    <3> QED BY <1>5, <1>6, <3>1 DEF ToSet
  <2> QED BY <2>1, <2>3, <2>4, <2>5
<1>11. PICK t \in Seq(S) : /\ IsInjective(t) /\ ToSet(t) = ToSet(u) \cap L
                           /\ \A n, l \in ToSet(t) : Behind(t, n, l) => Behind(u, n, l)
  <2>1. Len(u) < m
    BY <1>5
  <2> QED BY <1>3, <1>5, <1>9, <2>1 DEF Good
<1>12. \A n, l \in ToSet(t) : Behind(t, n, l) => Behind(s, n, l)
  BY <1>10, <1>11 DEF Behind
<1>13. CASE x \notin L
  BY <1>2, <1>10, <1>11, <1>12, <1>13 DEF Good
<1>14. CASE x \in L
  <2> DEFINE k == Len(t)
             v == InsertAt(t, k + 1, x)
  <2>1. k \in 0 .. Len(t)
    OBVIOUS
  <2>2. x \notin ToSet(t)
    BY <1>10, <1>11
  <2>3. \A n \in ToSet(t) : Place(t, n) \in 1 .. k
    BY <1>11, PlaceFacts
  <2> HIDE DEF k
  <2>4. /\ v \in Seq(S) /\ IsInjective(v) /\ ToSet(v) = ToSet(t) \cup {x} /\ Place(v, x) = k + 1
        /\ \A n \in ToSet(t) : Place(v, n) = IF Place(t, n) <= k THEN Place(t, n) ELSE Place(t, n) + 1
        /\ \A l, n \in ToSet(t) : Behind(t, l, n) <=> Behind(v, l, n)
    BY <1>5, <1>11, <2>1, <2>2, InsertPlaces
  <2> HIDE DEF v
  <2>5. ASSUME NEW n \in ToSet(v), NEW l \in ToSet(v), Behind(v, n, l)
        PROVE  Behind(s, n, l)
    <3>1. CASE n # x /\ l # x
      BY <1>12, <2>4, <2>5, <3>1
    <3>2. CASE n = x
      <4>1. Place(v, l) \in 1 .. k + 1
        <5>1. k \in Nat
          BY <2>1
        <5> QED BY <2>3, <2>4, <5>1
      <4>2. k \in Nat /\ k + 1 < Place(v, l)
        BY <2>1, <2>4, <2>5, <3>2 DEF Behind
      <4> QED BY <4>1, <4>2
    <3>3. CASE n # x /\ l = x
      <4>1. n \in ToSet(u)
        BY <1>11, <2>4, <3>3
      <4> QED BY <1>8, <1>10, <3>3, <4>1 DEF Behind
    <3> QED BY <3>1, <3>2, <3>3
  <2>6. ToSet(v) = ToSet(s) \cap L
    BY <1>10, <1>11, <1>14, <2>4
  <2> QED BY <1>2, <2>4, <2>5, <2>6 DEF Good
<1> QED BY <1>13, <1>14

\* How many numbers there are up to m.
LEMMA UpTo ==
  ASSUME NEW m \in Nat
  PROVE  IsFiniteSet(1 .. m) /\ Cardinality(1 .. m) = m
<1>1. 1 \in Int /\ m \in Int
  OBVIOUS
<1>2. IsFiniteSet(1 .. m) /\ Cardinality(1 .. m) = IF 1 > m THEN 0 ELSE m - 1 + 1
  BY <1>1, FS_Interval
<1> QED BY <1>2

\* What collectgarbage() leaves of a list: the nodes with a callback, in their order.
LEMMA SweptFacts ==
  ASSUME TypeOK, NEW s \in Seq(Nodes), IsInjective(s)
  PROVE  /\ Swept(s) \in Seq(Nodes) /\ IsInjective(Swept(s))
         /\ ToSet(Swept(s)) = {n \in ToSet(s) : callback[n] # NULL}
         /\ \A n, l \in ToSet(Swept(s)) : Behind(Swept(s), n, l) => Behind(s, n, l)
<1> DEFINE L == {n \in ToSet(s) : callback[n] # NULL}
           InOrder(t) == \A i, j \in DOMAIN t : i < j => Place(s, t[i]) < Place(s, t[j])
<1>1. PICK t \in Seq(Nodes) : /\ IsInjective(t) /\ ToSet(t) = ToSet(s) \cap L
                              /\ \A n, l \in ToSet(t) : Behind(t, n, l) => Behind(s, n, l)
  <2>1. Len(s) \in Nat
    OBVIOUS
  <2> HIDE DEF L
  <2> QED BY <2>1, Listing
<1>2. ToSet(t) = L
  BY <1>1
<1>3. /\ DOMAIN t = 1 .. Len(t) /\ Len(t) \in Nat
      /\ \A i \in 1 .. Len(t) : t[i] \in ToSet(t) /\ Place(t, t[i]) = i
  BY <1>1, PlaceFacts
<1> HIDE DEF L
<1>4. Len(t) = Cardinality(L) /\ IsFiniteSet(L)
  <2>1. t \in Bijection(1 .. Len(t), L)
    <3>1. t \in [1 .. Len(t) -> L]
      BY <1>1, <1>2, <1>3
    <3>2. \A n \in L : \E i \in 1 .. Len(t) : t[i] = n
      BY <1>2, <1>3 DEF ToSet
    <3>3. \A i, j \in 1 .. Len(t) : t[i] = t[j] => i = j
      BY <1>3
    <3>4. t \in Injection(1 .. Len(t), L)
      <4>1. DOMAIN t = 1 .. Len(t)
        BY <1>3
      <4> QED BY <3>1, <3>3, <4>1 DEF Injection, IsInjective
    <3>5. t \in Surjection(1 .. Len(t), L)
      BY <3>1, <3>2 DEF Surjection
    <3> QED BY <3>4, <3>5 DEF Bijection
  <2>2. ExistsBijection(1 .. Len(t), L)
    BY <2>1 DEF ExistsBijection
  <2>3. IsFiniteSet(1 .. Len(t)) /\ Cardinality(1 .. Len(t)) = Len(t)
    BY <1>3, UpTo
  <2> QED BY <2>2, <2>3, FS_Bijection
<1>5. t \in SetToSeqs(L) /\ InOrder(t)
  <2>1. t \in [1 .. Cardinality(L) -> L]
    BY <1>1, <1>2, <1>3, <1>4
  <2>2. \A i, j \in 1 .. Cardinality(L) : i # j => t[i] # t[j]
    BY <1>3, <1>4
  <2>3. InOrder(t)
    BY <1>1, <1>3 DEF Behind
  <2> QED BY <2>1, <2>2, <2>3 DEF SetToSeqs
<1> HIDE DEF InOrder
<1> DEFINE w == Swept(s)
<1>6. w \in SetToSeqs(L) /\ InOrder(w)
  <2>1. w = CHOOSE v \in SetToSeqs(L) : InOrder(v)
    BY DEF Swept, L, InOrder
  <2> HIDE DEF w
  <2> QED BY <1>5, <2>1
<1> HIDE DEF w
<1>7. w \in [1 .. Len(t) -> L] /\ \A i, j \in 1 .. Len(t) : i # j => w[i] # w[j]
  BY <1>4, <1>6 DEF SetToSeqs
<1>8. w \in Seq(Nodes) /\ Len(w) = Len(t) /\ IsInjective(w)
  <2>1. L \subseteq Nodes
    <3>1. ToSet(s) \subseteq Nodes
      BY PlaceFacts
    <3> QED BY <3>1 DEF L
  <2>2. w = [i \in 1 .. Len(t) |-> w[i]] /\ \A i \in 1 .. Len(t) : w[i] \in Nodes
    BY <1>7, <2>1
  <2>3. DOMAIN w = 1 .. Len(t)
    BY <1>7
  <2> QED BY <1>3, <1>7, <2>2, <2>3, SeqFacts DEF IsInjective
<1>9. ToSet(w) = L
  <2>1. w \in Injection(1 .. Len(t), L)
    <3>1. DOMAIN w = 1 .. Len(t)
      BY <1>7
    <3> QED BY <1>7, <3>1 DEF Injection, IsInjective
  <2>2. IsFiniteSet(1 .. Len(t)) /\ Cardinality(1 .. Len(t)) = Len(t)
    BY <1>3, UpTo
  <2>3. w \in Surjection(1 .. Len(t), L)
    BY <1>4, <2>1, <2>2, FS_Injection
  <2>4. \A n \in L : \E i \in 1 .. Len(t) : w[i] = n
    BY <2>3 DEF Surjection
  <2> QED BY <1>7, <2>4 DEF ToSet
<1>10. \A n, l \in ToSet(w) : Behind(w, n, l) => Behind(s, n, l)
  <2>1. /\ \A n \in ToSet(w) : Place(w, n) \in 1 .. Len(w) /\ w[Place(w, n)] = n
        /\ DOMAIN w = 1 .. Len(w)
    BY <1>8, PlaceFacts
  <2> QED BY <1>6, <2>1 DEF InOrder, Behind
<1> QED BY <1>8, <1>9, <1>10 DEF w, L

-----------------------------------------------------------------------------
(* The steps. *)

\* The list of a hook.
LEMMA ListFacts ==
  ASSUME TypeOK, NEW h \in HookNums
  PROVE  /\ head[h] \in Seq(Nodes) /\ IsInjective(head[h]) /\ ToSet(head[h]) \subseteq Nodes
         /\ DOMAIN head[h] = 1 .. Len(head[h]) /\ Len(head[h]) \in Nat
         /\ \A n \in ToSet(head[h]) : Place(head[h], n) \in 1 .. Len(head[h]) /\ head[h][Place(head[h],
             n)] = n
         /\ \A i \in 1 .. Len(head[h]) : head[h][i] \in ToSet(head[h]) /\ Place(head[h], head[h][i]) = i
<1>1. head[h] \in Seq(Nodes) /\ IsInjective(head[h])
  BY DEF TypeOK
<1> QED BY <1>1, PlaceFacts

\* The fields of a running frame.
LEMMA FrameFacts ==
  ASSUME TypeOK, NEW i \in DOMAIN frames
  PROVE  /\ frames[i] \in Frame /\ frames[i].hook \in HookNums /\ frames[i].hp \in Nodes \cup {NULL}
         /\ frames[i].due \subseteq Callbacks /\ frames[i].called \subseteq Callbacks
<1>1. frames[i] \in Frame
  BY DEF TypeOK
<1> QED BY <1>1 DEF Frame

\* A frame that has just started is good: whoever is due has a node in the list.
LEMMA BeginFacts ==
  ASSUME TypeOK, HooksAssumption, NEW h \in HookNums
  PROVE  Begin(h) \in Frame /\ GoodFrame(Begin(h), head, callback)
<1>1. Registered(h) \subseteq Callbacks
  <2>1. \A n \in ToSet(head[h]) : callback[n] \in Callbacks \cup {NULL}
    BY ListFacts DEF TypeOK
  <2> QED BY <2>1 DEF Registered
<1>2. Begin(h) \in Frame
  BY <1>1 DEF Begin, Frame
<1>3. Begin(h).hook = h /\ Begin(h).hp = NULL /\ Begin(h).due = Registered(h)
  BY DEF Begin
<1>4. \A cb \in Registered(h) : \E n \in ToSet(head[h]) : callback[n] = cb
  BY DEF Registered
<1> QED BY <1>2, <1>3, <1>4 DEF GoodFrame

\* A list with one more node, and the same callbacks on the others, keeps a frame good.
LEMMA NewNode ==
  ASSUME TypeOK, NEW h \in HookNums, NEW n \in Nodes, NEW lists, NEW cbs,
         n \notin Used,
         \A g \in HookNums : ToSet(head[g]) \subseteq ToSet(lists[g]),
         \A g \in HookNums : \A l, m \in ToSet(head[g]) : Behind(head[g], l, m) => Behind(lists[g], l, m),
         \A m \in Nodes : m # n => cbs[m] = callback[m],
         NEW f \in Frame, GoodFrame(f, head, callback)
  PROVE  GoodFrame(f, lists, cbs)
<1>1. f.hook \in HookNums
  BY DEF Frame
<1> DEFINE g == f.hook
<1>2. \A m \in ToSet(head[g]) : m # n /\ m \in Nodes
  BY <1>1, ListFacts DEF Used
<1>3. ToSet(head[g]) \subseteq ToSet(lists[g])
  BY <1>1
<1>4. \A l, m \in ToSet(head[g]) : Behind(head[g], l, m) => Behind(lists[g], l, m)
  BY <1>1
<1>5. /\ f.hp # NULL => f.hp \in ToSet(head[g])
      /\ \A cb \in f.due :
           \/ cb \in f.called
           \/ \E m \in ToSet(head[g]) : callback[m] = cb /\ (f.hp = NULL \/ Behind(head[g], f.hp, m))
  BY DEF GoodFrame
<1> HIDE DEF g
<1>6. \A m \in ToSet(head[g]) : m \in ToSet(lists[g]) /\ cbs[m] = callback[m]
  BY <1>2, <1>3
<1>7. /\ f.hp # NULL => f.hp \in ToSet(lists[g])
      /\ \A cb \in f.due :
           \/ cb \in f.called
           \/ \E m \in ToSet(lists[g]) : cbs[m] = cb /\ (f.hp = NULL \/ Behind(lists[g], f.hp, m))
  BY <1>4, <1>5, <1>6
<1> QED BY <1>7 DEF GoodFrame, g

\* registerpriorityhook() keeps the invariant and the order of the others, and puts the new node
\* behind all of its own priority.
LEMMA RegisterStep ==
  ASSUME HooksInv, HooksAssumption, NEW h \in HookNums, NEW cb \in Callbacks, NEW p \in Priorities,
         registerpriorityhook(h, cb, p)
  PROVE  /\ HooksInv'
         /\ \A g \in HookNums :
              /\ \A n, m \in ToSet(head[g]) : Behind(head[g], n, m) => Behind(head'[g], n, m)
              /\ \A n \in ToSet(head'[g]) \ ToSet(head[g]) : \A m \in ToSet(head[g]) :
                   priority[m] = priority'[n] => Behind(head'[g], m, n)
<1> USE DEF HooksInv
<1>1. PICK n \in Nodes \ Used, k \in 0 .. Len(head[h]) :
        /\ Pred(h, p, k)
        /\ head' = [head EXCEPT ![h] = InsertAt(@, k + 1, n)]
        /\ callback' = [callback EXCEPT ![n] = cb]
        /\ priority' = [priority EXCEPT ![n] = p]
  BY DEF registerpriorityhook
<1>2. UNCHANGED <<frames, dirtyhooks, closing>>
  BY DEF registerpriorityhook
<1> DEFINE s == head[h]
           t == InsertAt(s, k + 1, n)
<1>3. /\ s \in Seq(Nodes) /\ IsInjective(s) /\ ToSet(s) \subseteq Nodes
      /\ DOMAIN s = 1 .. Len(s) /\ Len(s) \in Nat
      /\ \A m \in ToSet(s) : Place(s, m) \in 1 .. Len(s) /\ s[Place(s, m)] = m
      /\ \A i \in 1 .. Len(s) : s[i] \in ToSet(s) /\ Place(s, s[i]) = i
  BY ListFacts
<1>4. k \in 0 .. Len(s) /\ n \in Nodes /\ n \notin ToSet(s)
  BY DEF Used
<1>5. /\ h \in DOMAIN head /\ head' \in [HookNums -> {head'[g] : g \in HookNums}] /\ head'[h] = t
      /\ \A g \in HookNums : g # h => head'[g] = head[g]
  BY <1>1 DEF TypeOK
<1>6. /\ callback' \in [Nodes -> Callbacks \cup {NULL}] /\ callback'[n] = cb
      /\ \A m \in Nodes : m # n => callback'[m] = callback[m]
  BY <1>1 DEF TypeOK
<1>7. /\ priority' \in [Nodes -> Int] /\ priority'[n] = p /\ p \in Int
      /\ \A m \in Nodes : m # n => priority'[m] = priority[m]
  BY <1>1 DEF TypeOK, HooksAssumption
<1>8. (k > 0 => priority[s[k]] <= p) /\ \A i \in k + 1 .. Len(s) : priority[s[i]] > p
  BY <1>1 DEF Pred
<1> HIDE DEF s
<1>9. /\ t \in Seq(Nodes) /\ IsInjective(t) /\ ToSet(t) = ToSet(s) \cup {n}
      /\ Place(t, n) = k + 1
      /\ \A m \in ToSet(s) : Place(t, m) = IF Place(s, m) <= k THEN Place(s, m) ELSE Place(s, m) + 1
      /\ \A l, m \in ToSet(s) : Behind(s, l, m) <=> Behind(t, l, m)
  BY <1>3, <1>4, InsertPlaces
<1> HIDE DEF t
<1>10. \A g \in HookNums : n \notin ToSet(head[g])
  BY DEF Used
<1>11. \A g \in HookNums : ToSet(head[g]) \subseteq ToSet(head'[g])
                           /\ ToSet(head'[g]) \subseteq ToSet(head[g]) \cup {n}
  BY <1>5, <1>9 DEF s
<1>12. \A g \in HookNums : \A l, m \in ToSet(head[g]) : Behind(head[g], l, m) <=> Behind(head'[g], l, m)
  BY <1>5, <1>9 DEF s
<1>13. TypeOK'
  <2>1. \A g \in HookNums : head'[g] \in Seq(Nodes) /\ IsInjective(head'[g])
    BY <1>5, <1>9, ListFacts
  <2>2. head' \in [HookNums -> Seq(Nodes)]
    BY <1>5, <2>1
  <2>3. \A g \in HookNums : g # h => n \notin ToSet(head'[g])
    BY <1>5, <1>10
  <2>4. \A g, j \in HookNums : g # j => ToSet(head'[g]) \cap ToSet(head'[j]) = {}
    <3>1. \A g, j \in HookNums : g # j => ToSet(head[g]) \cap ToSet(head[j]) = {}
      BY DEF TypeOK
    <3>2. \A g \in HookNums : \A m \in ToSet(head'[g]) : m = n \/ m \in ToSet(head[g])
      BY <1>11
    <3>3. ASSUME NEW g \in HookNums, NEW j \in HookNums, g # j,
                 NEW m \in ToSet(head'[g]), m \in ToSet(head'[j])
          PROVE  FALSE
      <4>1. g # h \/ j # h
        BY <3>3
      <4>2. m # n
        BY <2>3, <3>3, <4>1
      <4>3. m \in ToSet(head[g]) /\ m \in ToSet(head[j])
        BY <3>2, <3>3, <4>2
      <4> QED BY <3>1, <3>3, <4>3
    <3> QED BY <3>3
  <2> QED BY <1>2, <1>6, <1>7, <2>1, <2>2, <2>4 DEF TypeOK
<1>14. FramesGood'
  <2> SUFFICES ASSUME NEW i \in DOMAIN frames
               PROVE  GoodFrame(frames[i], head', callback')
    BY <1>2 DEF FramesGood
  <2>1. GoodFrame(frames[i], head, callback) /\ frames[i] \in Frame
    BY FrameFacts DEF FramesGood
  <2>2. n \in Nodes /\ n \notin Used
    OBVIOUS
  <2> QED BY <1>6, <1>11, <1>12, <2>1, <2>2, NewNode
<1>15. DirtyMarked'
  <2>1. cb # NULL
    BY DEF HooksAssumption
  <2>2. ASSUME NEW g \in HookNums, NEW m \in ToSet(head'[g]), callback'[m] = NULL
        PROVE  m \in ToSet(head[g]) /\ callback[m] = NULL
    <3>1. m # n
      BY <1>6, <2>1, <2>2
    <3>2. m \in ToSet(head[g]) /\ m \in Nodes
      BY <1>11, <3>1, ListFacts
    <3> QED BY <1>6, <2>2, <3>1, <3>2
  <2> QED BY <1>2, <2>2 DEF DirtyMarked
<1>16. \A m \in ToSet(s) : Place(s, m) <= k => priority[m] <= p
  <2> SUFFICES ASSUME NEW m \in ToSet(s), Place(s, m) <= k
               PROVE  priority[m] <= p
    OBVIOUS
  <2>1. k \in 1 .. Len(s) /\ k > 0
    BY <1>3, <1>4
  <2>2. s[k] \in ToSet(s) /\ Place(s, s[k]) = k /\ priority[s[k]] <= p
    BY <1>3, <1>8, <2>1
  <2>3. CASE Place(s, m) = k
    BY <1>3, <2>2, <2>3
  <2>4. CASE Place(s, m) # k
    <3>1. Behind(s, m, s[k])
      BY <1>3, <2>1, <2>2, <2>4 DEF Behind
    <3>2. priority[m] <= priority[s[k]]
      BY <2>2, <3>1 DEF ByPriority, s
    <3>3. priority[m] \in Int /\ priority[s[k]] \in Int
      BY <1>3, <2>2 DEF TypeOK
    <3> QED BY <1>7, <2>2, <3>2, <3>3
  <2> QED BY <2>3, <2>4
<1>17. \A m \in ToSet(s) : ~(Place(s, m) <= k) => priority[m] > p
  <2> SUFFICES ASSUME NEW m \in ToSet(s), ~(Place(s, m) <= k)
               PROVE  priority[m] > p
    OBVIOUS
  <2>1. Place(s, m) \in k + 1 .. Len(s) /\ s[Place(s, m)] = m
    BY <1>3, <1>4
  <2> QED BY <1>8, <2>1
<1>18. \A m \in ToSet(s) : Place(s, m) <= k <=> Behind(t, m, n)
  BY <1>3, <1>4, <1>9 DEF Behind
<1>19. ByPriority'
  <2> SUFFICES ASSUME NEW g \in HookNums, NEW l \in ToSet(head'[g]), NEW m \in ToSet(head'[g]),
                      Behind(head'[g], l, m)
               PROVE  priority'[l] <= priority'[m]
    BY DEF ByPriority
  <2>1. CASE l # n /\ m # n
    <3>1. l \in ToSet(head[g]) /\ m \in ToSet(head[g]) /\ l \in Nodes /\ m \in Nodes
      BY <1>11, <2>1, ListFacts
    <3>2. Behind(head[g], l, m)
      BY <1>12, <3>1
    <3>3. priority[l] <= priority[m]
      BY <3>1, <3>2 DEF ByPriority
    <3> QED BY <1>7, <2>1, <3>1, <3>3
  <2>2. CASE l = n \/ m = n
    <3>1. g = h /\ head'[g] = t
      BY <1>5, <1>10, <2>2
    <3>2. CASE l = n /\ m = n
      BY <1>7, <3>2
    <3>3. CASE l = n /\ m # n
      <4>1. m \in ToSet(s) /\ m \in Nodes
        BY <1>3, <1>9, <3>1, <3>3
      <4>2. ~Behind(t, m, n)
        <5>1. Behind(t, n, m)
          BY <3>1, <3>3
        <5>2. Place(t, n) \in Int /\ Place(t, m) \in Int
          BY <1>3, <1>4, <1>9, <4>1
        <5> QED BY <5>1, <5>2 DEF Behind
      <4>3. priority[m] > p /\ priority[m] \in Int
        BY <1>17, <1>18, <4>1, <4>2 DEF TypeOK
      <4> QED BY <1>7, <3>3, <4>1, <4>3
    <3>4. CASE l # n /\ m = n
      <4>1. l \in ToSet(s) /\ l \in Nodes
        BY <1>3, <1>9, <3>1, <3>4
      <4>2. Behind(t, l, n)
        BY <3>1, <3>4
      <4>3. priority[l] <= p
        BY <1>16, <1>18, <4>1, <4>2
      <4> QED BY <1>7, <3>4, <4>1, <4>3
    <3> QED BY <2>2, <3>2, <3>3, <3>4
  <2> QED BY <2>1, <2>2
<1>20. ASSUME NEW g \in HookNums, NEW l \in ToSet(head'[g]) \ ToSet(head[g]), NEW m \in ToSet(head[g]),
              priority[m] = priority'[l]
       PROVE  Behind(head'[g], m, l)
  <2>1. l = n
    BY <1>11
  <2>2. g = h /\ head'[g] = t
    BY <1>5, <1>10, <2>1
  <2>3. m \in ToSet(s) /\ priority[m] = p /\ priority[m] \in Int
    BY <1>3, <1>7, <1>20, <2>1, <2>2 DEF s, TypeOK
  <2>4. ~(priority[m] > p)
    BY <1>7, <2>3
  <2>5. Place(s, m) <= k
    BY <1>17, <2>3, <2>4
  <2>6. Behind(t, m, n)
    BY <1>18, <2>3, <2>5
  <2> QED BY <2>1, <2>2, <2>6
<1> QED BY <1>12, <1>13, <1>14, <1>15, <1>19, <1>20

\* deregisterhook(): one node loses a callback that is due in no frame of its hook any more.
LEMMA DeregisterStep ==
  ASSUME HooksInv, HooksAssumption, NEW h \in HookNums, NEW cb \in Callbacks, deregisterhook(h, cb)
  PROVE  HooksInv'
<1> USE DEF HooksInv
<1>1. PICK n \in ToSet(head[h]) : callback[n] = cb /\ callback' = [callback EXCEPT ![n] = NULL]
  BY DEF deregisterhook
<1>2. /\ UNCHANGED <<head, priority, closing>>
      /\ dirtyhooks' = markdirty(h)
      /\ frames' = [i \in DOMAIN frames |->
                      IF frames[i].hook = h THEN [frames[i] EXCEPT !.due = @ \ {cb}] ELSE frames[i]]
  BY DEF deregisterhook
<1>3. n \in Nodes /\ \A g \in HookNums : n \in ToSet(head[g]) => g = h
  BY ListFacts DEF TypeOK
<1>4. /\ callback' \in [Nodes -> Callbacks \cup {NULL}] /\ callback'[n] = NULL
      /\ \A m \in Nodes : m # n => callback'[m] = callback[m]
  BY <1>1, <1>3 DEF TypeOK
<1>5. /\ dirtyhooks' \in Seq(HookNums) /\ IsInjective(dirtyhooks')
      /\ ToSet(dirtyhooks') = ToSet(dirtyhooks) \cup {h}
  <2>1. dirtyhooks \in Seq(HookNums) /\ IsInjective(dirtyhooks)
    BY DEF TypeOK, DirtyMarked
  <2>2. CASE h \in ToSet(dirtyhooks)
    BY <1>2, <2>1, <2>2 DEF markdirty
  <2>3. CASE h \notin ToSet(dirtyhooks)
    <3> DEFINE d == Append(dirtyhooks, h)
               m == Len(dirtyhooks)
    <3>1. /\ d \in Seq(HookNums) /\ DOMAIN d = 1 .. m + 1
          /\ \A i \in 1 .. m : d[i] = dirtyhooks[i]
          /\ d[m + 1] = h
      BY <2>1, AppendFacts
    <3>2. m \in Nat /\ DOMAIN dirtyhooks = 1 .. m /\ \A i \in 1 .. m : dirtyhooks[i] \in ToSet(dirtyhooks)
      BY <2>1, PlaceFacts
    <3>3. dirtyhooks' = d
      BY <1>2, <2>3 DEF markdirty
    <3> HIDE DEF d, m
    <3>4. \A i \in 1 .. m + 1 : i \in 1 .. m \/ i = m + 1
      BY <3>2
    <3>5. \A i \in 1 .. m : i \in 1 .. m + 1
      BY <3>2
    <3>6. m + 1 \in 1 .. m + 1
      BY <3>2
    <3>7. IsInjective(d)
      BY <2>1, <2>3, <3>1, <3>2, <3>4 DEF IsInjective
    <3>8. ToSet(d) = ToSet(dirtyhooks) \cup {h}
      BY <3>1, <3>2, <3>4, <3>5, <3>6 DEF ToSet
    <3> QED BY <3>1, <3>3, <3>7, <3>8
  <2> QED BY <2>2, <2>3
<1>6. /\ frames' \in Seq(Frame) /\ DOMAIN frames' = DOMAIN frames
      /\ \A i \in DOMAIN frames :
           /\ frames'[i].hook = frames[i].hook /\ frames'[i].hp = frames[i].hp
           /\ frames'[i].called = frames[i].called
           /\ frames'[i].due = IF frames[i].hook = h THEN frames[i].due \ {cb} ELSE frames[i].due
  <2>1. ASSUME NEW i \in DOMAIN frames
        PROVE  /\ frames'[i] \in Frame
               /\ frames'[i].hook = frames[i].hook /\ frames'[i].hp = frames[i].hp
               /\ frames'[i].called = frames[i].called
               /\ frames'[i].due = IF frames[i].hook = h THEN frames[i].due \ {cb} ELSE frames[i].due
    <3>1. frames[i] \in Frame
      BY FrameFacts
    <3>2. frames'[i] = IF frames[i].hook = h THEN [frames[i] EXCEPT !.due = @ \ {cb}] ELSE frames[i]
      BY <1>2
    <3> QED BY <3>1, <3>2 DEF Frame
  <2>2. Len(frames) \in Nat /\ DOMAIN frames = 1 .. Len(frames)
    BY DEF TypeOK
  <2>3. frames' = [i \in 1 .. Len(frames) |-> frames'[i]]
    BY <1>2, <2>2
  <2>4. \A i \in 1 .. Len(frames) : frames'[i] \in Frame
    BY <2>1, <2>2
  <2>5. frames' \in Seq(Frame)
    BY <2>2, <2>3, <2>4, SeqFacts
  <2> QED BY <1>2, <2>1, <2>5
<1>7. TypeOK'
  BY <1>2, <1>4, <1>5, <1>6 DEF TypeOK
<1>8. FramesGood'
  <2> SUFFICES ASSUME NEW i \in DOMAIN frames
               PROVE  GoodFrame(frames'[i], head, callback')
    BY <1>2, <1>6 DEF FramesGood
  <2> DEFINE f == frames[i]
             g == f.hook
  <2>1. GoodFrame(f, head, callback) /\ g \in HookNums /\ f.due \subseteq Callbacks
    BY FrameFacts DEF FramesGood
  <2>2. f.hp # NULL => f.hp \in ToSet(head[g])
    BY <2>1 DEF GoodFrame
  <2> DEFINE Has(c, cbs) == \E m \in ToSet(head[g]) : cbs[m] = c /\ (f.hp = NULL \/ Behind(head[g], f.hp, m))
  <2>3. ASSUME NEW c \in f.due, c \notin f.called, g = h => c # cb
        PROVE  Has(c, callback')
    <3>1. PICK m \in ToSet(head[g]) : callback[m] = c /\ (f.hp = NULL \/ Behind(head[g], f.hp, m))
      BY <2>1, <2>3 DEF GoodFrame
    <3>2. m # n /\ m \in Nodes
      BY <1>1, <1>3, <2>1, <2>3, <3>1, ListFacts
    <3> QED BY <1>4, <3>1, <3>2
  <2>4. /\ frames'[i].hook = g /\ frames'[i].hp = f.hp /\ frames'[i].called = f.called
        /\ frames'[i].due = IF g = h THEN f.due \ {cb} ELSE f.due
    BY <1>6
  <2>5. \A c \in frames'[i].due : c \in f.due /\ (g = h => c # cb)
    BY <2>4
  <2>6. \A c \in frames'[i].due : c \in frames'[i].called \/ Has(c, callback')
    BY <2>3, <2>4, <2>5
  <2> QED BY <2>2, <2>4, <2>6 DEF GoodFrame
<1>9. DirtyMarked'
  <2>1. ASSUME NEW g \in HookNums, NEW m \in ToSet(head[g]), callback'[m] = NULL
        PROVE  g \in ToSet(dirtyhooks')
    <3>1. CASE m = n
      BY <1>3, <1>5, <3>1
    <3>2. CASE m # n
      <4>1. callback[m] = NULL
        BY <1>4, <2>1, <3>2, ListFacts
      <4> QED BY <1>5, <4>1 DEF DirtyMarked
    <3> QED BY <3>1, <3>2
  <2> QED BY <1>2, <1>5, <2>1 DEF DirtyMarked
<1>10. ByPriority'
  BY <1>2 DEF ByPriority
<1> QED BY <1>7, <1>8, <1>9, <1>10

\* A step that changes nothing but the frames, and leaves each of them good.
LEMMA FramesStep ==
  ASSUME HooksInv, UNCHANGED <<head, callback, priority, dirtyhooks>>, closing' \in BOOLEAN,
         frames' \in Seq(Frame), \A i \in DOMAIN frames' : GoodFrame(frames'[i], head, callback)
  PROVE  HooksInv'
<1>1. TypeOK'
  BY DEF HooksInv, TypeOK
<1>2. FramesGood'
  BY DEF FramesGood
<1>3. DirtyMarked'
  BY DEF HooksInv, DirtyMarked
<1>4. ByPriority'
  BY DEF HooksInv, ByPriority
<1> QED BY <1>1, <1>2, <1>3, <1>4 DEF HooksInv

\* triggerhook() starts a good frame.
LEMMA TriggerStep ==
  ASSUME HooksInv, HooksAssumption, NEW h \in HookNums, triggerhook(h)
  PROVE  HooksInv'
<1>1. TypeOK /\ frames \in Seq(Frame) /\ closing \in BOOLEAN
  BY DEF HooksInv, TypeOK
<1>2. Begin(h) \in Frame /\ GoodFrame(Begin(h), head, callback)
  BY <1>1, BeginFacts
<1> DEFINE b == Begin(h)
           m == Len(frames)
<1>3. frames' = Append(frames, b) /\ UNCHANGED <<head, callback, priority, dirtyhooks, closing>>
  BY DEF triggerhook
<1> HIDE DEF b
<1>4. b \in Frame /\ GoodFrame(b, head, callback)
  BY <1>2 DEF b
<1>5. /\ frames' \in Seq(Frame) /\ DOMAIN frames' = 1 .. m + 1
      /\ \A i \in 1 .. m : frames'[i] = frames[i]
      /\ frames'[m + 1] = b
  BY <1>1, <1>3, <1>4, AppendFacts
<1>6. m \in Nat /\ DOMAIN frames = 1 .. m
  BY <1>1
<1> HIDE DEF m
<1>7. \A i \in 1 .. m + 1 : i \in 1 .. m \/ i = m + 1
  BY <1>6
<1>8. \A i \in 1 .. m : GoodFrame(frames[i], head, callback)
  BY <1>6 DEF HooksInv, FramesGood
<1>9. \A i \in DOMAIN frames' : GoodFrame(frames'[i], head, callback)
  BY <1>4, <1>5, <1>7, <1>8
<1> QED BY <1>1, <1>3, <1>5, <1>9, FramesStep

\* So does the end-of-queue hook.
LEMMA EndStep ==
  ASSUME HooksInv, HooksAssumption, EndOfHooksQueue
  PROVE  HooksInv'
<1> DEFINE b == Begin(ENDOFHOOKSQUEUE)
<1>1. frames' = <<b>> /\ closing' = TRUE /\ UNCHANGED <<head, callback, priority, dirtyhooks>>
  BY DEF EndOfHooksQueue
<1>2. b \in Frame /\ GoodFrame(b, head, callback)
  BY BeginFacts DEF HooksInv, HooksAssumption
<1> HIDE DEF b
<1>3. frames' \in Seq(Frame) /\ DOMAIN frames' = {1} /\ frames'[1] = b
  BY <1>1, <1>2
<1>4. \A i \in DOMAIN frames' : GoodFrame(frames'[i], head, callback)
  BY <1>2, <1>3
<1> QED BY <1>1, <1>3, <1>4, FramesStep

\* The end of an inner triggerhook() leaves the frames further out as they were.
LEMMA ReturnStep ==
  ASSUME HooksInv, Return
  PROVE  HooksInv'
<1>1. frames \in Seq(Frame) /\ closing \in BOOLEAN /\ frames # <<>>
  BY DEF HooksInv, TypeOK, Return, ListDone
<1>2. frames' = Front(frames) /\ UNCHANGED <<head, callback, priority, dirtyhooks, closing>>
  BY DEF Return
<1> DEFINE m == Len(frames)
<1>3. /\ frames' \in Seq(Frame) /\ DOMAIN frames' = 1 .. m - 1 /\ m \in Nat \ {0}
      /\ \A i \in 1 .. m - 1 : frames'[i] = frames[i]
  BY <1>1, <1>2, FrontFacts
<1>4. DOMAIN frames = 1 .. m
  BY <1>1
<1> HIDE DEF m
<1>5. \A i \in 1 .. m - 1 : i \in 1 .. m
  BY <1>3
<1>6. \A i \in DOMAIN frames' : GoodFrame(frames'[i], head, callback)
  BY <1>3, <1>4, <1>5 DEF HooksInv, FramesGood
<1> QED BY <1>1, <1>2, <1>3, <1>6, FramesStep

\* Where a frame is, and what is ahead of it.
LEMMA AheadFacts ==
  ASSUME TypeOK, HooksAssumption, NEW f \in Frame, GoodFrame(f, head, callback)
  PROVE  /\ At(f) \in 0 .. Len(head[f.hook])
         /\ \A cb \in f.due : cb \notin f.called =>
              \E i \in AheadLive(f) : callback[head[f.hook][i]] = cb
<1> DEFINE g == f.hook
           s == head[g]
<1>1. g \in HookNums /\ f.due \subseteq Callbacks /\ f.hp \in Nodes \cup {NULL}
  BY DEF Frame
<1>2. /\ Len(s) \in Nat
      /\ \A n \in ToSet(s) : Place(s, n) \in 1 .. Len(s) /\ s[Place(s, n)] = n
  BY <1>1, ListFacts
<1>3. f.hp # NULL => At(f) = Place(s, f.hp) /\ f.hp \in ToSet(s)
  BY DEF At, GoodFrame
<1>4. f.hp = NULL => At(f) = 0
  BY DEF At
<1> HIDE DEF s
<1>5. At(f) \in 0 .. Len(s)
  BY <1>2, <1>3, <1>4
<1>6. ASSUME NEW cb \in f.due, cb \notin f.called
      PROVE  \E i \in AheadLive(f) : callback[s[i]] = cb
  <2>1. PICK n \in ToSet(s) : callback[n] = cb /\ (f.hp = NULL \/ Behind(s, f.hp, n))
    BY <1>6 DEF GoodFrame, s
  <2>2. At(f) < Place(s, n)
    BY <1>2, <1>3, <1>4, <2>1 DEF Behind
  <2>3. Place(s, n) \in At(f) + 1 .. Len(s) /\ s[Place(s, n)] = n
    BY <1>2, <1>5, <2>2
  <2>4. cb # NULL
    BY <1>1 DEF HooksAssumption
  <2>5. Place(s, n) \in AheadLive(f)
    BY <2>1, <2>3, <2>4 DEF AheadLive, Ahead, s
  <2> QED BY <2>1, <2>3, <2>5
<1> QED BY <1>5, <1>6 DEF s

\* The frame goes to the first callback ahead: who was due is called now or is behind it.
LEMMA CallNextStep ==
  ASSUME HooksInv, HooksAssumption, CallNext
  PROVE  HooksInv'
<1>1. TypeOK /\ frames \in Seq(Frame) /\ closing \in BOOLEAN /\ frames # <<>>
  BY DEF HooksInv, TypeOK, CallNext
<1> DEFINE f == Last(frames)
           g == f.hook
           s == head[g]
           m == Len(frames)
<1>2. f = frames[m] /\ f \in Frame /\ m \in Nat \ {0} /\ DOMAIN frames = 1 .. m
  BY <1>1, FrontFacts
<1>3. m \in 1 .. m
  BY <1>2
<1>4. GoodFrame(f, head, callback)
  BY <1>2, <1>3 DEF HooksInv, FramesGood
<1>5. PICK i \in AheadLive(f) :
        /\ \A j \in AheadLive(f) : i <= j
        /\ frames' = Front(frames) \o <<[f EXCEPT !.hp = s[i], !.called = @ \cup {callback[s[i]]}]>>
  BY DEF CallNext
<1>6. UNCHANGED <<head, callback, priority, dirtyhooks, closing>>
  BY DEF CallNext
<1> HIDE DEF m, f
<1>7. At(f) \in 0 .. Len(s) /\ \A cb \in f.due : cb \notin f.called => \E j \in AheadLive(f) :
        callback[s[j]] = cb
  BY <1>1, <1>2, <1>4, AheadFacts
<1>8. /\ g \in HookNums /\ f.hp \in Nodes \cup {NULL} /\ f.due \subseteq Callbacks
           /\ f.called \subseteq Callbacks
  BY <1>2 DEF Frame
<1>9. /\ Len(s) \in Nat /\ ToSet(s) \subseteq Nodes
      /\ \A j \in 1 .. Len(s) : s[j] \in ToSet(s) /\ Place(s, s[j]) = j
  BY <1>1, <1>8, ListFacts
<1> HIDE DEF s
<1>10. \A j \in AheadLive(f) : j \in 1 .. Len(s) /\ callback[s[j]] # NULL
  <2>1. \A j \in AheadLive(f) : j \in At(f) + 1 .. Len(s) /\ callback[s[j]] # NULL
    BY DEF AheadLive, Ahead, s
  <2> QED BY <1>7, <1>9, <2>1
<1> DEFINE n == s[i]
           c == callback[n]
           e == [f EXCEPT !.hp = n, !.called = @ \cup {c}]
<1>11. n \in ToSet(s) /\ n \in Nodes /\ n # NULL /\ Place(s, n) = i /\ c \in Callbacks
  <2>1. n \in ToSet(s) /\ n \in Nodes /\ Place(s, n) = i /\ c # NULL
    BY <1>9, <1>10
  <2> QED BY <1>1, <2>1 DEF TypeOK, HooksAssumption
<1> HIDE DEF n, c
<1>12. e \in Frame /\ e.hook = g /\ e.hp = n /\ e.due = f.due /\ e.called = f.called \cup {c}
  BY <1>2, <1>8, <1>11 DEF Frame
<1> HIDE DEF e
<1>13. ASSUME NEW cb \in f.due, cb \notin e.called
       PROVE  \E l \in ToSet(s) : callback[l] = cb /\ Behind(s, n, l)
  <2>1. PICK j \in AheadLive(f) : callback[s[j]] = cb
    BY <1>7, <1>12, <1>13
  <2>2. i <= j /\ i \in 1 .. Len(s) /\ j \in 1 .. Len(s)
    BY <1>5, <1>10, <2>1
  <2>3. i # j
    BY <1>12, <1>13, <2>1 DEF n, c
  <2>4. i < j
    BY <1>9, <2>2, <2>3
  <2>5. s[j] \in ToSet(s) /\ Behind(s, n, s[j])
    BY <1>9, <1>11, <2>2, <2>4 DEF Behind
  <2> QED BY <2>1, <2>5
<1>14. GoodFrame(e, head, callback)
  BY <1>11, <1>12, <1>13 DEF GoodFrame, s
<1>15. /\ frames' \in Seq(Frame) /\ DOMAIN frames' = 1 .. m
       /\ \A j \in 1 .. m - 1 : frames'[j] = frames[j]
       /\ frames'[m] = e
  <2>1. frames' = Front(frames) \o <<e>>
    BY <1>5 DEF e, n, c
  <2> QED BY <1>1, <1>12, <2>1, ReplaceFacts DEF m
<1>16. \A j \in 1 .. m : j \in 1 .. m - 1 \/ j = m
  BY <1>2
<1>17. \A j \in 1 .. m : GoodFrame(frames[j], head, callback)
  BY <1>2 DEF HooksInv, FramesGood
<1>18. \A j \in DOMAIN frames' : GoodFrame(frames'[j], head, callback)
  BY <1>14, <1>15, <1>16, <1>17
<1> QED BY <1>1, <1>6, <1>15, <1>18, FramesStep

\* collectgarbage() keeps the invariant and the order of the nodes that stay.
LEMMA CollectStep ==
  ASSUME HooksInv, HooksAssumption, collectgarbage
  PROVE  /\ HooksInv'
         /\ \A g \in HookNums :
              /\ ToSet(head'[g]) \subseteq ToSet(head[g])
              /\ \A n, m \in ToSet(head'[g]) : Behind(head'[g], n, m) => Behind(head[g], n, m)
<1> USE DEF HooksInv
<1>1. /\ head' = [h \in HookNums |-> IF h \in ToSet(dirtyhooks) THEN Swept(head[h]) ELSE head[h]]
      /\ dirtyhooks' = <<>> /\ frames' = <<>> /\ closing' = FALSE
      /\ UNCHANGED <<callback, priority>>
  BY DEF collectgarbage
<1>2. ASSUME NEW g \in HookNums
      PROVE  /\ head'[g] \in Seq(Nodes) /\ IsInjective(head'[g])
             /\ ToSet(head'[g]) \subseteq ToSet(head[g])
             /\ \A n, m \in ToSet(head'[g]) : Behind(head'[g], n, m) => Behind(head[g], n, m)
             /\ \A n \in ToSet(head'[g]) : callback[n] # NULL
  <2>1. head[g] \in Seq(Nodes) /\ IsInjective(head[g])
    BY ListFacts
  <2>2. CASE g \in ToSet(dirtyhooks)
    <3>1. head'[g] = Swept(head[g])
      BY <1>1, <2>2
    <3>2. /\ Swept(head[g]) \in Seq(Nodes) /\ IsInjective(Swept(head[g]))
          /\ ToSet(Swept(head[g])) = {n \in ToSet(head[g]) : callback[n] # NULL}
          /\ \A n, m \in ToSet(Swept(head[g])) : Behind(Swept(head[g]), n, m) => Behind(head[g], n, m)
      BY <2>1, SweptFacts
    <3> QED BY <3>1, <3>2
  <2>3. CASE g \notin ToSet(dirtyhooks)
    <3>1. head'[g] = head[g]
      BY <1>1, <2>3
    <3>2. \A n \in ToSet(head[g]) : callback[n] # NULL
      BY <2>3 DEF DirtyMarked
    <3> QED BY <2>1, <3>1, <3>2
  <2> QED BY <2>2, <2>3
<1>3. TypeOK'
  <2>1. head' \in [HookNums -> Seq(Nodes)]
    BY <1>1, <1>2
  <2>2. \A g, j \in HookNums : g # j => ToSet(head'[g]) \cap ToSet(head'[j]) = {}
    <3>1. \A g, j \in HookNums : g # j => ToSet(head[g]) \cap ToSet(head[j]) = {}
      BY DEF TypeOK
    <3> QED BY <1>2, <3>1
  <2>3. frames' \in Seq(Frame) /\ dirtyhooks' \in Seq(HookNums) /\ closing' \in BOOLEAN
    <3>1. <<>> \in Seq(Frame) /\ <<>> \in Seq(HookNums)
      BY EmptyFacts
    <3> QED BY <1>1, <3>1
  <2> QED BY <1>1, <1>2, <2>1, <2>2, <2>3 DEF TypeOK
<1>4. FramesGood'
  <2>1. DOMAIN frames' = {}
    BY <1>1
  <2> QED BY <2>1 DEF FramesGood
<1>5. DirtyMarked'
  <2>1. IsInjective(dirtyhooks')
    BY <1>1 DEF IsInjective
  <2> QED BY <1>1, <1>2, <2>1 DEF DirtyMarked
<1>6. ByPriority'
  BY <1>1, <1>2 DEF ByPriority
<1> QED BY <1>2, <1>3, <1>4, <1>5, <1>6

\* Every step keeps the invariant.
LEMMA HooksStep ==
  ASSUME HooksInv, HooksAssumption, [Next]_vars
  PROVE  HooksInv'
<1>1. ASSUME NEW h \in HookNums, NEW cb \in Callbacks, deregisterhook(h, cb)
      PROVE  HooksInv'
  BY <1>1, DeregisterStep
<1>2. ASSUME NEW h \in HookNums, NEW cb \in Callbacks, NEW p \in Priorities, registerpriorityhook(h, cb, p)
      PROVE  HooksInv'
  BY <1>2, RegisterStep
<1>3. ASSUME NEW h \in HookNums, triggerhook(h)
      PROVE  HooksInv'
  BY <1>3, TriggerStep
<1>4. CASE CallNext
  BY <1>4, CallNextStep
<1>5. CASE Return
  BY <1>5, ReturnStep
<1>6. CASE EndOfHooksQueue
  BY <1>6, EndStep
<1>7. CASE collectgarbage
  BY <1>7, CollectStep
<1>8. CASE UNCHANGED vars
  <2>1. UNCHANGED <<head, callback, priority, frames, dirtyhooks, closing>>
    BY <1>8 DEF vars
  <2> QED BY <2>1 DEF HooksInv, TypeOK, FramesGood, DirtyMarked, ByPriority
<1> QED BY <1>1, <1>2, <1>3, <1>4, <1>5, <1>6, <1>7, <1>8 DEF Next

\* It holds initially.
LEMMA HooksStart ==
  ASSUME Init, HooksAssumption
  PROVE  HooksInv
<1>1. \A h \in HookNums : head[h] = <<>>
  BY DEF Init
<1>2. \A h \in HookNums : head[h] \in Seq(Nodes) /\ DOMAIN head[h] = {}
  <2>1. <<>> \in Seq(Nodes) /\ DOMAIN <<>> = {}
    BY EmptyFacts
  <2> QED BY <1>1, <2>1
<1>3. \A h \in HookNums : ToSet(head[h]) = {} /\ IsInjective(head[h])
  BY <1>2 DEF ToSet, IsInjective
<1>4. frames \in Seq(Frame) /\ DOMAIN frames = {} /\ dirtyhooks \in Seq(HookNums) /\ DOMAIN dirtyhooks = {}
  <2>1. <<>> \in Seq(Frame) /\ <<>> \in Seq(HookNums) /\ DOMAIN <<>> = {}
    BY EmptyFacts
  <2> QED BY <2>1 DEF Init
<1>5. TypeOK
  <2>1. head \in [HookNums -> Seq(Nodes)]
    BY <1>2 DEF Init
  <2>2. callback \in [Nodes -> Callbacks \cup {NULL}]
    BY DEF Init
  <2>3. priority \in [Nodes -> Int]
    BY DEF Init
  <2>4. closing \in BOOLEAN
    BY DEF Init
  <2> QED BY <1>3, <1>4, <2>1, <2>2, <2>3, <2>4 DEF TypeOK
<1>6. FramesGood
  BY <1>4 DEF FramesGood
<1>7. DirtyMarked
  BY <1>3, <1>4 DEF DirtyMarked, IsInjective
<1>8. ByPriority
  BY <1>3 DEF ByPriority
<1> QED BY <1>5, <1>6, <1>7, <1>8 DEF HooksInv

\* The inductive invariant of the hook lists holds in every state.
THEOREM HooksInvariant == Spec => []HooksInv
<1>1. Init => HooksInv
  BY HooksStart, HooksAssumption
<1>2. HooksInv /\ [Next]_vars => HooksInv'
  BY HooksStep, HooksAssumption
<1> QED BY <1>1, <1>2, PTL DEF Spec

\* dirtyhooks[HOOKMAX] does not overflow.
LEMMA MarkedOnce ==
  ASSUME HooksInv, HooksAssumption
  PROVE  Len(dirtyhooks) <= Cardinality(HookNums)
<1> DEFINE m == Len(dirtyhooks)
<1>1. dirtyhooks \in Seq(HookNums) /\ IsInjective(dirtyhooks)
  BY DEF HooksInv, TypeOK, DirtyMarked
<1>2. m \in Nat /\ DOMAIN dirtyhooks = 1 .. m /\ dirtyhooks \in [1 .. m -> HookNums]
  BY <1>1
<1> HIDE DEF m
<1>3. dirtyhooks \in Injection(1 .. m, HookNums)
  BY <1>1, <1>2 DEF Injection, IsInjective
<1>4. IsFiniteSet(HookNums) /\ IsFiniteSet(1 .. m) /\ Cardinality(1 .. m) = m
  BY <1>2, UpTo DEF HooksAssumption
<1>5. Cardinality(1 .. m) <= Cardinality(HookNums)
  BY <1>3, <1>4, FS_Injection
<1> QED BY <1>4, <1>5 DEF m

\* collectgarbage() and triggerhook(): the node whose callback a running frame is in is on its hook's
\* list, and dirtyhooks names each hook with a deregistered node, once.
THEOREM NodesStay == Spec => []NoDanglingNode
<1>1. ASSUME HooksInv
      PROVE  NoDanglingNode
  <2>1. \A i \in DOMAIN frames : frames[i].hp # NULL => frames[i].hp \in ToSet(head[frames[i].hook])
    BY <1>1 DEF HooksInv, FramesGood, GoodFrame
  <2> QED BY <1>1, <2>1, MarkedOnce, HooksAssumption DEF HooksInv, DirtyMarked, NoDanglingNode
<1> QED BY <1>1, HooksInvariant, PTL

\* triggerhook(): a frame at the end of its list has called every callback that was due in it.
THEOREM EveryDueCallbackCalled == Spec => []AllCalled
<1>1. ASSUME HooksInv
      PROVE  AllCalled
  <2> SUFFICES ASSUME NEW i \in DOMAIN frames, AheadLive(frames[i]) = {}, NEW cb \in frames[i].due
               PROVE  cb \in frames[i].called
    BY DEF AllCalled
  <2>1. TypeOK /\ frames[i] \in Frame /\ GoodFrame(frames[i], head, callback)
    BY <1>1, FrameFacts DEF HooksInv, FramesGood
  <2> QED BY <2>1, AheadFacts, HooksAssumption
<1> QED BY <1>1, HooksInvariant, PTL

\* registerpriorityhook() and collectgarbage(): the lists are in the order of the priorities and,
\* within one, of registration, and no step changes the order of the nodes that stay.
THEOREM RegistrationOrder == Spec => OrderKept
<1>1. ASSUME HooksInv, HooksInv', Next, NEW g \in HookNums
      PROVE  KeepsOrder(g)
  <2>1. \A i, j \in DOMAIN head'[g] : i < j => priority'[head'[g][i]] <= priority'[head'[g][j]]
    <3>1. /\ DOMAIN head'[g] = 1 .. Len(head'[g])
          /\ \A i \in 1 .. Len(head'[g]) : head'[g][i] \in ToSet(head'[g]) /\ Place(head'[g], head'[g][i]) = i
      <4>1. head'[g] \in Seq(Nodes) /\ IsInjective(head'[g])
        BY <1>1 DEF HooksInv, TypeOK
      <4> QED BY <4>1, PlaceFacts
    <3>2. \A n, m \in ToSet(head'[g]) : Place(head'[g], n) < Place(head'[g], m)
            => priority'[n] <= priority'[m]
      BY <1>1 DEF HooksInv, ByPriority, Behind
    <3> QED BY <3>1, <3>2
  <2>2. CASE head' = head
    BY <2>1, <2>2 DEF KeepsOrder
  <2>3. ASSUME NEW h \in HookNums, NEW cb \in Callbacks, NEW p \in Priorities, registerpriorityhook(h, cb, p)
        PROVE  KeepsOrder(g)
    <3>1. /\ \A n, m \in ToSet(head[g]) : Behind(head[g], n, m) => Behind(head'[g], n, m)
          /\ \A n \in ToSet(head'[g]) \ ToSet(head[g]) : \A m \in ToSet(head[g]) :
               priority[m] = priority'[n] => Behind(head'[g], m, n)
      BY <1>1, <2>3, RegisterStep, HooksAssumption
    <3> QED BY <2>1, <3>1 DEF Behind, KeepsOrder
  <2>4. CASE collectgarbage
    <3>1. /\ ToSet(head'[g]) \subseteq ToSet(head[g])
          /\ \A n, m \in ToSet(head'[g]) : Behind(head'[g], n, m) => Behind(head[g], n, m)
      BY <1>1, <2>4, CollectStep, HooksAssumption
    <3>2. \A n \in ToSet(head'[g]) : Place(head'[g], n) \in Nat
      <4>1. head'[g] \in Seq(Nodes) /\ IsInjective(head'[g])
        BY <1>1 DEF HooksInv, TypeOK
      <4>2. \A n \in ToSet(head'[g]) : Place(head'[g], n) \in 1 .. Len(head'[g]) /\ head'[g][Place(head'[g],
            n)] = n
        BY <4>1, PlaceFacts
      <4> QED BY <4>1, <4>2
    <3>3. \A n \in ToSet(head[g]) : Place(head[g], n) \in Nat /\ head[g][Place(head[g], n)] = n
      <4>1. /\ Len(head[g]) \in Nat
            /\ \A n \in ToSet(head[g]) : Place(head[g], n) \in 1 .. Len(head[g]) /\ head[g][Place(head[g],
                n)] = n
        BY <1>1, ListFacts DEF HooksInv
      <4> QED BY <4>1
    <3>4. \A n \in ToSet(head'[g]) : head'[g][Place(head'[g], n)] = n
      <4>1. head'[g] \in Seq(Nodes) /\ IsInjective(head'[g])
        BY <1>1 DEF HooksInv, TypeOK
      <4> QED BY <4>1, PlaceFacts
    <3>5. ASSUME NEW n \in ToSet(head'[g]), NEW m \in ToSet(head'[g]), Behind(head[g], n, m)
          PROVE  Behind(head'[g], n, m)
      <4>1. n # m
        BY <3>1, <3>3, <3>5 DEF Behind
      <4>2. ~Behind(head'[g], m, n)
        BY <3>1, <3>3, <3>5 DEF Behind
      <4>3. Place(head'[g], n) # Place(head'[g], m)
        BY <3>4, <4>1
      <4> QED BY <3>2, <4>2, <4>3 DEF Behind
    <3> QED BY <2>1, <3>1, <3>5 DEF Behind, KeepsOrder
  <2>5. CASE \/ \E h \in HookNums, cb \in Callbacks : deregisterhook(h, cb)
             \/ \E h \in HookNums : triggerhook(h)
             \/ CallNext \/ Return \/ EndOfHooksQueue
    BY <2>2, <2>5 DEF deregisterhook, triggerhook, CallNext, Return, EndOfHooksQueue
  <2> QED BY <1>1, <2>3, <2>4, <2>5 DEF Next
<1>2. HooksInv /\ HooksInv' /\ [Next]_vars => [\A h \in HookNums : KeepsOrder(h)]_vars
  BY <1>1
<1> QED BY <1>2, HooksInvariant, PTL DEF Spec, OrderKept

-----------------------------------------------------------------------------
(* Pending kills. *)

\* A nick that is leaving is what no hook further out is about, except the outermost one at its
\* end, whose callbacks have all been told.
DepartsAlone ==
  \A i, j \in DOMAIN killframes :
    j < i /\ killframes[i].stage # "hook" /\ killframes[j].np = killframes[i].np
      => Kills!InEndOfQueue(j) /\ killframes[j].stage = "hook"

DepartingAlive == \A i \in DOMAIN killframes : killframes[i].stage # "hook" => killframes[i].np \in alive

HooksAlive == \A i \in DOMAIN killframes : ~Kills!InEndOfQueue(i) => killframes[i].np \in alive

PendingAlive ==
  \A i \in DOMAIN pendingkilllist :
    /\ pendingkilllist[i].source \in alive \cup {NULL}
    /\ pendingkilllist[i].target \in alive \cup {NULL}

\* From LOSTNICK on, no pending kill names the nick that leaves.
LostForgotten ==
  \A i \in DOMAIN killframes, k \in DOMAIN pendingkilllist :
    killframes[i].stage = "lost"
      => killframes[i].np \notin {pendingkilllist[k].source, pendingkilllist[k].target}

\* Nobody asks for the death of the nick whose departure the outermost hook is told of.
OuterSpared ==
  \A k \in DOMAIN pendingkilllist :
    killframes # <<>> /\ killframes[1].stage # "hook" => pendingkilllist[k].target # killframes[1].np

\* Where the list of pending kills has been emptied.
ListEmptied ==
  /\ endofqueue = "late" => pendingkilllist = <<>>
  /\ killframes = <<>> => pendingkilllist = <<>> /\ endofqueue = "no"

KillsInv ==
  /\ Kills!TypeOK
  /\ DepartsAlone /\ DepartingAlive /\ HooksAlive
  /\ PendingAlive /\ LostForgotten /\ OuterSpared /\ ListEmptied

-----------------------------------------------------------------------------
(* Sequences. *)

LEMMA TailFacts ==
  ASSUME NEW S, NEW s \in Seq(S), s # <<>>
  PROVE  /\ Tail(s) \in Seq(S)
         /\ \A i \in DOMAIN Tail(s) : i + 1 \in DOMAIN s /\ Tail(s)[i] = s[i + 1]
         /\ 1 \in DOMAIN s /\ Head(s) = s[1] /\ Head(s) \in S
  OBVIOUS

LEMMA PrependFacts ==
  ASSUME NEW S, NEW s \in Seq(S), NEW x \in S
  PROVE  /\ <<x>> \o s \in Seq(S)
         /\ \A i \in DOMAIN (<<x>> \o s) :
              IF i = 1 THEN (<<x>> \o s)[i] = x
              ELSE i - 1 \in DOMAIN s /\ (<<x>> \o s)[i] = s[i - 1]
  OBVIOUS

-----------------------------------------------------------------------------
(* A hook begins. *)

LEMMA PushInv ==
  ASSUME KillsInv, NEW np \in Nicks, NEW stage \in {"hook", "quit", "pre"}, Kills!Push(np, stage),
         np \in alive', alive' \subseteq Nicks, alive \subseteq alive', UNCHANGED endofqueue,
         stage # "hook" => \A i \in DOMAIN killframes :
           killframes[i].np = np => Kills!InEndOfQueue(i) /\ killframes[i].stage = "hook",
         pendingkilllist' \in Seq(Kills!Kill),
         \A k \in DOMAIN pendingkilllist' :
           \E m \in DOMAIN pendingkilllist : pendingkilllist'[k] = pendingkilllist[m],
         pendingkilllist = <<>> => pendingkilllist' = <<>>
  PROVE  KillsInv'
<1> DEFINE f == [np |-> np, stage |-> stage]
<1>1. killframes \in Seq(Kills!Frame) /\ f \in Kills!Frame
  BY DEF KillsInv, Kills!TypeOK, Kills!Frame
<1>2. /\ killframes' \in Seq(Kills!Frame)
      /\ DOMAIN killframes' = 1 .. Len(killframes) + 1
      /\ DOMAIN killframes = 1 .. Len(killframes) /\ Len(killframes) \in Nat
      /\ \A i \in 1 .. Len(killframes) : killframes'[i] = killframes[i]
      /\ killframes'[Len(killframes) + 1] = f
  <2> HIDE DEF f
  <2>1. killframes' = Append(killframes, f)
    BY DEF Kills!Push, f
  <2> QED BY <1>1, <2>1, AppendFacts
<1>3. Kills!TypeOK'
  BY <1>2 DEF KillsInv, Kills!TypeOK
<1>4. \A i \in 1 .. Len(killframes) : Kills!InEndOfQueue(i)' <=> Kills!InEndOfQueue(i)
  BY DEF Kills!InEndOfQueue
<1>5. DepartsAlone'
  <2> SUFFICES ASSUME NEW i \in DOMAIN killframes', NEW j \in DOMAIN killframes',
                      j < i, killframes'[i].stage # "hook", killframes'[j].np = killframes'[i].np
               PROVE  Kills!InEndOfQueue(j)' /\ killframes'[j].stage = "hook"
    BY DEF DepartsAlone
  <2>1. j \in 1 .. Len(killframes) /\ killframes'[j] = killframes[j]
    BY <1>2
  <2>2. CASE i = Len(killframes) + 1
    BY <1>2, <1>4, <2>1, <2>2
  <2>3. CASE i \in 1 .. Len(killframes)
    BY <1>2, <1>4, <2>1, <2>3 DEF KillsInv, DepartsAlone
  <2> QED BY <1>2, <2>2, <2>3
<1>6. DepartingAlive' /\ HooksAlive'
  BY <1>2, <1>4 DEF KillsInv, DepartingAlive, HooksAlive
<1>7. PendingAlive'
  BY DEF KillsInv, PendingAlive
<1>8. LostForgotten'
  BY <1>2 DEF KillsInv, LostForgotten
<1>9. OuterSpared'
  <2>1. CASE killframes = <<>>
    BY <2>1 DEF KillsInv, ListEmptied, OuterSpared
  <2>2. CASE killframes # <<>>
    <3>1. killframes'[1] = killframes[1]
      BY <1>1, <1>2, <2>2
    <3> QED BY <2>2, <3>1 DEF KillsInv, OuterSpared
  <2> QED BY <2>1, <2>2
<1>10. ListEmptied'
  BY <1>2 DEF KillsInv, ListEmptied
<1> QED BY <1>3, <1>5, <1>6, <1>7, <1>8, <1>9, <1>10 DEF KillsInv

LEMMA NewNickInv ==
  ASSUME KillsInv, NEW np \in Nicks, Kills!NewNick(np)
  PROVE  KillsInv'
<1>1. np \in alive' /\ alive' \subseteq Nicks /\ alive \subseteq alive'
  BY DEF Kills!NewNick, KillsInv, Kills!TypeOK
<1> QED BY <1>1, PushInv DEF Kills!NewNick, KillsInv, Kills!TypeOK

LEMMA EventInv ==
  ASSUME KillsInv, NEW np \in Nicks, Kills!Event(np)
  PROVE  KillsInv'
BY PushInv DEF Kills!Event, KillsInv, Kills!TypeOK

LEMMA NickGoneInv ==
  ASSUME KillsInv, NEW np \in Nicks, Kills!NickGone(np)
  PROVE  KillsInv'
<1>1. DOMAIN killframes = {}
  BY DEF Kills!NickGone, Kills!hookqueuelength, KillsInv, Kills!TypeOK
<1> QED BY <1>1, PushInv DEF Kills!NickGone, KillsInv, Kills!TypeOK

LEMMA DeleteAtOnceInv ==
  ASSUME KillsInv, NEW np \in Nicks, NEW stage \in {"quit", "pre"}, Kills!DeleteAtOnce(np, stage)
  PROVE  KillsInv'
<1>1. \A i \in DOMAIN killframes : killframes[i].np # np
  BY DEF Kills!DeleteAtOnce, Kills!Carried
<1> QED BY <1>1, PushInv DEF Kills!DeleteAtOnce, KillsInv, Kills!TypeOK

\* Neither the killer nor the killed is a nick whose departure a hook is told of.
LEMMA killuserInv ==
  ASSUME KillsInv,
         NEW source \in alive \cup {NULL}, NEW target \in Nicks, Kills!killuser(source, target)
  PROVE  KillsInv'
<1> DEFINE k == [source |-> source, target |-> target]
<1>1. CASE Kills!hookqueuelength > 0
  <2>1. /\ pendingkilllist \in Seq(Kills!Kill) /\ k \in Kills!Kill /\ killframes \in Seq(Kills!Frame)
        /\ Len(killframes) > 0 /\ DOMAIN killframes = 1 .. Len(killframes)
    BY <1>1 DEF Kills!killuser, Kills!hookqueuelength, KillsInv, Kills!TypeOK, Kills!Kill
  <2>2. /\ UNCHANGED <<killframes, alive, endofqueue>>
        /\ pendingkilllist' = <<k>> \o pendingkilllist
    BY <1>1 DEF Kills!killuser
  <2>3. /\ pendingkilllist' \in Seq(Kills!Kill)
        /\ \A i \in DOMAIN pendingkilllist' :
             IF i = 1 THEN pendingkilllist'[i] = k
             ELSE i - 1 \in DOMAIN pendingkilllist /\ pendingkilllist'[i] = pendingkilllist[i - 1]
    <3> HIDE DEF k
    <3> QED BY <2>1, <2>2, PrependFacts
  <2>4. \A i \in DOMAIN killframes : killframes[i].stage # "hook" => killframes[i].np \notin {source, target}
    BY DEF Kills!killuser, Kills!Departing
  <2>5. Kills!TypeOK'
    BY <2>2, <2>3 DEF KillsInv, Kills!TypeOK
  <2>6. DepartsAlone' /\ DepartingAlive' /\ HooksAlive'
    BY <2>2 DEF KillsInv, DepartsAlone, DepartingAlive, HooksAlive, Kills!InEndOfQueue
  <2>7. PendingAlive'
    <3>1. target \in alive
      BY DEF Kills!killuser
    <3> QED BY <2>2, <2>3, <3>1 DEF KillsInv, PendingAlive
  <2>8. LostForgotten'
    <3> SUFFICES ASSUME NEW i \in DOMAIN killframes, NEW m \in DOMAIN pendingkilllist',
                        killframes[i].stage = "lost"
                 PROVE  killframes[i].np \notin {pendingkilllist'[m].source, pendingkilllist'[m].target}
      BY <2>2 DEF LostForgotten
    <3>1. CASE m = 1
      BY <2>3, <2>4, <3>1
    <3>2. CASE m # 1
      BY <2>3, <3>2 DEF KillsInv, LostForgotten
    <3> QED BY <3>1, <3>2
  <2>9. OuterSpared'
    <3> SUFFICES ASSUME NEW m \in DOMAIN pendingkilllist', killframes[1].stage # "hook"
                 PROVE  pendingkilllist'[m].target # killframes[1].np
      BY <2>2 DEF OuterSpared
    <3>1. CASE m = 1
      BY <2>1, <2>3, <2>4, <3>1
    <3>2. CASE m # 1
      BY <2>1, <2>3, <3>2 DEF KillsInv, OuterSpared
    <3> QED BY <3>1, <3>2
  <2>10. ListEmptied'
    BY <2>1, <2>2 DEF KillsInv, ListEmptied, Kills!killuser
  <2> QED BY <2>5, <2>6, <2>7, <2>8, <2>9, <2>10 DEF KillsInv
<1>2. CASE ~(Kills!hookqueuelength > 0)
  <2>1. DOMAIN killframes = {} /\ Kills!Push(target, "quit")
    BY <1>2 DEF Kills!killuser, Kills!hookqueuelength, KillsInv, Kills!TypeOK
  <2>2. /\ target \in alive' /\ UNCHANGED <<alive, pendingkilllist, endofqueue>>
    BY <1>2 DEF Kills!killuser
  <2> QED BY <2>1, <2>2, PushInv DEF KillsInv, Kills!TypeOK
<1> QED BY <1>1, <1>2

-----------------------------------------------------------------------------
(* A hook is done. *)

LEMMA ContinueInv ==
  ASSUME KillsInv, NULL \notin Nicks, killframes # <<>>, Kills!Continue,
         \/ Len(killframes) > 1 /\ UNCHANGED endofqueue
         \/ Len(killframes) = 1 /\ endofqueue = "late" /\ endofqueue' = "no"
  PROVE  KillsInv'
<1> DEFINE n == Len(killframes)
           f == killframes[n]
<1>1. /\ killframes \in Seq(Kills!Frame) /\ DOMAIN killframes = 1 .. n /\ n \in Nat \ {0}
      /\ Kills!Top = f /\ f \in Kills!Frame
      /\ pendingkilllist \in Seq(Kills!Kill) /\ alive \subseteq Nicks
      /\ \A i \in 1 .. n : killframes[i] \in Kills!Frame
  <2>1. killframes \in Seq(Kills!Frame) /\ pendingkilllist \in Seq(Kills!Kill) /\ alive \subseteq Nicks
    BY DEF KillsInv, Kills!TypeOK
  <2>2. DOMAIN killframes = 1 .. n /\ n \in Nat \ {0} /\ \A i \in 1 .. n : killframes[i] \in Kills!Frame
    BY <2>1
  <2> QED BY <2>1, <2>2 DEF Kills!Top, Kills!Last, Last
<1>2. endofqueue' \in {"no", "kills", "late"}
  BY DEF KillsInv, Kills!TypeOK
<1>3. \A i \in 1 .. n : Kills!InEndOfQueue(i)' => Kills!InEndOfQueue(i)
  BY <1>1 DEF Kills!InEndOfQueue
<1>4. n > 1 => \A i \in 1 .. n : Kills!InEndOfQueue(i) <=> Kills!InEndOfQueue(i)'
  BY <1>1 DEF Kills!InEndOfQueue
<1>5. n = 1 => pendingkilllist = <<>>
  BY DEF KillsInv, ListEmptied
<1>6. CASE f.stage \in {"hook", "lost"}
  <2>1. /\ killframes' = Front(killframes) /\ UNCHANGED pendingkilllist
        /\ alive' = IF f.stage = "lost" THEN alive \ {f.np} ELSE alive
    BY <1>1, <1>6 DEF Kills!Continue, Kills!Front, Front
  <2>2. /\ killframes' \in Seq(Kills!Frame) /\ DOMAIN killframes' = 1 .. n - 1 /\ Len(killframes') = n - 1
        /\ \A i \in 1 .. n - 1 : killframes'[i] = killframes[i]
    BY <1>1, <2>1, FrontFacts
  <2>3. Kills!TypeOK'
    BY <1>1, <1>2, <2>1, <2>2 DEF Kills!TypeOK
  <2>4. DepartsAlone'
    <3>1. CASE n > 1
      BY <1>1, <1>4, <2>2, <3>1 DEF KillsInv, DepartsAlone
    <3>2. CASE n = 1
      BY <2>2, <3>2 DEF DepartsAlone
    <3> QED BY <1>1, <3>1, <3>2
  <2>5. DepartingAlive'
    <3>1. f.stage = "lost" => \A i \in 1 .. n - 1 : killframes[i].stage # "hook" => killframes[i].np # f.np
      BY <1>1 DEF KillsInv, DepartsAlone
    <3> QED BY <1>1, <2>1, <2>2, <3>1 DEF KillsInv, DepartingAlive
  <2>6. HooksAlive'
    <3>1. f.stage = "lost" =>
            \A i \in 1 .. n - 1 : ~Kills!InEndOfQueue(i) => killframes[i].np # f.np
      BY <1>1 DEF KillsInv, DepartsAlone
    <3> QED BY <1>1, <1>4, <2>1, <2>2, <3>1 DEF KillsInv, HooksAlive
  <2>7. PendingAlive'
    <3>1. f.stage = "lost" => \A k \in DOMAIN pendingkilllist :
            f.np \notin {pendingkilllist[k].source, pendingkilllist[k].target}
      BY <1>1 DEF KillsInv, LostForgotten
    <3> QED BY <2>1, <3>1 DEF KillsInv, PendingAlive
  <2>8. LostForgotten'
    BY <1>1, <2>1, <2>2 DEF KillsInv, LostForgotten
  <2>9. OuterSpared'
    <3>1. killframes' # <<>> => 1 \in 1 .. n - 1
      BY <1>1, <2>2
    <3> QED BY <2>1, <2>2, <3>1 DEF KillsInv, OuterSpared
  <2>10. ListEmptied'
    <3>1. CASE n > 1
      <4>1. killframes' # <<>>
        BY <2>2, <3>1
      <4> QED BY <4>1, <2>1, <3>1 DEF KillsInv, ListEmptied
    <3>2. CASE n = 1
      BY <1>5, <2>1, <3>2 DEF ListEmptied
    <3> QED BY <1>1, <3>1, <3>2
  <2> QED BY <2>3, <2>4, <2>5, <2>6, <2>7, <2>8, <2>9, <2>10 DEF KillsInv
<1>7. CASE f.stage \in {"quit", "pre"}
  <2> DEFINE g == [f EXCEPT !.stage = IF f.stage = "quit" THEN "pre" ELSE "lost"]
  <2>1. /\ killframes' = Front(killframes) \o <<g>> /\ UNCHANGED alive
        /\ f.stage = "quit" => UNCHANGED pendingkilllist
        /\ f.stage = "pre" => pendingkilllist' = Kills!checkpendingkills(f.np)
    BY <1>1, <1>7 DEF Kills!Continue, Kills!Front, Front
  <2>2. g \in Kills!Frame /\ g.np = f.np /\ g.stage \in {"pre", "lost"}
          /\ (g.stage = "lost" <=> f.stage = "pre")
    BY <1>1, <1>7 DEF Kills!Frame
  <2>3. /\ killframes' \in Seq(Kills!Frame) /\ DOMAIN killframes' = 1 .. n /\ Len(killframes') = n
        /\ \A i \in 1 .. n - 1 : killframes'[i] = killframes[i]
        /\ killframes'[n] = g
    <3>1. g \in Kills!Frame /\ killframes \in Seq(Kills!Frame) /\ killframes # <<>>
            /\ killframes' = Front(killframes) \o <<g>>
      BY <1>1, <2>1, <2>2
    <3> HIDE DEF g
    <3> QED BY <3>1, ReplaceFacts
  <2>4. /\ pendingkilllist' \in Seq(Kills!Kill)
        /\ DOMAIN pendingkilllist' = DOMAIN pendingkilllist
        /\ \A k \in DOMAIN pendingkilllist :
             /\ pendingkilllist'[k].source \in {pendingkilllist[k].source, NULL}
             /\ pendingkilllist'[k].target \in {pendingkilllist[k].target, NULL}
             /\ g.stage = "lost" => f.np \notin {pendingkilllist'[k].source, pendingkilllist'[k].target}
    <3>1. CASE f.stage = "quit"
      BY <1>1, <2>1, <2>2, <3>1
    <3>2. CASE f.stage = "pre"
      <4>1. f.np \in Nicks /\ f.np # NULL
        BY <1>1 DEF Kills!Frame
      <4>2. \A k \in DOMAIN pendingkilllist : pendingkilllist[k] \in Kills!Kill
        BY <1>1
      <4>3. Kills!checkpendingkills(f.np) \in Seq(Kills!Kill)
        BY <1>1, <4>2 DEF Kills!checkpendingkills, Kills!Kill
      <4> QED BY <2>1, <2>2, <3>2, <4>1, <4>2, <4>3 DEF Kills!checkpendingkills, Kills!Kill
    <3> QED BY <1>7, <3>1, <3>2
  <2>5. \A i \in 1 .. n : /\ killframes'[i].np = killframes[i].np
                          /\ killframes'[i].stage = "hook" <=> killframes[i].stage = "hook"
                          /\ i # n => killframes'[i].stage = killframes[i].stage
    <3> SUFFICES ASSUME NEW i \in 1 .. n
                 PROVE  /\ killframes'[i].np = killframes[i].np
                        /\ killframes'[i].stage = "hook" <=> killframes[i].stage = "hook"
                        /\ i # n => killframes'[i].stage = killframes[i].stage
      OBVIOUS
    <3>1. CASE i = n
      <4>1. killframes'[i] = g /\ killframes[i] = f
        BY <2>3, <3>1
      <4> QED BY <1>7, <2>2, <3>1, <4>1
    <3>2. CASE i # n
      BY <1>1, <2>3, <3>2
    <3> QED BY <3>1, <3>2
  <2>6. Kills!TypeOK'
    BY <1>1, <1>2, <2>1, <2>3, <2>4 DEF Kills!TypeOK
  <2>7. DepartsAlone'
    <3>1. CASE n > 1
      BY <1>1, <1>4, <2>3, <2>5, <3>1 DEF KillsInv, DepartsAlone
    <3>2. CASE n = 1
      BY <2>3, <3>2 DEF DepartsAlone
    <3> QED BY <1>1, <3>1, <3>2
  <2>8. DepartingAlive'
    BY <1>1, <2>1, <2>3, <2>5 DEF KillsInv, DepartingAlive
  <2>9. HooksAlive'
    <3>1. CASE n > 1
      BY <1>1, <1>4, <2>1, <2>3, <2>5, <3>1 DEF KillsInv, HooksAlive
    <3>2. CASE n = 1
      BY <1>1, <1>7, <2>1, <2>3, <2>5, <3>2 DEF KillsInv, HooksAlive, DepartingAlive
    <3> QED BY <1>1, <3>1, <3>2
  <2>10. PendingAlive'
    BY <2>1, <2>4 DEF KillsInv, PendingAlive
  <2>11. LostForgotten'
    <3> SUFFICES ASSUME NEW i \in 1 .. n, NEW k \in DOMAIN pendingkilllist,
                        killframes'[i].stage = "lost"
                 PROVE  killframes'[i].np \notin {pendingkilllist'[k].source, pendingkilllist'[k].target}
      BY <2>3, <2>4 DEF LostForgotten
    <3>1. CASE i = n
      BY <2>2, <2>3, <2>4, <3>1
    <3>2. CASE i # n
      <4>1. killframes[i].np \notin {pendingkilllist[k].source, pendingkilllist[k].target}
        BY <1>1, <2>5, <3>2 DEF KillsInv, LostForgotten
      <4>2. killframes[i] \in Kills!Frame /\ killframes[i].np # NULL
        BY <1>1 DEF Kills!Frame
      <4> QED BY <2>4, <2>5, <4>1, <4>2
    <3> QED BY <3>1, <3>2
  <2>12. OuterSpared'
    <3>1. 1 \in 1 .. n /\ killframes[1] \in Kills!Frame /\ killframes[1].np # NULL
      BY <1>1 DEF Kills!Frame
    <3> QED BY <1>1, <2>4, <2>5, <3>1 DEF KillsInv, OuterSpared
  <2>13. ListEmptied'
    <3>1. killframes' # <<>>
      BY <1>1, <2>3
    <3>2. pendingkilllist = <<>> => pendingkilllist' = <<>>
      BY <1>1, <2>4
    <3> QED BY <3>1, <3>2 DEF KillsInv, ListEmptied
  <2> QED BY <2>6, <2>7, <2>8, <2>9, <2>10, <2>11, <2>12, <2>13 DEF KillsInv
<1> QED BY <1>1, <1>6, <1>7 DEF Kills!Frame

LEMMA InnerDoneInv ==
  ASSUME KillsInv, NULL \notin Nicks, Kills!InnerDone
  PROVE  KillsInv'
<1>1. killframes # <<>> /\ Len(killframes) > 1
  BY DEF Kills!InnerDone, Kills!hookqueuelength
<1> QED BY <1>1, ContinueInv DEF Kills!InnerDone

LEMMA QueueDoneInv ==
  ASSUME KillsInv, NULL \notin Nicks, Kills!QueueDone
  PROVE  KillsInv'
<1>1. killframes # <<>> /\ Len(killframes) = 1
  BY DEF Kills!QueueDone, Kills!hookqueuelength
<1> QED BY <1>1, ContinueInv DEF Kills!QueueDone

\* Up to here every frame's nick is alive: the outermost frame's nick need not be from now on.
LEMMA OuterDoneInv ==
  ASSUME KillsInv, Kills!OuterDone
  PROVE  KillsInv'
<1>1. /\ UNCHANGED <<alive, pendingkilllist, killframes>> /\ endofqueue' = "kills"
      /\ killframes # <<>>
      /\ \A i \in DOMAIN killframes : ~Kills!InEndOfQueue(i)
  BY DEF Kills!OuterDone, Kills!hookqueuelength, Kills!InEndOfQueue
<1>2. Kills!TypeOK' /\ DepartingAlive' /\ PendingAlive' /\ LostForgotten' /\ OuterSpared' /\ ListEmptied'
  BY <1>1 DEF KillsInv, Kills!TypeOK, DepartingAlive, PendingAlive, LostForgotten, OuterSpared, ListEmptied
<1>3. DepartsAlone' /\ HooksAlive'
  BY <1>1 DEF KillsInv, DepartsAlone, HooksAlive
<1> QED BY <1>2, <1>3 DEF KillsInv

LEMMA clearpendingkillsInv ==
  ASSUME KillsInv, NULL \notin Nicks, Kills!clearpendingkills
  PROVE  KillsInv'
<1> DEFINE k == Head(pendingkilllist)
<1>1. /\ pendingkilllist \in Seq(Kills!Kill) /\ pendingkilllist # <<>>
      /\ killframes \in Seq(Kills!Frame) /\ Len(killframes) = 1 /\ DOMAIN killframes = {1}
            /\ killframes # <<>>
      /\ endofqueue = "kills" /\ UNCHANGED <<alive, endofqueue>>
      /\ pendingkilllist' = Tail(pendingkilllist)
  <2>1. /\ pendingkilllist \in Seq(Kills!Kill) /\ pendingkilllist # <<>>
        /\ killframes \in Seq(Kills!Frame) /\ Len(killframes) = 1
        /\ endofqueue = "kills" /\ UNCHANGED <<alive, endofqueue>>
        /\ pendingkilllist' = Tail(pendingkilllist)
    BY DEF Kills!clearpendingkills, Kills!hookqueuelength, KillsInv, Kills!TypeOK
  <2>2. DOMAIN killframes = 1 .. 1 /\ killframes # <<>>
    <3>1. killframes \in Seq(Kills!Frame) /\ Len(killframes) = 1
      BY <2>1
    <3>2. DOMAIN killframes = 1 .. Len(killframes)
      BY <3>1
    <3>3. killframes # <<>>
      <4>1. 1 \in DOMAIN killframes
        BY <3>1, <3>2
      <4> QED BY <4>1
    <3> QED BY <3>1, <3>2, <3>3
  <2> QED BY <2>1, <2>2
<1>2. /\ pendingkilllist' \in Seq(Kills!Kill) /\ 1 \in DOMAIN pendingkilllist /\ k = pendingkilllist[1]
      /\ \A i \in DOMAIN pendingkilllist' :
           i + 1 \in DOMAIN pendingkilllist /\ pendingkilllist'[i] = pendingkilllist[i + 1]
  BY <1>1, TailFacts
<1>3. CASE k.target # NULL
  <2>1. k.target \in alive /\ k.target \in Nicks
    BY <1>2, <1>3 DEF KillsInv, Kills!TypeOK, PendingAlive
  <2>2. killframes[1].stage # "hook" => killframes[1].np # k.target
    <3>1. killframes[1].stage # "hook" => pendingkilllist[1].target # killframes[1].np
      BY <1>1, <1>2 DEF KillsInv, OuterSpared
    <3> QED BY <1>2, <3>1
  <2>3. \A i \in DOMAIN killframes :
          killframes[i].np = k.target => Kills!InEndOfQueue(i) /\ killframes[i].stage = "hook"
    BY <1>1, <2>2 DEF Kills!InEndOfQueue
  <2>4. Kills!Push(k.target, "quit")
    BY <1>3 DEF Kills!clearpendingkills
  <2>5. k.target \in alive' /\ alive' \subseteq Nicks /\ alive \subseteq alive'
    BY <1>1, <2>1 DEF KillsInv, Kills!TypeOK
  <2> HIDE DEF k
  <2> QED BY <1>1, <1>2, <2>1, <2>3, <2>4, <2>5, PushInv
<1>4. CASE k.target = NULL
  <2>1. UNCHANGED <<alive, killframes, endofqueue>>
    BY <1>1, <1>4 DEF Kills!clearpendingkills
  <2>2. Kills!TypeOK' /\ DepartsAlone' /\ DepartingAlive' /\ HooksAlive'
    BY <1>2, <2>1 DEF KillsInv, Kills!TypeOK, DepartsAlone, DepartingAlive, HooksAlive, Kills!InEndOfQueue
  <2>3. PendingAlive' /\ LostForgotten' /\ OuterSpared' /\ ListEmptied'
    BY <1>1, <1>2, <2>1 DEF KillsInv, PendingAlive, LostForgotten, OuterSpared, ListEmptied
  <2> QED BY <2>2, <2>3 DEF KillsInv
<1> QED BY <1>3, <1>4

LEMMA KillsClearedInv ==
  ASSUME KillsInv, Kills!KillsCleared
  PROVE  KillsInv'
<1>1. /\ UNCHANGED <<alive, pendingkilllist, killframes>>
      /\ pendingkilllist = <<>> /\ endofqueue' = "late" /\ endofqueue = "kills"
      /\ killframes # <<>>
  BY DEF Kills!KillsCleared, Kills!hookqueuelength
<1>2. Kills!TypeOK' /\ DepartingAlive' /\ PendingAlive' /\ LostForgotten' /\ OuterSpared' /\ ListEmptied'
  BY <1>1 DEF KillsInv, Kills!TypeOK, DepartingAlive, PendingAlive, LostForgotten, OuterSpared, ListEmptied
<1>3. DepartsAlone' /\ HooksAlive'
  BY <1>1 DEF KillsInv, DepartsAlone, HooksAlive, Kills!InEndOfQueue
<1> QED BY <1>2, <1>3 DEF KillsInv

-----------------------------------------------------------------------------
LEMMA KillsStart ==
  ASSUME Kills!Init
  PROVE  KillsInv
<1>1. Kills!TypeOK
  BY DEF Kills!Init, Kills!TypeOK
<1> QED BY <1>1 DEF Kills!Init, KillsInv, DepartsAlone, DepartingAlive, HooksAlive, PendingAlive,
                    LostForgotten, OuterSpared, ListEmptied

LEMMA KillsStep ==
  ASSUME KillsInv, [Kills!Next]_Kills!vars, NULL \notin Nicks
  PROVE  KillsInv'
<1>1. ASSUME NEW np \in Nicks, Kills!NewNick(np) \/ Kills!Event(np) \/ Kills!NickGone(np)
      PROVE  KillsInv'
  BY <1>1, NewNickInv, EventInv, NickGoneInv
<1>2. ASSUME NEW source \in alive \cup {NULL}, NEW target \in Nicks, Kills!killuser(source, target)
      PROVE  KillsInv'
  BY <1>2, killuserInv
<1>3. ASSUME NEW np \in Nicks, NEW stage \in {"quit", "pre"}, Kills!DeleteAtOnce(np, stage)
      PROVE  KillsInv'
  BY <1>3, DeleteAtOnceInv
<1>4. CASE Kills!InnerDone \/ Kills!OuterDone \/ Kills!clearpendingkills \/ Kills!KillsCleared
        \/ Kills!QueueDone
  BY <1>4, InnerDoneInv, OuterDoneInv, clearpendingkillsInv, KillsClearedInv, QueueDoneInv
<1>5. CASE UNCHANGED Kills!vars
  BY <1>5 DEF Kills!vars, KillsInv, Kills!TypeOK, DepartsAlone, DepartingAlive, HooksAlive, PendingAlive,
              LostForgotten, OuterSpared, ListEmptied, Kills!InEndOfQueue
<1> QED BY <1>1, <1>2, <1>3, <1>4, <1>5 DEF Kills!Next

LEMMA KillsImply ==
  ASSUME KillsInv
  PROVE  NicksAlive
<1>1. /\ killframes \in Seq(Kills!Frame) /\ DOMAIN killframes = 1 .. Len(killframes)
           /\ Len(killframes) \in Nat
      /\ pendingkilllist \in Seq(Kills!Kill)
  BY DEF KillsInv, Kills!TypeOK
<1>2. Kills!Departing \subseteq alive
  BY DEF KillsInv, DepartingAlive, Kills!Departing
<1>3. \A i, j \in DOMAIN killframes :
        killframes[i].np = killframes[j].np /\ killframes[i].stage # "hook"
              /\ killframes[j].stage # "hook" => i = j
  <2> SUFFICES ASSUME NEW i \in DOMAIN killframes, NEW j \in DOMAIN killframes,
      killframes[i].np = killframes[j].np,
                      killframes[i].stage # "hook", killframes[j].stage # "hook", i # j
               PROVE  FALSE
    OBVIOUS
  <2>1. i < j \/ j < i
    BY <1>1
  <2> QED BY <2>1 DEF KillsInv, DepartsAlone
<1>4. \A kill \in Kills!ToSet(pendingkilllist) : {kill.source, kill.target} \subseteq alive \cup {NULL}
  BY DEF KillsInv, PendingAlive, Kills!ToSet
<1> QED BY <1>2, <1>3, <1>4 DEF KillsInv, HooksAlive, ListEmptied, NicksAlive, Kills!NicksAlive

\* killuser(), clearpendingkills(), checkpendingkills(), deletenick(): whatever callbacks kill in hooks
\* nested to any depth, the nick of a hook that runs has not been freed, none is freed twice, a kill
\* that waits names nobody who is gone, and none is left over.
THEOREM NickOfHookAlive ==
  ASSUME NULL \notin Nicks
  PROVE  Kills!Spec => []NicksAlive
<1>1. Kills!Init => KillsInv
  BY KillsStart
<1>2. KillsInv /\ [Kills!Next]_Kills!vars => KillsInv'
  BY KillsStep
<1>3. KillsInv => NicksAlive
  BY KillsImply
<1> QED BY <1>1, <1>2, <1>3, PTL DEF Kills!Spec
=============================================================================
