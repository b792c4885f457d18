---------------------------- MODULE QueriesProofs ---------------------------
(***************************************************************************)
(* Proofs about PqQueue and SqliteQueue as MCLinks instantiates them: both *)
(* implement Queries, for any queries and modules, if queries carry the    *)
(* identifier of the module their callback is in.                          *)
(***************************************************************************)
EXTENDS MCLinks, FiniteSets, Functions, FiniteSetTheorems, WellFoundedInduction, TLAPS

(* pqsql.c. *)

\* q is behind p in the list s.
Behind(s, p, q) == Pq!Place(s, p) < Pq!Place(s, q)

\* A list of different queries.
IsList(s) == s \in Seq(Query) /\ IsInjective(s)

\* t has the elements of s that are in S, in their order.
IsOnly(t, s, S) ==
  /\ IsList(t)
  /\ Pq!ToSet(t) = Pq!ToSet(s) \cap S
  /\ \A p, q \in Pq!ToSet(t) : Behind(t, p, q) => Behind(s, p, q)

\* t is s without the element at place i.
IsCut(t, s, i) ==
  /\ t \in Seq(Query) /\ Len(t) = Len(s) - 1
  /\ \A j \in 1 .. i - 1 : t[j] = s[j]
  /\ \A j \in i .. Len(s) - 1 : t[j] = s[j + 1]

\* The frames of dbhandler() and of pqfreeid().
Handling(p) == [f |-> "dbhandler", q |-> p, m |-> NULL]
Freed(q, m) == [f |-> "freeid", q |-> q, m |-> m]

\* dbhandler() is in the callback of the head.
Handled(p) == queue # <<>> /\ queue[1] = p /\ identifier[p] \in Modules /\ calls[p] # <<>>

\* pqfreeid(m) is in the callback of q, and has left none of m's queries before it.
Firing(q, m) ==
  /\ q \in Pq!ToSet(queue) /\ calls[q] # <<>>
  /\ m \in Modules \ gone /\ identifier[q] = m
  /\ \A j \in 1 .. Pq!Place(queue, q) - 1 : identifier[queue[j]] # m

\* Queries in the list that were called are marked, but for those in A.
Marked(A) == \A q \in Pq!ToSet(queue) \ A : calls[q] # <<>> => identifier[q] = FIRED

StackOK ==
  \/ stack = <<>> /\ Marked({})
  \/ \E p \in Query : stack = <<Handling(p)>> /\ Handled(p) /\ Marked({p})
  \/ \E q \in Query, m \in Modules : stack = <<Freed(q, m)>> /\ Firing(q, m) /\ Marked({q})
  \/ \E p, q \in Query, m \in Modules :
       stack = <<Freed(q, m), Handling(p)>> /\ Handled(p) /\ Firing(q, m) /\ identifier[p] # m /\ Marked({p,
           q})

Typed ==
  /\ IsList(queue)
  /\ owner \in [Query -> Modules \cup {NULL, NOBODY}]
  /\ identifier \in [Query -> Modules \cup {ANON, FIRED}]
  /\ calls \in [Query -> Seq(Query \cup {NULL})]
  /\ gone \subseteq Modules

\* querytail and the server agree with the list.
EndsOK ==
  /\ queue = <<>> => querytail = NULL /\ sent = NULL
  /\ queue # <<>> => querytail = Pq!Last(queue) /\ sent = queue[1]

Fresh == \A q \in Query : owner[q] = NULL => q \notin Pq!ToSet(queue) /\ calls[q] = <<>>

\* The identifiers in the list tell whose callback is called, and it is in no module that is gone.
KindsOK ==
  \A q \in Pq!ToSet(queue) :
    /\ identifier[q] \notin gone
    /\ \/ owner[q] \in Modules /\ identifier[q] = owner[q]
       \/ owner[q] \in Modules /\ identifier[q] = FIRED /\ calls[q] # <<>>
       \/ owner[q] = NOBODY /\ identifier[q] = ANON

WaitingOK == IsOnly(Pq!Waiting, queue, Pq!Uncalled)

QueueInv == Typed /\ EndsOK /\ Fresh /\ KindsOK /\ StackOK /\ WaitingOK

-----------------------------------------------------------------------------
(* Lists, and the places of their elements. *)

\* A function on 1 .. m is a sequence.
LEMMA SeqFacts ==
  ASSUME NEW S, NEW m \in Nat, NEW t, t = [i \in 1 .. m |-> t[i]], \A i \in 1 .. m : t[i] \in S
  PROVE  t \in Seq(S) /\ Len(t) = m
  OBVIOUS

\* The empty list.
LEMMA EmptyFacts ==
  ASSUME NEW S
  PROVE  <<>> \in Seq(S) /\ DOMAIN <<>> = {}
  OBVIOUS

\* What \o does.
LEMMA ConcatFacts ==
  ASSUME NEW S, NEW s \in Seq(S), NEW t \in Seq(S)
  PROVE  /\ s \o t \in Seq(S) /\ Len(s \o t) = Len(s) + Len(t)
         /\ \A j \in 1 .. Len(s) : (s \o t)[j] = s[j]
         /\ \A j \in 1 .. Len(t) : (s \o t)[Len(s) + j] = t[j]
  OBVIOUS

\* One frame, and one above another.
LEMMA FrameFacts ==
  ASSUME NEW x, NEW y
  PROVE  /\ <<x>> \o <<>> = <<x>> /\ <<x>> \o <<y>> = <<x, y>>
         /\ Head(<<x>>) = x /\ Tail(<<x>>) = <<>>
         /\ Head(<<x, y>>) = x /\ Tail(<<x, y>>) = <<y>>
<1>1. <<x>> \in Seq({x, y}) /\ <<y>> \in Seq({x, y}) /\ <<x, y>> \in Seq({x, y}) /\ <<>> \in Seq({x, y})
  OBVIOUS
<1>2. <<x>> \o <<>> = <<x>>
  OBVIOUS
<1>3. <<x>> \o <<y>> = <<x, y>>
  <2> DEFINE a == <<x>>
             b == <<y>>
  <2>1. a \in Seq({x, y}) /\ b \in Seq({x, y})
    BY <1>1
  <2>2. Len(a) = 1 /\ Len(b) = 1 /\ a[1] = x /\ b[1] = y
    OBVIOUS
  <2> HIDE DEF a, b
  <2>3. 1 \in 1 .. Len(a) /\ 1 \in 1 .. Len(b)
    BY <2>2
  <2> DEFINE S == {x, y}
  <2> HIDE DEF S
  <2>4. /\ a \o b \in Seq(S) /\ Len(a \o b) = Len(a) + Len(b)
        /\ \A j \in 1 .. Len(a) : (a \o b)[j] = a[j]
        /\ \A j \in 1 .. Len(b) : (a \o b)[Len(a) + j] = b[j]
    <3>1. a \in Seq(S) /\ b \in Seq(S)
      BY <2>1 DEF S
    <3> QED BY <3>1, ConcatFacts
  <2>5. Len(a \o b) = 2 /\ (a \o b)[1] = x /\ (a \o b)[2] = y
    BY <2>2, <2>3, <2>4
  <2> DEFINE z == a \o b
  <2>6. z \in Seq(S) /\ Len(z) = 2 /\ z[1] = x /\ z[2] = y
    BY <2>4, <2>5
  <2> HIDE DEF z
  <2>7. z = <<x, y>>
    BY <2>6
  <2> QED BY <2>7 DEF a, b, z
<1>4. Head(<<x>>) = x /\ Tail(<<x>>) = <<>> /\ Head(<<x, y>>) = x
  OBVIOUS
<1>5. Tail(<<x, y>>) = <<y>>
  OBVIOUS
<1> QED BY <1>2, <1>3, <1>4, <1>5

\* What Append does.
LEMMA AppendFacts ==
  ASSUME NEW S, NEW s \in Seq(S), NEW x \in S
  PROVE  /\ Append(s, x) \in Seq(S)
         /\ Len(Append(s, x)) = Len(s) + 1
         /\ DOMAIN Append(s, x) = 1 .. Len(s) + 1
         /\ \A i \in 1 .. Len(s) : Append(s, x)[i] = s[i]
         /\ Append(s, x)[Len(s) + 1] = x
  OBVIOUS

\* In a list without repetition each element has one place.
LEMMA PlaceFacts ==
  ASSUME NEW s, IsList(s)
  PROVE  /\ DOMAIN s = 1 .. Len(s) /\ Len(s) \in Nat
         /\ \A q \in Pq!ToSet(s) : Pq!Place(s, q) \in 1 .. Len(s) /\ s[Pq!Place(s, q)] = q
         /\ \A i \in 1 .. Len(s) : s[i] \in Pq!ToSet(s) /\ s[i] \in Query /\ Pq!Place(s, s[i]) = i
         /\ Pq!ToSet(s) \subseteq Query
<1>1. DOMAIN s = 1 .. Len(s) /\ Len(s) \in Nat /\ \A i \in 1 .. Len(s) : s[i] \in Query
  BY DEF IsList
<1>2. \A q \in Pq!ToSet(s) : \E i \in DOMAIN s : s[i] = q
  BY DEF Pq!ToSet
<1>3. \A q \in Pq!ToSet(s) : Pq!Place(s, q) \in DOMAIN s /\ s[Pq!Place(s, q)] = q
  BY <1>2 DEF Pq!Place
<1>4. \A i \in DOMAIN s : s[i] \in Pq!ToSet(s)
  BY DEF Pq!ToSet
<1>5. \A i \in DOMAIN s : Pq!Place(s, s[i]) = i
  BY <1>3, <1>4 DEF IsInjective, IsList
<1> QED BY <1>1, <1>2, <1>3, <1>4, <1>5

\* A list that is not empty has a first and a last element.
LEMMA EndsFacts ==
  ASSUME NEW s, IsList(s), s # <<>>
  PROVE  /\ Len(s) \in Nat \ {0}
         /\ Head(s) = s[1] /\ s[1] \in Pq!ToSet(s) /\ Pq!Place(s, s[1]) = 1
         /\ Pq!Last(s) = s[Len(s)] /\ s[Len(s)] \in Pq!ToSet(s) /\ Pq!Place(s, s[Len(s)]) = Len(s)
<1>1. s \in Seq(Query)
  BY DEF IsList
<1>2. Len(s) \in Nat \ {0}
  BY <1>1
<1>3. 1 \in 1 .. Len(s) /\ Len(s) \in 1 .. Len(s)
  BY <1>2
<1>4. Head(s) = s[1]
  BY <1>1
<1>5. Pq!Last(s) = s[Len(s)]
  BY DEF Pq!Last
<1> QED BY <1>2, <1>3, <1>4, <1>5, PlaceFacts

\* RemoveAt() and Tail() cut one element.
LEMMA RemoveAtCuts ==
  ASSUME NEW s \in Seq(Query), NEW i \in 1 .. Len(s)
  PROVE  IsCut(Pq!RemoveAt(s, i), s, i)
<1> DEFINE a == SubSeq(s, 1, i - 1)
           b == SubSeq(s, i + 1, Len(s))
           n == Len(s)
<1>1. n \in Nat /\ i \in Nat /\ 1 <= i /\ i <= n
  OBVIOUS
<1>2. a \in Seq(Query) /\ Len(a) = i - 1 /\ \A j \in 1 .. i - 1 : a[j] = s[j]
  BY <1>1
<1>3. b \in Seq(Query) /\ Len(b) = n - i /\ \A j \in 1 .. n - i : b[j] = s[i + j]
  BY <1>1
<1>4. Pq!RemoveAt(s, i) = a \o b
  BY DEF Pq!RemoveAt
<1> HIDE DEF a, b, n
<1>5. /\ a \o b \in Seq(Query) /\ Len(a \o b) = Len(a) + Len(b)
      /\ \A j \in 1 .. Len(a) : (a \o b)[j] = a[j]
      /\ \A j \in 1 .. Len(b) : (a \o b)[Len(a) + j] = b[j]
  <2>1. a \in Seq(Query) /\ b \in Seq(Query)
    BY <1>2, <1>3
  <2> QED BY <2>1, ConcatFacts
<1>6. Len(a \o b) = n - 1
  BY <1>1, <1>2, <1>3, <1>5
<1>7. \A j \in 1 .. i - 1 : (a \o b)[j] = s[j]
  BY <1>2, <1>5
<1>8. ASSUME NEW j \in i .. n - 1
      PROVE  (a \o b)[j] = s[j + 1]
  <2>1. j - (i - 1) \in 1 .. n - i /\ (i - 1) + (j - (i - 1)) = j /\ i + (j - (i - 1)) = j + 1
    BY <1>1
  <2>2. (a \o b)[(i - 1) + (j - (i - 1))] = b[j - (i - 1)]
    BY <1>2, <1>3, <1>5, <2>1
  <2>3. b[j - (i - 1)] = s[i + (j - (i - 1))]
    BY <1>3, <2>1
  <2> QED BY <2>1, <2>2, <2>3
<1> QED BY <1>4, <1>5, <1>6, <1>7, <1>8 DEF IsCut, n

LEMMA TailCuts ==
  ASSUME NEW s \in Seq(Query), s # <<>>
  PROVE  IsCut(Tail(s), s, 1)
<1>1. Len(s) \in Nat \ {0}
  OBVIOUS
<1>2. Tail(s) \in Seq(Query) /\ Len(Tail(s)) = Len(s) - 1
  OBVIOUS
<1>3. \A j \in 1 .. Len(s) - 1 : Tail(s)[j] = s[j + 1]
  BY <1>1
<1>4. ~ \E j \in Int : j \in 1 .. 1 - 1
  OBVIOUS
<1> QED BY <1>2, <1>3, <1>4 DEF IsCut

\* A list without one of its elements.
LEMMA CutPlaces ==
  ASSUME NEW s, IsList(s), NEW i \in 1 .. Len(s), NEW t, IsCut(t, s, i)
  PROVE  /\ IsList(t) /\ Pq!ToSet(t) = Pq!ToSet(s) \ {s[i]}
         /\ \A q \in Pq!ToSet(t) : Pq!Place(t, q) = IF Pq!Place(s, q) < i THEN Pq!Place(s, q)
               ELSE Pq!Place(s, q) - 1
         /\ \A p, q \in Pq!ToSet(t) : Behind(t, p, q) <=> Behind(s, p, q)
<1> DEFINE n == Len(s)
<1>1. /\ DOMAIN s = 1 .. n /\ n \in Nat \ {0} /\ i \in 1 .. n
      /\ \A q \in Pq!ToSet(s) : Pq!Place(s, q) \in 1 .. n /\ s[Pq!Place(s, q)] = q
      /\ \A j \in 1 .. n : s[j] \in Pq!ToSet(s) /\ Pq!Place(s, s[j]) = j
  BY PlaceFacts
<1>2. /\ t \in Seq(Query) /\ Len(t) = n - 1
      /\ \A j \in 1 .. i - 1 : t[j] = s[j]
      /\ \A j \in i .. n - 1 : t[j] = s[j + 1]
  BY DEF IsCut
<1>3. DOMAIN t = 1 .. n - 1
  BY <1>2
<1> HIDE DEF n
<1> DEFINE Old(j) == IF j < i THEN j ELSE j + 1
           New(j) == IF j < i THEN j ELSE j - 1
<1>4. \A j \in 1 .. n - 1 : Old(j) \in 1 .. n /\ Old(j) # i /\ t[j] = s[Old(j)]
  <2>1. ASSUME NEW j \in 1 .. n - 1, j < i
        PROVE  j \in 1 .. n /\ t[j] = s[j]
    <3>1. j \in 1 .. i - 1 /\ j \in 1 .. n
      BY <1>1, <2>1
    <3> QED BY <1>2, <3>1
  <2>2. ASSUME NEW j \in 1 .. n - 1, ~(j < i)
        PROVE  j + 1 \in 1 .. n /\ j + 1 # i /\ t[j] = s[j + 1]
    <3>1. j \in i .. n - 1 /\ j + 1 \in 1 .. n /\ j + 1 # i
      BY <1>1, <2>2
    <3> QED BY <1>2, <3>1
  <2> QED BY <1>1, <2>1, <2>2
<1>5. \A j \in 1 .. n : j # i => New(j) \in 1 .. n - 1 /\ Old(New(j)) = j
  BY <1>1
<1>6. \A j, k \in 1 .. n - 1 : (j < k <=> Old(j) < Old(k)) /\ (Old(j) = Old(k) => j = k)
  BY <1>1
<1>7. \A j \in 1 .. n - 1 : New(Old(j)) = j
  BY <1>1
<1> HIDE DEF Old
<1>8. IsList(t)
  <2>1. ASSUME NEW j \in 1 .. n - 1, NEW k \in 1 .. n - 1, t[j] = t[k]
        PROVE  j = k
    <3>1. s[Old(j)] = s[Old(k)] /\ Old(j) \in 1 .. n /\ Old(k) \in 1 .. n
      BY <1>4, <2>1
    <3>2. Old(j) = Old(k)
      BY <1>1, <3>1
    <3> QED BY <1>6, <3>2
  <2> QED BY <1>2, <1>3, <2>1 DEF IsList, IsInjective
<1>9. /\ \A q \in Pq!ToSet(t) : Pq!Place(t, q) \in 1 .. n - 1 /\ t[Pq!Place(t, q)] = q
      /\ \A j \in 1 .. n - 1 : t[j] \in Pq!ToSet(t) /\ Pq!Place(t, t[j]) = j
  BY <1>2, <1>8, PlaceFacts
<1>10. \A q \in Pq!ToSet(t) : q \in Pq!ToSet(s) /\ q # s[i] /\ Pq!Place(s, q) = Old(Pq!Place(t, q))
  BY <1>1, <1>4, <1>9
<1>11. \A q \in Pq!ToSet(s) : q # s[i] => q \in Pq!ToSet(t)
  <2>1. ASSUME NEW q \in Pq!ToSet(s), q # s[i]
        PROVE  q \in Pq!ToSet(t)
    <3>1. Pq!Place(s, q) \in 1 .. n /\ Pq!Place(s, q) # i /\ s[Pq!Place(s, q)] = q
      BY <1>1, <2>1
    <3>2. New(Pq!Place(s, q)) \in 1 .. n - 1 /\ Old(New(Pq!Place(s, q))) = Pq!Place(s, q)
      BY <1>5, <3>1
    <3> HIDE DEF New
    <3>3. t[New(Pq!Place(s, q))] = q
      BY <1>4, <3>1, <3>2
    <3> QED BY <1>9, <3>2, <3>3
  <2> QED BY <2>1
<1>12. \A q \in Pq!ToSet(t) : Pq!Place(t, q) = New(Pq!Place(s, q))
  <2> HIDE DEF New
  <2> QED BY <1>7, <1>9, <1>10
<1>13. \A p, q \in Pq!ToSet(t) : Behind(t, p, q) <=> Behind(s, p, q)
  BY <1>6, <1>9, <1>10 DEF Behind
<1> QED BY <1>8, <1>10, <1>11, <1>12, <1>13

\* A list with one more element.
LEMMA AppendPlaces ==
  ASSUME NEW s, IsList(s), NEW q \in Query, q \notin Pq!ToSet(s)
  PROVE  /\ IsList(Append(s, q)) /\ Pq!ToSet(Append(s, q)) = Pq!ToSet(s) \cup {q}
         /\ Pq!Place(Append(s, q), q) = Len(s) + 1
         /\ \A p \in Pq!ToSet(s) : Pq!Place(Append(s, q), p) = Pq!Place(s, p)
         /\ Append(s, q) # <<>> /\ Pq!Last(Append(s, q)) = q
<1> DEFINE n == Len(s)
           t == Append(s, q)
<1>1. /\ DOMAIN s = 1 .. n /\ n \in Nat
      /\ \A p \in Pq!ToSet(s) : Pq!Place(s, p) \in 1 .. n /\ s[Pq!Place(s, p)] = p
      /\ \A j \in 1 .. n : s[j] \in Pq!ToSet(s) /\ Pq!Place(s, s[j]) = j
  BY PlaceFacts
<1>2. /\ t \in Seq(Query) /\ Len(t) = n + 1 /\ DOMAIN t = 1 .. n + 1
      /\ \A i \in 1 .. n : t[i] = s[i]
      /\ t[n + 1] = q
  <2>1. s \in Seq(Query)
    BY DEF IsList
  <2> QED BY <2>1, AppendFacts
<1> HIDE DEF n, t
<1>3. \A i \in 1 .. n + 1 : i \in 1 .. n \/ i = n + 1
  BY <1>1
<1>4. \A i \in 1 .. n : i \in 1 .. n + 1
  BY <1>1
<1>5. n + 1 \in 1 .. n + 1
  BY <1>1
<1>6. IsList(t)
  BY <1>1, <1>2, <1>3 DEF IsList, IsInjective
<1>7. Pq!ToSet(t) = Pq!ToSet(s) \cup {q}
  BY <1>1, <1>2, <1>3, <1>4, <1>5 DEF Pq!ToSet
<1>8. \A i \in 1 .. n + 1 : Pq!Place(t, t[i]) = i
  BY <1>2, <1>6, PlaceFacts
<1>9. Pq!Place(t, q) = n + 1 /\ \A p \in Pq!ToSet(s) : Pq!Place(t, p) = Pq!Place(s, p)
  BY <1>1, <1>2, <1>4, <1>5, <1>8
<1>10. t # <<>> /\ Pq!Last(t) = q
  <2>1. t # <<>>
    BY <1>2, <1>5
  <2> QED BY <1>2, <2>1 DEF Pq!Last
<1> QED BY <1>6, <1>7, <1>9, <1>10 DEF n, t

\* A set of numbers that is not empty has a least one.
LEMMA LeastNat ==
  ASSUME NEW T, T \subseteq Nat, T # {}
  PROVE  \E x \in T : \A y \in T : x <= y
<1> DEFINE R == OpToRel(<, Nat)
<1>1. IsWellFoundedOn(R, Nat)
  BY NatLessThanWellFounded
<1>2. \A x, y \in Nat : x < y => <<x, y>> \in R
  BY DEF OpToRel
<1> HIDE DEF R
<1>3. \E x \in T : \A y \in T : ~ (<<y, x>> \in R)
  BY <1>1, WFMin
<1>4. \A x, y \in Nat : ~(y < x) => x <= y
  OBVIOUS
<1> QED BY <1>2, <1>3, <1>4

\* How many numbers there are up to m.
LEMMA UpTo ==
  ASSUME NEW m \in Nat
  PROVE  IsFiniteSet(1 .. m) /\ Cardinality(1 .. m) = m
<1>1. 1 \in Int /\ m \in Int
  OBVIOUS
<1>2. IsFiniteSet(1 .. m) /\ Cardinality(1 .. m) = IF 1 > m THEN 0 ELSE m - 1 + 1
  BY <1>1, FS_Interval
<1> QED BY <1>2

\* A function from 1 .. m that takes each value of B once counts B.
LEMMA Counting ==
  ASSUME NEW m \in Nat, NEW B, NEW f \in [1 .. m -> B],
         \A i, j \in 1 .. m : f[i] = f[j] => i = j,
         \A b \in B : \E i \in 1 .. m : f[i] = b
  PROVE  IsFiniteSet(B) /\ Cardinality(B) = m
<1>1. f \in Injection(1 .. m, B)
  <2>1. DOMAIN f = 1 .. m
    OBVIOUS
  <2> QED BY <2>1 DEF Injection, IsInjective
<1>2. f \in Surjection(1 .. m, B)
  BY DEF Surjection
<1>3. ExistsBijection(1 .. m, B)
  BY <1>1, <1>2 DEF ExistsBijection, Bijection
<1> QED BY <1>3, UpTo, FS_Bijection

\* PqQueue counts as this module does.
LEMMA SameCardinality == \A S : Pq!Cardinality(S) = Cardinality(S)
  BY DEF Pq!Cardinality, Cardinality

\* Only(s, S) is the one list with the elements of s that are in S, in their order.
LEMMA OnlyIs ==
  ASSUME NEW s, IsList(s), NEW S, NEW t, IsOnly(t, s, S)
  PROVE  Pq!Only(s, S) = t
<1> DEFINE n == Len(t)
           P == Pq!PlacesOf(s, S)
<1>1. /\ DOMAIN s = 1 .. Len(s) /\ Len(s) \in Nat
      /\ \A q \in Pq!ToSet(s) : Pq!Place(s, q) \in 1 .. Len(s) /\ s[Pq!Place(s, q)] = q
      /\ \A j \in 1 .. Len(s) : s[j] \in Pq!ToSet(s) /\ Pq!Place(s, s[j]) = j
  BY PlaceFacts
<1>2. IsList(t) /\ Pq!ToSet(t) = Pq!ToSet(s) \cap S /\ \A p, q \in Pq!ToSet(t) : Behind(t, p, q) => Behind(s,
      p, q)
  BY DEF IsOnly
<1>3. /\ DOMAIN t = 1 .. n /\ n \in Nat
      /\ \A q \in Pq!ToSet(t) : Pq!Place(t, q) \in 1 .. n /\ t[Pq!Place(t, q)] = q
      /\ \A j \in 1 .. n : t[j] \in Pq!ToSet(t) /\ Pq!Place(t, t[j]) = j
  BY <1>2, PlaceFacts
<1> HIDE DEF n
<1>4. P \subseteq Nat /\ P \subseteq 1 .. Len(s) /\ \A i \in P : s[i] \in Pq!ToSet(t)
  BY <1>1, <1>2 DEF Pq!PlacesOf
<1>5. \A q \in Pq!ToSet(t) : Pq!Place(s, q) \in P /\ s[Pq!Place(s, q)] = q
  BY <1>1, <1>2 DEF Pq!PlacesOf
<1>6. \A i \in P : Pq!Place(s, s[i]) = i
  BY <1>1, <1>4
<1> HIDE DEF P
<1> DEFINE f == [k \in 1 .. n |-> Pq!Place(s, t[k])]
<1>7. \A k \in 1 .. n : f[k] = Pq!Place(s, t[k]) /\ f[k] \in P /\ s[f[k]] = t[k] /\ f[k] \in Nat
  BY <1>3, <1>4, <1>5
<1>8. f \in [1 .. n -> P]
  BY <1>3, <1>5
<1> HIDE DEF f
<1>9. \A j, k \in 1 .. n : j < k => f[j] < f[k]
  BY <1>2, <1>3, <1>7 DEF Behind
<1>10. \A j, k \in 1 .. n : f[j] = f[k] => j = k
  BY <1>3, <1>7
<1>11. \A i \in P : \E k \in 1 .. n : f[k] = i
  BY <1>3, <1>4, <1>6, <1>7
<1>12. IsFiniteSet(P) /\ Cardinality(P) = n
  BY <1>3, <1>8, <1>10, <1>11, Counting
<1>13. \A j, k \in 1 .. n : f[j] <= f[k] <=> j <= k
  <2> SUFFICES ASSUME NEW j \in 1 .. n, NEW k \in 1 .. n
               PROVE  f[j] <= f[k] <=> j <= k
    OBVIOUS
  <2>1. f[j] \in Nat /\ f[k] \in Nat /\ j \in Nat /\ k \in Nat
    BY <1>3, <1>7
  <2>2. CASE j < k
    BY <1>9, <2>1, <2>2
  <2>3. CASE j = k
    BY <2>1, <2>3
  <2>4. CASE k < j
    <3>1. f[k] < f[j]
      BY <1>9, <2>4
    <3> QED BY <2>1, <2>4, <3>1
  <2> QED BY <2>1, <2>2, <2>3, <2>4
<1>14. \A k \in 1 .. n : Pq!Rank(P, f[k]) = k
  <2> SUFFICES ASSUME NEW k \in 1 .. n
               PROVE  Pq!Rank(P, f[k]) = k
    OBVIOUS
  <2> DEFINE B == {j \in P : j <= f[k]}
             g == [i \in 1 .. k |-> f[i]]
  <2>1. \A i \in 1 .. k : i \in 1 .. n /\ i <= k
    BY <1>3
  <2>2. \A i \in 1 .. n : i <= k => i \in 1 .. k
    OBVIOUS
  <2>3. g \in [1 .. k -> B]
    BY <1>7, <1>13, <2>1
  <2>4. \A i, j \in 1 .. k : g[i] = g[j] => i = j
    BY <1>10, <2>1
  <2>5. \A b \in B : \E i \in 1 .. k : g[i] = b
    BY <1>11, <1>13, <2>2
  <2>6. k \in Nat
    BY <1>3
  <2> HIDE DEF g, B
  <2>7. Cardinality(B) = k
    BY <2>3, <2>4, <2>5, <2>6, Counting
  <2> QED BY <2>7, SameCardinality DEF Pq!Rank, B
<1>15. \A k \in 1 .. n : (CHOOSE i \in P : Pq!Rank(P, i) = k) = f[k]
  BY <1>7, <1>11, <1>14
<1>16. Pq!Only(s, S) = [k \in 1 .. n |-> s[CHOOSE i \in P : Pq!Rank(P, i) = k]]
  BY <1>12, SameCardinality DEF Pq!Only, P
<1>17. Pq!Only(s, S) = [k \in 1 .. n |-> t[k]]
  BY <1>7, <1>15, <1>16
<1>18. t = [k \in 1 .. n |-> t[k]]
  <2>1. t \in Seq(Query)
    BY <1>2 DEF IsList
  <2> QED BY <1>3, <2>1
<1> QED BY <1>17, <1>18

\* The list of those in S when one of them leaves S.
LEMMA OnlyLess ==
  ASSUME NEW s, NEW S, NEW w, IsOnly(w, s, S), NEW i \in 1 .. Len(w), NEW t, IsCut(t, w, i)
  PROVE  IsOnly(t, s, S \ {w[i]})
<1>1. IsList(w) /\ Pq!ToSet(w) = Pq!ToSet(s) \cap S /\ \A p, q \in Pq!ToSet(w) : Behind(w, p, q) => Behind(s,
      p, q)
  BY DEF IsOnly
<1>2. /\ IsList(t) /\ Pq!ToSet(t) = Pq!ToSet(w) \ {w[i]}
      /\ \A p, q \in Pq!ToSet(t) : Behind(t, p, q) <=> Behind(w, p, q)
  BY <1>1, CutPlaces
<1> QED BY <1>1, <1>2 DEF IsOnly

\* The list of those in S does not change when another leaves the list, and none of those in S.
LEMMA OnlySame ==
  ASSUME NEW s, IsList(s), NEW S, NEW w, IsOnly(w, s, S),
         NEW i \in 1 .. Len(s), s[i] \notin S, NEW t, IsCut(t, s, i)
  PROVE  IsOnly(w, t, S)
<1>1. IsList(w) /\ Pq!ToSet(w) = Pq!ToSet(s) \cap S /\ \A p, q \in Pq!ToSet(w) : Behind(w, p, q) => Behind(s,
      p, q)
  BY DEF IsOnly
<1>2. Pq!ToSet(t) = Pq!ToSet(s) \ {s[i]} /\ \A p, q \in Pq!ToSet(t) : Behind(t, p, q) <=> Behind(s, p, q)
  BY CutPlaces
<1>3. Pq!ToSet(w) = Pq!ToSet(t) \cap S
  BY <1>1, <1>2
<1> QED BY <1>1, <1>2, <1>3 DEF IsOnly

\* The first of all is the first of those in S.
LEMMA OnlyFirst ==
  ASSUME NEW s, IsList(s), s # <<>>, NEW S, NEW w, IsOnly(w, s, S), s[1] \in S
  PROVE  w # <<>> /\ w[1] = s[1]
<1>1. IsList(w) /\ Pq!ToSet(w) = Pq!ToSet(s) \cap S /\ \A p, q \in Pq!ToSet(w) : Behind(w, p, q) => Behind(s,
      p, q)
  BY DEF IsOnly
<1> DEFINE q == s[1]
<1>2. q \in Pq!ToSet(s) /\ Pq!Place(s, q) = 1
  BY EndsFacts
<1>3. \A p \in Pq!ToSet(s) : Pq!Place(s, p) \in 1 .. Len(s) /\ s[Pq!Place(s, p)] = p
  BY PlaceFacts
<1>4. q \in Pq!ToSet(w)
  BY <1>1, <1>2
<1> HIDE DEF q
<1>5. /\ Len(w) \in Nat /\ DOMAIN w = 1 .. Len(w)
      /\ Pq!Place(w, q) \in 1 .. Len(w) /\ w[Pq!Place(w, q)] = q
      /\ \A i \in 1 .. Len(w) : w[i] \in Pq!ToSet(w) /\ Pq!Place(w, w[i]) = i
  BY <1>1, <1>4, PlaceFacts
<1>6. 1 \in 1 .. Len(w)
  BY <1>5
<1>7. w # <<>>
  <2>1. DOMAIN w # {}
    BY <1>5, <1>6
  <2> QED BY <2>1
<1>8. Pq!Place(w, q) = 1
  <2>1. CASE 1 < Pq!Place(w, q)
    <3>1. w[1] \in Pq!ToSet(w) /\ Pq!Place(w, w[1]) = 1
      BY <1>5, <1>6
    <3>2. Behind(w, w[1], q)
      BY <2>1, <3>1 DEF Behind
    <3>3. Pq!Place(s, w[1]) < 1 /\ Pq!Place(s, w[1]) \in 1 .. Len(s)
      BY <1>1, <1>2, <1>3, <1>4, <3>1, <3>2 DEF Behind
    <3> QED BY <3>3
  <2> QED BY <1>5, <2>1
<1> QED BY <1>5, <1>7, <1>8 DEF q

-----------------------------------------------------------------------------
(* The steps. *)

\* One element at place i of the list is called, and the rest wait on.
LEMMA CallOne ==
  ASSUME QueueInv, NEW q \in Pq!ToSet(queue), calls[q] = <<>>, NEW x \in Query \cup {NULL},
         calls' = [calls EXCEPT ![q] = Append(@, x)]
  PROVE  /\ calls' \in [Query -> Seq(Query \cup {NULL})] /\ calls'[q] # <<>>
         /\ \A p \in Query : p # q => calls'[p] = calls[p]
         /\ q \in Pq!ToSet(Pq!Waiting) /\ Pq!Uncalled' = Pq!Uncalled \ {q}
<1>1. /\ IsList(queue) /\ calls \in [Query -> Seq(Query \cup {NULL})] /\ IsOnly(Pq!Waiting, queue,
         Pq!Uncalled)
  BY DEF QueueInv, Typed, WaitingOK
<1>2. q \in Query
  BY <1>1, PlaceFacts
<1>3. Append(<<>>, x) \in Seq(Query \cup {NULL}) /\ Append(<<>>, x) # <<>>
  <2>1. Append(<<>>, x) \in Seq(Query \cup {NULL}) /\ Append(<<>>, x)[1] = x /\ Len(Append(<<>>, x)) = 1
    OBVIOUS
  <2> QED BY <2>1
<1>4. /\ calls' \in [Query -> Seq(Query \cup {NULL})] /\ calls'[q] = Append(<<>>, x)
      /\ \A p \in Query : p # q => calls'[p] = calls[p]
  BY <1>1, <1>2, <1>3
<1>5. q \in Pq!ToSet(Pq!Waiting)
  BY <1>1, <1>2 DEF IsOnly, Pq!Uncalled
<1>6. Pq!Uncalled' = Pq!Uncalled \ {q}
  BY <1>3, <1>4 DEF Pq!Uncalled
<1> QED BY <1>3, <1>4, <1>5, <1>6

LEMMA PqAskStep ==
  ASSUME QueueInv, Pq!QueueAssumption,
         NEW q \in Query, NEW kind \in Pq!Kinds, Pq!pqasyncqueryf(q, kind)
  PROVE  QueueInv' /\ kind[2] \in Modules \cup {NOBODY} /\ Pq!Contract!Ask(q, kind[2])
<1> USE DEF QueueInv
<1>1. /\ owner[q] = NULL
      /\ {kind[1], kind[2]} \cap gone = {}
      /\ identifier' = [identifier EXCEPT ![q] = kind[1]]
      /\ owner' = [owner EXCEPT ![q] = kind[2]]
      /\ queue' = Pq!Linked(q)
      /\ querytail' = q
      /\ sent' = IF querytail = NULL THEN q ELSE sent
      /\ UNCHANGED <<calls, stack, gone>>
  BY DEF Pq!pqasyncqueryf, Pq!Submitted
<1>2. \/ kind[1] \in Modules /\ kind[2] = kind[1]
      \/ kind[1] = ANON /\ kind[2] = NOBODY
  BY DEF Pq!Kinds
<1> DEFINE k == kind[1]
           o == kind[2]
<1>3. (k \in Modules /\ o = k) \/ (k = ANON /\ o = NOBODY)
  BY <1>2
<1>4. k \notin gone /\ o \notin gone
  BY <1>1
<1>5. IsList(queue) /\ q \notin Pq!ToSet(queue) /\ calls[q] = <<>>
  BY <1>1 DEF Typed, Fresh
<1>6. queue' = Append(queue, q)
  <2>1. CASE queue = <<>>
    BY <1>1, <2>1 DEF Pq!Linked, EndsOK
  <2>2. CASE queue # <<>>
    <3>1. /\ querytail = queue[Len(queue)] /\ Pq!Place(queue, querytail) = Len(queue)
          /\ querytail \in Pq!ToSet(queue) /\ Len(queue) \in Nat \ {0}
      BY <1>5, <2>2, EndsFacts DEF EndsOK
    <3>2. querytail # NULL
      BY <1>5, <3>1, PlaceFacts DEF Pq!QueueAssumption
    <3>3. Pq!Contains(queue, querytail)
      <4>1. Len(queue) \in 1 .. Len(queue)
        BY <3>1
      <4> QED BY <3>1, <4>1 DEF Pq!Contains
    <3>4. SubSeq(queue, 1, Len(queue)) = queue
      <4>1. queue \in Seq(Query)
        BY <1>5 DEF IsList
      <4> QED BY <4>1
    <3> QED BY <1>1, <3>1, <3>2, <3>3, <3>4 DEF Pq!Linked
  <2> QED BY <2>1, <2>2
<1>7. /\ IsList(queue') /\ Pq!ToSet(queue') = Pq!ToSet(queue) \cup {q}
      /\ \A p \in Pq!ToSet(queue) : Pq!Place(queue', p) = Pq!Place(queue, p)
      /\ Pq!Place(queue', q) = Len(queue) + 1
      /\ queue' # <<>> /\ Pq!Last(queue') = q
  BY <1>5, <1>6, AppendPlaces
<1>8. \A j \in 1 .. Len(queue) : queue'[j] = queue[j]
  <2>1. queue \in Seq(Query)
    BY <1>5 DEF IsList
  <2> QED BY <1>6, <2>1, AppendFacts
<1>9. /\ identifier' \in [Query -> Modules \cup {ANON, FIRED}] /\ identifier'[q] = k
      /\ \A p \in Query : p # q => identifier'[p] = identifier[p]
  <2>1. k \in Modules \cup {ANON, FIRED} /\ identifier' = [identifier EXCEPT ![q] = k]
    BY <1>1, <1>3
  <2> HIDE DEF k
  <2> QED BY <2>1 DEF Typed
<1>10. /\ owner' \in [Query -> Modules \cup {NULL, NOBODY}] /\ owner'[q] = o
       /\ \A p \in Query : p # q => owner'[p] = owner[p]
  <2>1. o \in Modules \cup {NULL, NOBODY} /\ owner' = [owner EXCEPT ![q] = o]
    BY <1>1, <1>3
  <2> HIDE DEF o
  <2> QED BY <2>1 DEF Typed
<1> HIDE DEF k, o
<1>11. \A p \in Pq!ToSet(queue) : p \in Query /\ p # q /\ identifier'[p] = identifier[p]
         /\ owner'[p] = owner[p]
  BY <1>5, <1>9, <1>10, PlaceFacts
<1>12. calls' = calls /\ stack' = stack /\ gone' = gone
  BY <1>1
<1>13. Typed'
  BY <1>7, <1>9, <1>10, <1>12 DEF Typed
<1>14. EndsOK'
  <2>1. CASE queue = <<>>
    <3>1. sent' = q
      BY <1>1, <2>1 DEF EndsOK
    <3>2. queue'[1] = q
      <4>1. Pq!Place(queue', q) = 1 /\ q \in Pq!ToSet(queue')
        <5>1. Len(queue) = 0
          BY <2>1
        <5> QED BY <1>7, <5>1
      <4> QED BY <1>7, <4>1, PlaceFacts
    <3> QED BY <1>1, <1>7, <3>1, <3>2 DEF EndsOK
  <2>2. CASE queue # <<>>
    <3>1. Len(queue) \in Nat \ {0} /\ querytail \in Pq!ToSet(queue)
      BY <1>5, <2>2, EndsFacts DEF EndsOK
    <3>2. 1 \in 1 .. Len(queue) /\ querytail # NULL
      BY <1>5, <3>1, PlaceFacts DEF Pq!QueueAssumption
    <3>3. sent' = queue'[1]
      BY <1>1, <1>8, <2>2, <3>2 DEF EndsOK
    <3> QED BY <1>1, <1>7, <3>3 DEF EndsOK
  <2> QED BY <2>1, <2>2
<1>15. Fresh'
  <2>1. owner'[q] # NULL
    BY <1>3, <1>10 DEF Pq!QueueAssumption
  <2> QED BY <1>7, <1>10, <1>12, <2>1 DEF Fresh
<1>16. KindsOK'
  <2> SUFFICES ASSUME NEW p \in Pq!ToSet(queue')
               PROVE  /\ identifier'[p] \notin gone'
                      /\ \/ owner'[p] \in Modules /\ identifier'[p] = owner'[p]
                         \/ owner'[p] \in Modules /\ identifier'[p] = FIRED /\ calls'[p] # <<>>
                         \/ owner'[p] = NOBODY /\ identifier'[p] = ANON
    BY DEF KindsOK
  <2>1. CASE p = q
    BY <1>3, <1>4, <1>9, <1>10, <1>12, <2>1
  <2>2. CASE p # q
    <3>1. p \in Pq!ToSet(queue) /\ identifier'[p] = identifier[p] /\ owner'[p] = owner[p]
      BY <1>7, <1>11, <2>2
    <3> QED BY <1>12, <3>1 DEF KindsOK
  <2> QED BY <2>1, <2>2
<1>17. ASSUME NEW A, Marked(A)
       PROVE  Marked(A)'
  BY <1>5, <1>7, <1>11, <1>12, <1>17 DEF Marked
<1>18. ASSUME NEW p, Handled(p)
       PROVE  Handled(p)' /\ identifier'[p] = identifier[p]
  <2>1. queue # <<>> /\ queue[1] = p
    BY <1>18 DEF Handled
  <2>2. p \in Pq!ToSet(queue) /\ 1 \in 1 .. Len(queue)
    <3>1. Len(queue) \in Nat \ {0} /\ p \in Pq!ToSet(queue)
      BY <1>5, <2>1, EndsFacts
    <3> QED BY <3>1
  <2> QED BY <1>7, <1>8, <1>11, <1>12, <1>18, <2>1, <2>2 DEF Handled
<1>19. ASSUME NEW p, NEW m, Firing(p, m)
       PROVE  Firing(p, m)'
  <2>1. p \in Pq!ToSet(queue) /\ Pq!Place(queue, p) \in 1 .. Len(queue)
    BY <1>5, <1>19, PlaceFacts DEF Firing
  <2>2. \A j \in 1 .. Pq!Place(queue, p) - 1 : j \in 1 .. Len(queue)
    <3>1. Len(queue) \in Nat
      BY <1>5, PlaceFacts
    <3> QED BY <2>1, <3>1
  <2>3. \A j \in 1 .. Len(queue) : queue[j] \in Pq!ToSet(queue)
    BY <1>5, PlaceFacts
  <2>4. \A j \in 1 .. Pq!Place(queue', p) - 1 : identifier'[queue'[j]] # m
    BY <1>7, <1>8, <1>11, <1>19, <2>1, <2>2, <2>3 DEF Firing
  <2> QED BY <1>7, <1>11, <1>12, <1>19, <2>1, <2>4 DEF Firing
<1>20. StackOK'
  <2>1. CASE stack = <<>> /\ Marked({})
    BY <1>12, <1>17, <2>1 DEF StackOK
  <2>2. ASSUME NEW p \in Query, stack = <<Handling(p)>>, Handled(p), Marked({p})
        PROVE  StackOK'
    <3>1. Marked({p})' /\ Handled(p)' /\ stack' = <<Handling(p)>>
      BY <1>12, <1>17, <1>18, <2>2
    <3> QED BY <3>1 DEF StackOK, Handling
  <2>3. ASSUME NEW p \in Query, NEW m \in Modules, stack = <<Freed(p, m)>>, Firing(p, m), Marked({p})
        PROVE  StackOK'
    <3>1. Marked({p})' /\ Firing(p, m)' /\ stack' = <<Freed(p, m)>>
      BY <1>12, <1>17, <1>19, <2>3
    <3> QED BY <3>1 DEF StackOK, Freed
  <2>4. ASSUME NEW p \in Query, NEW r \in Query, NEW m \in Modules, stack = <<Freed(r, m), Handling(p)>>,
               Handled(p), Firing(r, m), identifier[p] # m, Marked({p, r})
        PROVE  StackOK'
    <3>1. Marked({p, r})' /\ Firing(r, m)' /\ Handled(p)' /\ identifier'[p] # m
      BY <1>17, <1>18, <1>19, <2>4
    <3>2. stack' = <<Freed(r, m), Handling(p)>>
      BY <1>12, <2>4
    <3> QED BY <3>1, <3>2 DEF StackOK, Freed, Handling
  <2> QED BY <2>1, <2>2, <2>3, <2>4 DEF StackOK
<1>21. Pq!Uncalled' = Pq!Uncalled
  BY <1>12 DEF Pq!Uncalled
<1> DEFINE w == Pq!Waiting
<1>22. IsOnly(w, queue, Pq!Uncalled)
  BY DEF WaitingOK
<1> HIDE DEF w
<1>23. IsOnly(Append(w, q), queue', Pq!Uncalled)
  <2>1. IsList(w) /\ Pq!ToSet(w) = Pq!ToSet(queue) \cap Pq!Uncalled /\ \A p, r \in Pq!ToSet(w) : Behind(w, p,
        r) => Behind(queue, p, r)
    BY <1>22 DEF IsOnly
  <2>2. /\ IsList(Append(w, q)) /\ Pq!ToSet(Append(w, q)) = Pq!ToSet(w) \cup {q}
        /\ Pq!Place(Append(w, q), q) = Len(w) + 1
        /\ \A p \in Pq!ToSet(w) : Pq!Place(Append(w, q), p) = Pq!Place(w, p)
    BY <1>5, <2>1, AppendPlaces
  <2>3. q \in Pq!Uncalled
    BY <1>5 DEF Pq!Uncalled
  <2>4. /\ \A p \in Pq!ToSet(w) : Pq!Place(w, p) \in 1 .. Len(w)
        /\ Len(w) \in Nat
    BY <2>1, PlaceFacts
  <2>5. \A p \in Pq!ToSet(queue) : Pq!Place(queue, p) \in 1 .. Len(queue)
    BY <1>5, PlaceFacts
  <2>6. Len(queue) \in Nat
    BY <1>5, PlaceFacts
  <2> DEFINE v == Append(w, q)
  <2> HIDE DEF v
  <2>7. ASSUME NEW p \in Pq!ToSet(v), NEW r \in Pq!ToSet(v), Behind(v, p, r)
        PROVE  Behind(queue', p, r)
    <3>1. CASE p # q /\ r # q
      <4>1. p \in Pq!ToSet(w) /\ r \in Pq!ToSet(w) /\ Behind(w, p, r)
        BY <2>2, <2>7, <3>1 DEF Behind, v
      <4> QED BY <1>7, <2>1, <4>1 DEF Behind
    <3>2. CASE p = q
      <4>1. Pq!Place(v, p) = Len(w) + 1 /\ Pq!Place(v, r) \in 1 .. Len(w) + 1
        BY <2>2, <2>4, <3>2 DEF v
      <4>2. Pq!Place(v, p) < Pq!Place(v, r)
        BY <2>7 DEF Behind
      <4> QED BY <2>4, <4>1, <4>2
    <3>3. CASE p # q /\ r = q
      <4>1. p \in Pq!ToSet(queue)
        BY <2>1, <2>2, <3>3 DEF v
      <4> QED BY <1>7, <2>5, <2>6, <3>3, <4>1 DEF Behind
    <3> QED BY <3>1, <3>2, <3>3
  <2>8. Pq!ToSet(v) = Pq!ToSet(queue') \cap Pq!Uncalled
    BY <1>7, <2>1, <2>2, <2>3 DEF v
  <2> QED BY <2>2, <2>7, <2>8 DEF IsOnly, v
<1>24. Pq!Waiting' = Append(w, q)
  <2>1. Pq!Waiting' = Pq!Only(queue', Pq!Uncalled)
    BY <1>21 DEF Pq!Waiting
  <2> QED BY <1>7, <1>23, <2>1, OnlyIs
<1>25. WaitingOK'
  BY <1>21, <1>23, <1>24 DEF WaitingOK
<1>26. o \in Modules \cup {NOBODY}
  BY <1>3
<1>27. Pq!Contract!Ask(q, kind[2])
  <2>1. Pq!Contract!Own(q, o)
    BY <1>1, <1>4 DEF Pq!Contract!Own, o
  <2> QED BY <1>12, <1>24, <2>1 DEF Pq!Contract!Ask, w, o
<1> QED BY <1>13, <1>14, <1>15, <1>16, <1>20, <1>25, <1>26, <1>27 DEF o

\* dbhandler() frees the head and sends the next query.
LEMMA AdvanceStep ==
  ASSUME QueueInv, queue # <<>>, Pq!Advance, stack' = <<>>, UNCHANGED <<identifier, owner, calls, gone>>,
         Marked({queue[1]})
  PROVE  /\ QueueInv'
         /\ calls[queue[1]] # <<>> => Pq!Waiting' = Pq!Waiting
         /\ calls[queue[1]] = <<>> => Pq!Waiting # <<>> /\ Head(Pq!Waiting) = queue[1]
               /\ Pq!Waiting' = Tail(Pq!Waiting)
<1> USE DEF QueueInv
<1> DEFINE q == queue[1]
           t == Tail(queue)
           n == Len(queue)
<1>1. IsList(queue) /\ queue \in Seq(Query)
  BY DEF Typed, IsList
<1>2. /\ n \in Nat \ {0} /\ Head(queue) = q /\ q \in Pq!ToSet(queue) /\ Pq!Place(queue, q) = 1
      /\ Pq!Last(queue) = queue[n] /\ Pq!Place(queue, queue[n]) = n
  BY <1>1, EndsFacts
<1>3. IsCut(t, queue, 1)
  BY <1>1, TailCuts
<1>4. /\ queue' = t
      /\ querytail' = IF querytail = q THEN NULL ELSE querytail
      /\ sent' = IF n > 1 THEN queue[2] ELSE NULL
  BY <1>2 DEF Pq!Advance
<1>5. Marked({q})
  OBVIOUS
<1> HIDE DEF t, q
<1>6. /\ IsList(t) /\ Pq!ToSet(t) = Pq!ToSet(queue) \ {q}
      /\ \A p, r \in Pq!ToSet(t) : Behind(t, p, r) <=> Behind(queue, p, r)
  <2>1. 1 \in 1 .. Len(queue)
    BY <1>2
  <2> QED BY <1>1, <1>3, <2>1, CutPlaces DEF q
<1>7. Typed'
  BY <1>4, <1>6 DEF Typed
<1>8. EndsOK'
  <2>1. Len(t) = n - 1 /\ t \in Seq(Query) /\ \A j \in 1 .. n - 1 : t[j] = queue[j + 1]
    BY <1>3 DEF IsCut
  <2>2. querytail = queue[n]
    BY <1>2 DEF EndsOK
  <2> HIDE DEF n
  <2>3. CASE n = 1
    <3>1. querytail' = NULL /\ sent' = NULL /\ t = <<>>
      BY <1>4, <2>1, <2>2, <2>3 DEF q
    <3> QED BY <1>4, <3>1 DEF EndsOK
  <2>4. CASE n # 1
    <3>1. n > 1 /\ 1 \in 1 .. n - 1 /\ n - 1 \in 1 .. n - 1 /\ (n - 1) + 1 = n /\ 1 + 1 = 2
      BY <1>2, <2>4
    <3>2. querytail # q
      BY <1>2, <2>2, <2>4
    <3>3. querytail' = queue[n] /\ sent' = queue[2]
      BY <1>4, <2>2, <3>1, <3>2
    <3>4. t # <<>> /\ Pq!Last(t) = t[n - 1]
      <4>1. t # <<>>
        BY <2>1, <3>1
      <4> QED BY <2>1, <4>1 DEF Pq!Last
    <3>5. t[n - 1] = queue[n] /\ t[1] = queue[2]
      BY <2>1, <3>1
    <3> QED BY <1>4, <3>3, <3>4, <3>5 DEF EndsOK
  <2> QED BY <2>3, <2>4
<1>9. Fresh'
  BY <1>4, <1>6 DEF Fresh
<1>10. KindsOK'
  BY <1>4, <1>6 DEF KindsOK
<1>11. StackOK'
  <2>1. Marked({})'
    BY <1>4, <1>5, <1>6 DEF Marked
  <2> QED BY <2>1 DEF StackOK
<1> DEFINE w == Pq!Waiting
<1>12. IsOnly(w, queue, Pq!Uncalled)
  BY DEF WaitingOK
<1>13. Pq!Uncalled' = Pq!Uncalled
  BY DEF Pq!Uncalled
<1>14. Pq!Waiting' = Pq!Only(t, Pq!Uncalled)
  BY <1>4, <1>13 DEF Pq!Waiting
<1>15. q \in Query /\ 1 \in 1 .. Len(queue)
  BY <1>1, <1>2, PlaceFacts
<1> HIDE DEF w
<1>16. CASE calls[q] # <<>>
  <2>1. q \notin Pq!Uncalled
    BY <1>16 DEF Pq!Uncalled
  <2>2. IsOnly(w, t, Pq!Uncalled)
    BY <1>1, <1>3, <1>12, <1>15, <2>1, OnlySame DEF q
  <2>3. Pq!Waiting' = w
    BY <1>6, <1>14, <2>2, OnlyIs
  <2>4. WaitingOK'
    BY <1>4, <1>13, <2>2, <2>3 DEF WaitingOK
  <2> QED BY <1>7, <1>8, <1>9, <1>10, <1>11, <1>16, <2>3, <2>4 DEF w, q
<1>17. CASE calls[q] = <<>>
  <2>1. q \in Pq!Uncalled
    BY <1>15, <1>17 DEF Pq!Uncalled
  <2>2. w # <<>> /\ w[1] = q
    BY <1>1, <1>12, <2>1, OnlyFirst DEF q
  <2>3. w \in Seq(Query) /\ Len(w) \in Nat \ {0} /\ Head(w) = q
    <3>1. IsList(w)
      BY <1>12 DEF IsOnly
    <3> QED BY <2>2, <3>1, EndsFacts DEF IsList
  <2>4. IsCut(Tail(w), w, 1) /\ 1 \in 1 .. Len(w)
    BY <2>2, <2>3, TailCuts
  <2>5. IsOnly(Tail(w), queue, Pq!Uncalled \ {q})
    BY <1>12, <2>2, <2>4, OnlyLess
  <2>6. IsOnly(Tail(w), t, Pq!Uncalled \ {q})
    <3>1. queue[1] \notin Pq!Uncalled \ {q}
      BY DEF q
    <3> QED BY <1>1, <1>3, <1>15, <2>5, <3>1, OnlySame
  <2>7. IsOnly(Tail(w), t, Pq!Uncalled)
    BY <1>6, <2>6 DEF IsOnly
  <2>8. Pq!Waiting' = Tail(w)
    BY <1>6, <1>14, <2>7, OnlyIs
  <2>9. WaitingOK'
    BY <1>4, <1>13, <2>7, <2>8 DEF WaitingOK
  <2> QED BY <1>7, <1>8, <1>9, <1>10, <1>11, <1>17, <2>2, <2>3, <2>8, <2>9 DEF w, q
<1> QED BY <1>16, <1>17

\* dbhandler(): the answer goes to the callback of the query it is the answer of, or the query
\* is taken off the list if it has none, or if that was called with NULL.
LEMMA HandlerStep ==
  ASSUME QueueInv, Pq!QueueAssumption, Pq!dbhandler
  PROVE  QueueInv' /\ (Pq!Contract!Answer \/ UNCHANGED <<Pq!Waiting, owner, calls, gone>>)
<1> USE DEF QueueInv
<1> DEFINE q == queue[1]
<1>1. IsList(queue) /\ stack = <<>> /\ queue # <<>> /\ UNCHANGED <<identifier, owner, gone>>
  BY DEF Typed, Pq!dbhandler
<1>2. /\ Head(queue) = q /\ q \in Pq!ToSet(queue) /\ sent = q /\ q \in Query
      /\ 1 \in 1 .. Len(queue) /\ Pq!Place(queue, q) = 1
  <2>1. /\ Len(queue) \in Nat \ {0} /\ Head(queue) = q /\ q \in Pq!ToSet(queue) /\ Pq!Place(queue, q) = 1
    BY <1>1, EndsFacts
  <2> QED BY <1>1, <2>1, PlaceFacts DEF EndsOK
<1>3. Marked({})
  BY <1>1 DEF StackOK
<1>4. \/ owner[q] \in Modules /\ identifier[q] = owner[q]
      \/ owner[q] \in Modules /\ identifier[q] = FIRED /\ calls[q] # <<>>
      \/ owner[q] = NOBODY /\ identifier[q] = ANON
  BY <1>2 DEF KindsOK
<1>5. identifier[q] \notin gone
  BY <1>2 DEF KindsOK
<1>6. CASE Pq!Callable(q)
  <2>1. /\ calls' = [calls EXCEPT ![q] = Append(@, sent)]
        /\ stack' = <<Handling(q)>>
        /\ UNCHANGED <<queue, querytail, sent>>
    BY <1>2, <1>6 DEF Pq!dbhandler, Handling
  <2>2. owner[q] \in Modules /\ identifier[q] = owner[q] /\ identifier[q] # FIRED
    BY <1>4, <1>6 DEF Pq!Callable
  <2>3. calls[q] = <<>>
    BY <1>2, <1>3, <2>2 DEF Marked
  <2>4. calls' = [calls EXCEPT ![q] = Append(@, q)]
    BY <1>2, <2>1
  <2> HIDE DEF q
  <2>5. /\ calls' \in [Query -> Seq(Query \cup {NULL})] /\ calls'[q] # <<>>
        /\ \A p \in Query : p # q => calls'[p] = calls[p]
        /\ q \in Pq!ToSet(Pq!Waiting) /\ Pq!Uncalled' = Pq!Uncalled \ {q}
    BY <1>2, <2>3, <2>4, CallOne
  <2> DEFINE w == Pq!Waiting
  <2>6. IsOnly(w, queue, Pq!Uncalled)
    BY DEF WaitingOK
  <2>7. Pq!Waiting' = Pq!Only(queue, Pq!Uncalled \ {q})
    BY <2>1, <2>5 DEF Pq!Waiting
  <2> HIDE DEF w
  <2>8. q \in Pq!Uncalled
    BY <1>2, <2>3 DEF Pq!Uncalled
  <2>9. w # <<>> /\ w[1] = q
    BY <1>1, <2>6, <2>8, OnlyFirst DEF q
  <2>10. w \in Seq(Query) /\ Len(w) \in Nat \ {0} /\ Head(w) = q
    <3>1. IsList(w)
      BY <2>6 DEF IsOnly
    <3> QED BY <2>9, <3>1, EndsFacts DEF IsList
  <2>11. IsCut(Tail(w), w, 1) /\ 1 \in 1 .. Len(w)
    BY <2>9, <2>10, TailCuts
  <2>12. IsOnly(Tail(w), queue, Pq!Uncalled \ {q})
    BY <2>6, <2>9, <2>11, OnlyLess
  <2>13. Pq!Waiting' = Tail(w)
    BY <1>1, <2>7, <2>12, OnlyIs
  <2>14. WaitingOK'
    BY <2>1, <2>5, <2>12, <2>13 DEF WaitingOK
  <2>15. Typed' /\ EndsOK'
    BY <1>1, <2>1, <2>5 DEF Typed, EndsOK
  <2>16. owner[q] # NULL
    BY <2>2 DEF Pq!QueueAssumption
  <2>17. \A p \in Pq!ToSet(queue) : p \in Query
    BY <1>1, PlaceFacts
  <2>18. Fresh'
    BY <1>1, <2>1, <2>5, <2>16 DEF Fresh
  <2>19. KindsOK'
    <3> SUFFICES ASSUME NEW p \in Pq!ToSet(queue)
                 PROVE  /\ identifier[p] \notin gone
                        /\ \/ owner[p] \in Modules /\ identifier[p] = owner[p]
                           \/ owner[p] \in Modules /\ identifier[p] = FIRED /\ calls'[p] # <<>>
                           \/ owner[p] = NOBODY /\ identifier[p] = ANON
      BY <1>1, <2>1 DEF KindsOK
    <3> QED BY <2>5, <2>17 DEF KindsOK
  <2>20. StackOK'
    <3>1. \A p \in Pq!ToSet(queue') \ {q} : calls'[p] # <<>> => identifier'[p] = FIRED
      BY <1>1, <1>3, <2>1, <2>5, <2>17 DEF Marked
    <3>2. queue' # <<>> /\ queue'[1] = q /\ identifier'[q] \in Modules /\ calls'[q] # <<>>
      BY <1>1, <2>1, <2>2, <2>5 DEF q
    <3>3. \E p \in Query :
            /\ stack' = <<Handling(p)>>
            /\ queue' # <<>> /\ queue'[1] = p /\ identifier'[p] \in Modules /\ calls'[p] # <<>>
            /\ \A r \in Pq!ToSet(queue') \ {p} : calls'[r] # <<>> => identifier'[r] = FIRED
      BY <1>2, <2>1, <3>1, <3>2
    <3> QED BY <3>3 DEF StackOK, Handled, Marked, Handling
  <2>21. Pq!Contract!Answer
    <3>1. owner[q] \notin gone /\ owner[q] # NOBODY
      BY <1>5, <2>2 DEF Pq!QueueAssumption
    <3> QED BY <1>1, <2>4, <2>9, <2>10, <2>13, <3>1 DEF Pq!Contract!Answer, w
  <2> QED BY <2>14, <2>15, <2>18, <2>19, <2>20, <2>21
<1>7. CASE ~Pq!Callable(q)
  <2>1. Pq!Advance /\ UNCHANGED <<calls, stack>>
    BY <1>2, <1>7 DEF Pq!dbhandler
  <2>2. Marked({q})
    BY <1>3 DEF Marked
  <2>3. /\ QueueInv'
        /\ calls[q] # <<>> => Pq!Waiting' = Pq!Waiting
        /\ calls[q] = <<>> => Pq!Waiting # <<>> /\ Head(Pq!Waiting) = q /\ Pq!Waiting' = Tail(Pq!Waiting)
    BY <1>1, <2>1, <2>2, AdvanceStep
  <2> HIDE DEF q
  <2>4. CASE calls[q] # <<>>
    BY <1>1, <2>1, <2>3, <2>4
  <2>5. CASE calls[q] = <<>>
    <3>1. owner[q] = NOBODY
      BY <1>4, <1>7, <2>5 DEF Pq!Callable, Pq!QueueAssumption
    <3>2. NOBODY \notin gone
      BY DEF Typed, Pq!QueueAssumption
    <3>3. calls' = [calls EXCEPT ![q] = @]
      <4>1. calls \in [Query -> Seq(Query \cup {NULL})] /\ calls' = calls
        BY <2>1 DEF Typed
      <4> QED BY <1>2, <4>1
    <3>4. Pq!Contract!Answer
      BY <1>1, <2>3, <2>5, <3>1, <3>2, <3>3 DEF Pq!Contract!Answer
    <3> QED BY <2>3, <3>4
  <2> QED BY <2>4, <2>5
<1> QED BY <1>6, <1>7

\* The callback returns, and the next query is sent.
LEMMA AnsweredStep ==
  ASSUME QueueInv, Pq!QueueAssumption, Pq!Answered
  PROVE  QueueInv' /\ UNCHANGED <<Pq!Waiting, owner, calls, gone>>
<1> USE DEF QueueInv
<1>1. /\ stack # <<>> /\ Head(stack).f = "dbhandler" /\ Pq!Advance /\ stack' = Tail(stack)
      /\ UNCHANGED <<identifier, owner, calls, gone>>
  BY DEF Pq!Answered
<1>2. PICK p \in Query : stack = <<Handling(p)>> /\ Handled(p) /\ Marked({p})
  <2>2. \A q \in Query, m \in Modules : stack # <<Freed(q, m)>>
    BY <1>1 DEF Freed
  <2>3. \A p, q \in Query, m \in Modules : stack # <<Freed(q, m), Handling(p)>>
    BY <1>1 DEF Freed, Handling
  <2> QED BY <1>1, <2>2, <2>3 DEF StackOK
<1>3. stack' = <<>>
  BY <1>1, <1>2
<1>4. queue # <<>> /\ queue[1] = p /\ calls[p] # <<>>
  BY <1>2 DEF Handled
<1> QED BY <1>1, <1>2, <1>3, <1>4, AdvanceStep

\* The list is as pqfreeid(m) left it, s, and its callbacks to come are those behind place i.
Passed(s, i, m) ==
  /\ IsList(s) /\ s # <<>> /\ i \in 0 .. Len(s)
  /\ queue # <<>> /\ s[1] = queue[1] /\ Pq!ToSet(s) \subseteq Pq!ToSet(queue)
  /\ i < Len(s) => querytail = Pq!Last(s)
  /\ IsOnly(Pq!Waiting, s, Pq!Uncalled)
  /\ identifier' \in [Query -> Modules \cup {ANON, FIRED}]
  /\ \A j \in 1 .. i : identifier'[s[j]] # m
  /\ \A j \in 1 .. Len(s) : j > i => identifier'[s[j]] = identifier[s[j]]
  /\ \A q \in Pq!ToSet(s) :
       \/ identifier'[q] = identifier[q]
       \/ identifier'[q] = FIRED /\ calls[q] # <<>> /\ owner[q] \in Modules

\* What is called and not marked when pqfreeid(m) walks on, for the frames below.
BelowOK(s, m, below) ==
  \/ below = <<>> /\ \A q \in Pq!ToSet(s) : calls[q] # <<>> => identifier'[q] = FIRED
  \/ \E p \in Query :
       /\ below = <<Handling(p)>> /\ Handled(p) /\ identifier'[p] = identifier[p] /\ identifier[p] # m
       /\ \A q \in Pq!ToSet(s) \ {p} : calls[q] # <<>> => identifier'[q] = FIRED

\* pqfreeid() reaches the end of the list: no callback of m's waits.
LEMMA WalkEnds ==
  ASSUME QueueInv, Pq!QueueAssumption, NEW s, NEW m \in Modules \ gone, NEW i, NEW below,
         Passed(s, i, m), BelowOK(s, m, below), UNCHANGED <<sent, owner>>,
         Pq!Walk(s, i, m, below), Pq!Matches(s, i, m) = {}
  PROVE  QueueInv' /\ Pq!Contract!Unload(m)
<1> USE DEF QueueInv
<1>1. /\ queue' = s /\ querytail' = Pq!Last(s) /\ stack' = below /\ gone' = gone \cup {m}
      /\ calls' = calls /\ sent' = sent /\ owner' = owner
  BY DEF Pq!Walk
<1>2. /\ IsList(s) /\ s # <<>> /\ i \in 0 .. Len(s)
      /\ queue # <<>> /\ s[1] = queue[1] /\ Pq!ToSet(s) \subseteq Pq!ToSet(queue)
      /\ IsOnly(Pq!Waiting, s, Pq!Uncalled)
      /\ identifier' \in [Query -> Modules \cup {ANON, FIRED}]
      /\ \A q \in Pq!ToSet(s) :
           \/ identifier'[q] = identifier[q]
           \/ identifier'[q] = FIRED /\ calls[q] # <<>> /\ owner[q] \in Modules
  BY DEF Passed
<1>3. /\ DOMAIN s = 1 .. Len(s) /\ Len(s) \in Nat /\ Pq!ToSet(s) \subseteq Query
      /\ \A q \in Pq!ToSet(s) : Pq!Place(s, q) \in 1 .. Len(s) /\ s[Pq!Place(s, q)] = q
  BY <1>2, PlaceFacts
<1>4. \A q \in Pq!ToSet(s) : identifier'[q] # m
  <2>1. \A j \in 1 .. Len(s) : j > i => identifier[s[j]] # m
    BY <1>3 DEF Pq!Matches
  <2>2. \A j \in 1 .. Len(s) : j > i \/ j \in 1 .. i
    BY <1>2
  <2>3. \A j \in 1 .. Len(s) : identifier'[s[j]] # m
    BY <2>1, <2>2 DEF Passed
  <2> QED BY <1>3, <2>3
<1>5. Typed'
  BY <1>1, <1>2 DEF Typed
<1>6. EndsOK'
  BY <1>1, <1>2 DEF EndsOK
<1>7. Fresh'
  BY <1>1, <1>2 DEF Fresh
<1>8. KindsOK'
  <2> SUFFICES ASSUME NEW q \in Pq!ToSet(s)
               PROVE  /\ identifier'[q] \notin gone \cup {m}
                      /\ \/ owner[q] \in Modules /\ identifier'[q] = owner[q]
                         \/ owner[q] \in Modules /\ identifier'[q] = FIRED /\ calls[q] # <<>>
                         \/ owner[q] = NOBODY /\ identifier'[q] = ANON
    BY <1>1 DEF KindsOK
  <2>1. FIRED \notin gone
    BY DEF Typed, Pq!QueueAssumption
  <2>2. q \in Pq!ToSet(queue) /\ identifier'[q] # m
    BY <1>2, <1>4
  <2> QED BY <1>2, <2>1, <2>2 DEF KindsOK
<1>9. StackOK'
  <2>1. CASE below = <<>> /\ \A q \in Pq!ToSet(s) : calls[q] # <<>> => identifier'[q] = FIRED
    <3>1. stack' = <<>> /\ \A q \in Pq!ToSet(queue') \ {} : calls'[q] # <<>> => identifier'[q] = FIRED
      BY <1>1, <2>1
    <3> QED BY <3>1 DEF StackOK, Marked
  <2>2. ASSUME NEW p \in Query, below = <<Handling(p)>>, Handled(p), identifier'[p] = identifier[p],
               \A q \in Pq!ToSet(s) \ {p} : calls[q] # <<>> => identifier'[q] = FIRED
        PROVE  StackOK'
    <3>1. queue' # <<>> /\ queue'[1] = p /\ identifier'[p] \in Modules /\ calls'[p] # <<>>
      BY <1>1, <1>2, <2>2 DEF Handled
    <3>2. \A r \in Pq!ToSet(queue') \ {p} : calls'[r] # <<>> => identifier'[r] = FIRED
      BY <1>1, <2>2
    <3>3. \E r \in Query :
            /\ stack' = <<Handling(r)>>
            /\ queue' # <<>> /\ queue'[1] = r /\ identifier'[r] \in Modules /\ calls'[r] # <<>>
            /\ \A q \in Pq!ToSet(queue') \ {r} : calls'[q] # <<>> => identifier'[q] = FIRED
      BY <1>1, <2>2, <3>1, <3>2
    <3> QED BY <3>3 DEF StackOK, Handled, Marked, Handling
  <2> QED BY <2>1, <2>2 DEF BelowOK
<1>10. Pq!Uncalled' = Pq!Uncalled
  BY <1>1 DEF Pq!Uncalled
<1> DEFINE w == Pq!Waiting
<1>11. IsOnly(w, s, Pq!Uncalled)
  BY <1>2
<1>12. Pq!Waiting' = Pq!Only(s, Pq!Uncalled)
  BY <1>1, <1>10 DEF Pq!Waiting
<1> HIDE DEF w
<1>13. Pq!Waiting' = w
  BY <1>2, <1>11, <1>12, OnlyIs
<1>14. WaitingOK'
  BY <1>1, <1>10, <1>11, <1>13 DEF WaitingOK
<1>15. \A q \in Pq!ToSet(w) : owner[q] # m
  <2> SUFFICES ASSUME NEW q \in Pq!ToSet(w)
               PROVE  owner[q] # m
    OBVIOUS
  <2>1. q \in Pq!ToSet(s) /\ calls[q] = <<>>
    BY <1>11 DEF IsOnly, Pq!Uncalled
  <2>2. identifier[q] # m /\ q \in Pq!ToSet(queue)
    BY <1>2, <1>4, <2>1
  <2> QED BY <2>1, <2>2 DEF KindsOK, Pq!QueueAssumption
<1>16. Pq!Contract!Unload(m)
  BY <1>1, <1>13, <1>15 DEF Pq!Contract!Unload, Pq!Contract!ToSet, Pq!ToSet, w
<1> QED BY <1>5, <1>6, <1>7, <1>8, <1>9, <1>14, <1>16

\* pqfreeid() comes to a query of m's: it has not been called, and now is.
LEMMA WalkFires ==
  ASSUME QueueInv, Pq!QueueAssumption, NEW s, NEW m \in Modules \ gone, NEW i, NEW below,
         Passed(s, i, m), BelowOK(s, m, below), UNCHANGED <<sent, owner>>,
         Pq!Walk(s, i, m, below), Pq!Matches(s, i, m) # {}
  PROVE  QueueInv' /\ \E q \in Query : Pq!Contract!Cancel(q)
<1> USE DEF QueueInv
<1> DEFINE js == Pq!Matches(s, i, m)
           k == Pq!Min(js)
           q == s[k]
<1>1. /\ queue' = s
      /\ calls' = [calls EXCEPT ![q] = Append(@, NULL)]
      /\ stack' = <<Freed(q, m)>> \o below
      /\ UNCHANGED <<querytail, gone, sent, owner>>
  BY DEF Pq!Walk, Freed
<1>2. /\ IsList(s) /\ s # <<>> /\ i \in 0 .. Len(s)
      /\ queue # <<>> /\ s[1] = queue[1] /\ Pq!ToSet(s) \subseteq Pq!ToSet(queue)
      /\ IsOnly(Pq!Waiting, s, Pq!Uncalled)
      /\ identifier' \in [Query -> Modules \cup {ANON, FIRED}]
      /\ \A r \in Pq!ToSet(s) :
           \/ identifier'[r] = identifier[r]
           \/ identifier'[r] = FIRED /\ calls[r] # <<>> /\ owner[r] \in Modules
  BY DEF Passed
<1>3. /\ DOMAIN s = 1 .. Len(s) /\ Len(s) \in Nat /\ Pq!ToSet(s) \subseteq Query
      /\ \A j \in 1 .. Len(s) : s[j] \in Pq!ToSet(s) /\ s[j] \in Query /\ Pq!Place(s, s[j]) = j
  BY <1>2, PlaceFacts
<1>4. k \in js /\ \A j \in js : k <= j
  <2>1. js \subseteq Nat /\ js # {}
    BY <1>3 DEF Pq!Matches
  <2>2. \E x \in js : \A y \in js : x <= y
    BY <2>1, LeastNat
  <2> HIDE DEF js
  <2> QED BY <2>2 DEF Pq!Min
<1>5. k \in 1 .. Len(s) /\ k > i /\ identifier[s[k]] = m
  BY <1>3, <1>4 DEF Pq!Matches
<1>6. \A j \in 1 .. k - 1 : identifier'[s[j]] # m
  <2> SUFFICES ASSUME NEW j \in 1 .. k - 1
               PROVE  identifier'[s[j]] # m
    OBVIOUS
  <2> HIDE DEF k
  <2>1. j \in 1 .. Len(s) /\ ~(k <= j)
    BY <1>3, <1>5
  <2>2. CASE j > i
    <3>1. identifier[s[j]] # m
      BY <1>3, <1>4, <2>1, <2>2 DEF Pq!Matches
    <3> QED BY <2>1, <2>2, <3>1 DEF Passed
  <2>3. CASE ~(j > i)
    <3>1. j \in 1 .. i
      BY <1>2, <2>1, <2>3
    <3> QED BY <3>1 DEF Passed
  <2> QED BY <2>2, <2>3
<1>7. q \in Pq!ToSet(s) /\ q \in Query /\ q \in Pq!ToSet(queue) /\ Pq!Place(s, q) = k /\ identifier[q] = m
        /\ identifier'[q] = m
  <2>1. identifier'[s[k]] = identifier[s[k]]
    BY <1>5 DEF Passed
  <2> QED BY <1>2, <1>3, <1>5, <2>1
<1> HIDE DEF q, k, js
<1>8. calls[q] = <<>>
  BY <1>7 DEF BelowOK, Pq!QueueAssumption
<1>9. owner[q] = m
  BY <1>7 DEF KindsOK, Pq!QueueAssumption
<1>10. /\ calls' \in [Query -> Seq(Query \cup {NULL})] /\ calls'[q] # <<>>
       /\ \A p \in Query : p # q => calls'[p] = calls[p]
       /\ q \in Pq!ToSet(Pq!Waiting) /\ Pq!Uncalled' = Pq!Uncalled \ {q}
  BY <1>1, <1>7, <1>8, CallOne
<1>11. Typed'
  BY <1>1, <1>2, <1>10 DEF Typed
<1>12. EndsOK'
  <2>1. querytail = Pq!Last(s)
    <3>1. i < Len(s)
      BY <1>2, <1>3, <1>5
    <3> QED BY <3>1 DEF Passed
  <2> QED BY <1>1, <1>2, <2>1 DEF EndsOK
<1>13. Fresh'
  <2>1. owner[q] # NULL
    BY <1>9 DEF Pq!QueueAssumption
  <2> QED BY <1>1, <1>2, <1>10, <2>1 DEF Fresh
<1>14. KindsOK'
  <2> SUFFICES ASSUME NEW p \in Pq!ToSet(s)
               PROVE  /\ identifier'[p] \notin gone
                      /\ \/ owner[p] \in Modules /\ identifier'[p] = owner[p]
                         \/ owner[p] \in Modules /\ identifier'[p] = FIRED /\ calls'[p] # <<>>
                         \/ owner[p] = NOBODY /\ identifier'[p] = ANON
    BY <1>1 DEF KindsOK
  <2>1. FIRED \notin gone
    BY DEF Typed, Pq!QueueAssumption
  <2>2. p \in Pq!ToSet(queue) /\ p \in Query
    BY <1>2, <1>3
  <2>3. calls[p] # <<>> => calls'[p] # <<>>
    BY <1>10, <2>2
  <2> QED BY <1>2, <2>1, <2>2, <2>3 DEF KindsOK
<1>15. /\ q \in Pq!ToSet(queue') /\ calls'[q] # <<>>
       /\ m \in Modules \ gone' /\ identifier'[q] = m
       /\ \A j \in 1 .. Pq!Place(queue', q) - 1 : identifier'[queue'[j]] # m
  BY <1>1, <1>6, <1>7, <1>10
<1>16. StackOK'
  <2>1. CASE below = <<>> /\ \A r \in Pq!ToSet(s) : calls[r] # <<>> => identifier'[r] = FIRED
    <3>1. stack' = <<Freed(q, m)>>
      BY <1>1, <2>1
    <3>2. \A r \in Pq!ToSet(queue') \ {q} : calls'[r] # <<>> => identifier'[r] = FIRED
      BY <1>1, <1>3, <1>10, <2>1
    <3>3. \E p \in Query, n \in Modules :
            /\ stack' = <<Freed(p, n)>>
            /\ p \in Pq!ToSet(queue') /\ calls'[p] # <<>> /\ n \in Modules \ gone' /\ identifier'[p] = n
            /\ \A j \in 1 .. Pq!Place(queue', p) - 1 : identifier'[queue'[j]] # n
            /\ \A r \in Pq!ToSet(queue') \ {p} : calls'[r] # <<>> => identifier'[r] = FIRED
      BY <1>7, <1>15, <3>1, <3>2
    <3> QED BY <3>3 DEF StackOK, Firing, Marked, Freed, Pq!Place
  <2>2. ASSUME NEW p \in Query, below = <<Handling(p)>>, Handled(p), identifier'[p] = identifier[p],
               identifier[p] # m, \A r \in Pq!ToSet(s) \ {p} : calls[r] # <<>> => identifier'[r] = FIRED
        PROVE  StackOK'
    <3>1. stack' = <<Freed(q, m), Handling(p)>>
      BY <1>1, <2>2, FrameFacts
    <3>2. p # q
      BY <1>7, <2>2
    <3>3. queue' # <<>> /\ queue'[1] = p /\ identifier'[p] \in Modules /\ calls'[p] # <<>>
      BY <1>1, <1>2, <1>10, <2>2, <3>2 DEF Handled
    <3>4. \A r \in Pq!ToSet(queue') \ {p, q} : calls'[r] # <<>> => identifier'[r] = FIRED
      BY <1>1, <1>3, <1>10, <2>2
    <3>5. identifier'[p] # m
      BY <2>2
    <3>6. \E h, v \in Query, n \in Modules :
            /\ stack' = <<Freed(v, n), Handling(h)>>
            /\ queue' # <<>> /\ queue'[1] = h /\ identifier'[h] \in Modules /\ calls'[h] # <<>>
            /\ v \in Pq!ToSet(queue') /\ calls'[v] # <<>> /\ n \in Modules \ gone' /\ identifier'[v] = n
            /\ \A j \in 1 .. Pq!Place(queue', v) - 1 : identifier'[queue'[j]] # n
            /\ identifier'[h] # n
            /\ \A r \in Pq!ToSet(queue') \ {h, v} : calls'[r] # <<>> => identifier'[r] = FIRED
      BY <1>7, <1>15, <3>1, <3>3, <3>4, <3>5
    <3> QED BY <3>6 DEF StackOK, Handled, Firing, Marked, Freed, Handling, Pq!Place
  <2> QED BY <2>1, <2>2 DEF BelowOK
<1> DEFINE w == Pq!Waiting
           j == Pq!Place(w, q)
<1>17. IsOnly(w, s, Pq!Uncalled) /\ q \in Pq!ToSet(w)
  BY <1>2, <1>10
<1>18. Pq!Waiting' = Pq!Only(s, Pq!Uncalled \ {q})
  BY <1>1, <1>10 DEF Pq!Waiting
<1> HIDE DEF w
<1>19. IsList(w) /\ w \in Seq(Query)
  BY <1>17 DEF IsOnly, IsList
<1>20. j \in 1 .. Len(w) /\ w[j] = q /\ DOMAIN w = 1 .. Len(w)
  BY <1>17, <1>19, PlaceFacts
<1> HIDE DEF j
<1>21. IsCut(Pq!RemoveAt(w, j), w, j)
  BY <1>19, <1>20, RemoveAtCuts
<1>22. IsOnly(Pq!RemoveAt(w, j), s, Pq!Uncalled \ {q})
  BY <1>17, <1>20, <1>21, OnlyLess
<1>23. Pq!Waiting' = Pq!RemoveAt(w, j)
  BY <1>2, <1>18, <1>22, OnlyIs
<1>24. WaitingOK'
  BY <1>1, <1>10, <1>22, <1>23 DEF WaitingOK
<1>25. Pq!Contract!Cancel(q)
  BY <1>1, <1>9, <1>20, <1>23 DEF Pq!Contract!Cancel, Pq!Contract!RemoveAt, Pq!RemoveAt, w
<1> QED BY <1>7, <1>11, <1>12, <1>13, <1>14, <1>16, <1>24, <1>25

\* pqfreeid(): the module that goes is called back with NULL for each of its queries, and then is gone.
LEMMA PqFreeStep ==
  ASSUME QueueInv, Pq!QueueAssumption, NEW m \in Modules, Pq!pqfreeid(m)
  PROVE  QueueInv' /\ (Pq!Contract!Unload(m) \/ \E q \in Query : Pq!Contract!Cancel(q))
<1> USE DEF QueueInv
<1>1. /\ m \in Modules \ gone /\ ~Pq!Freeing
      /\ stack # <<>> => owner[Head(stack).q] # m
      /\ UNCHANGED <<sent, identifier, owner>>
  BY DEF Pq!pqfreeid
<1>2. /\ IsList(queue) /\ DOMAIN queue = 1 .. Len(queue) /\ Len(queue) \in Nat
      /\ \A j \in 1 .. Len(queue) : queue[j] \in Pq!ToSet(queue)
  BY PlaceFacts DEF Typed
<1>3. /\ \A q \in Query, n \in Modules : stack # <<Freed(q, n)>>
      /\ \A p, q \in Query, n \in Modules : stack # <<Freed(q, n), Handling(p)>>
  <2>1. ASSUME NEW q \in Query, NEW n \in Modules, stack = <<Freed(q, n)>>
        PROVE  FALSE
    <3>1. 1 \in DOMAIN stack /\ stack[1].f = "freeid"
      BY <2>1 DEF Freed
    <3> QED BY <1>1, <3>1 DEF Pq!Freeing
  <2>2. ASSUME NEW p \in Query, NEW q \in Query, NEW n \in Modules, stack = <<Freed(q, n), Handling(p)>>
        PROVE  FALSE
    <3>1. 1 \in DOMAIN stack /\ stack[1].f = "freeid"
      BY <2>2 DEF Freed
    <3> QED BY <1>1, <3>1 DEF Pq!Freeing
  <2> QED BY <2>1, <2>2
<1>4. \/ stack = <<>> /\ Marked({})
      \/ \E p \in Query : stack = <<Handling(p)>> /\ Handled(p) /\ Marked({p})
  BY <1>3 DEF StackOK
<1>5. CASE queue = <<>>
  <2>1. gone' = gone \cup {m} /\ UNCHANGED <<queue, querytail, stack, calls>>
    BY <1>5 DEF Pq!pqfreeid
  <2>2. stack = <<>> /\ Marked({})
    BY <1>4, <1>5 DEF Handled
  <2>3. \A q : q \notin Pq!ToSet(queue)
    <3>1. \A j \in DOMAIN queue : FALSE
      BY <1>5
    <3> QED BY <3>1 DEF Pq!ToSet
  <2>4. Typed' /\ EndsOK' /\ Fresh'
    BY <1>1, <2>1 DEF Typed, EndsOK, Fresh
  <2>5. KindsOK'
    BY <2>1, <2>3 DEF KindsOK
  <2>6. Marked({})'
    BY <2>1, <2>3 DEF Marked
  <2>7. StackOK'
    BY <2>1, <2>2, <2>6 DEF StackOK
  <2>8. Pq!Uncalled' = Pq!Uncalled
    BY <2>1 DEF Pq!Uncalled
  <2>9. Pq!Waiting' = Pq!Waiting
    BY <2>1, <2>8 DEF Pq!Waiting
  <2> DEFINE w == Pq!Waiting
  <2>10. IsOnly(w, queue, Pq!Uncalled)
    BY DEF WaitingOK
  <2> HIDE DEF w
  <2>11. WaitingOK'
    BY <2>1, <2>8, <2>9, <2>10 DEF WaitingOK, w
  <2>12. \A q \in Pq!ToSet(w) : owner[q] # m
    BY <2>3, <2>10 DEF IsOnly
  <2>13. Pq!Contract!Unload(m)
    BY <1>1, <2>1, <2>9, <2>12 DEF Pq!Contract!Unload, Pq!Contract!ToSet, Pq!ToSet, w
  <2> QED BY <2>4, <2>5, <2>7, <2>11, <2>13
<1>6. CASE queue # <<>>
  <2>1. Pq!Walk(queue, 0, m, stack)
    BY <1>6 DEF Pq!pqfreeid
  <2>2. Passed(queue, 0, m)
    <3>1. identifier' = identifier /\ identifier \in [Query -> Modules \cup {ANON, FIRED}]
      BY <1>1 DEF Typed
    <3>2. querytail = Pq!Last(queue)
      BY <1>6 DEF EndsOK
    <3>3. IsOnly(Pq!Waiting, queue, Pq!Uncalled)
      BY DEF WaitingOK
    <3>4. \A j \in 1 .. 0 : identifier'[queue[j]] # m
      OBVIOUS
    <3>5. 0 \in 0 .. Len(queue)
      BY <1>2
    <3> QED BY <1>2, <1>6, <3>1, <3>2, <3>3, <3>4, <3>5 DEF Passed
  <2>3. BelowOK(queue, m, stack)
    <3>1. CASE stack = <<>> /\ Marked({})
      <4>1. \A q \in Pq!ToSet(queue) : calls[q] # <<>> => identifier'[q] = FIRED
        BY <1>1, <3>1 DEF Marked
      <4> QED BY <3>1, <4>1 DEF BelowOK
    <3>2. ASSUME NEW p \in Query, stack = <<Handling(p)>>, Handled(p), Marked({p})
          PROVE  BelowOK(queue, m, stack)
      <4>1. owner[p] # m
        BY <1>1, <3>2 DEF Handling
      <4>2. p \in Pq!ToSet(queue) /\ identifier[p] \in Modules
        BY <1>2, <1>6, <3>2, EndsFacts DEF Handled
      <4>3. identifier[p] # m
        BY <4>1, <4>2 DEF KindsOK, Pq!QueueAssumption
      <4>4. \A q \in Pq!ToSet(queue) \ {p} : calls[q] # <<>> => identifier'[q] = FIRED
        BY <1>1, <3>2 DEF Marked
      <4> QED BY <1>1, <3>2, <4>3, <4>4 DEF BelowOK
    <3> QED BY <1>4, <3>1, <3>2
  <2>4. CASE Pq!Matches(queue, 0, m) = {}
    BY <1>1, <2>1, <2>2, <2>3, <2>4, WalkEnds
  <2>5. CASE Pq!Matches(queue, 0, m) # {}
    BY <1>1, <2>1, <2>2, <2>3, <2>5, WalkFires
  <2> QED BY <2>4, <2>5
<1> QED BY <1>5, <1>6

\* A callback that pqfreeid() has called returns, and pqfreeid() walks on.
LEMMA PqFiredStep ==
  ASSUME QueueInv, Pq!QueueAssumption, Pq!Fired
  PROVE  QueueInv' /\ ((\E m \in Modules : Pq!Contract!Unload(m)) \/ \E q \in Query : Pq!Contract!Cancel(q))
<1> USE DEF QueueInv
<1>1. stack # <<>> /\ Head(stack).f = "freeid" /\ UNCHANGED <<sent, owner>>
  BY DEF Pq!Fired
<1>2. \A p \in Query : stack # <<Handling(p)>>
  BY <1>1 DEF Handling
<1>3. PICK q \in Query, m \in Modules :
        /\ Firing(q, m)
        /\ \/ stack = <<Freed(q, m)>> /\ Marked({q})
           \/ \E p \in Query : stack = <<Freed(q, m), Handling(p)>> /\ Handled(p) /\ identifier[p] # m
                 /\ Marked({p, q})
  BY <1>1, <1>2 DEF StackOK
<1> DEFINE i == Pq!Place(queue, q)
           n == Len(queue)
           below == Tail(stack)
<1>4. Head(stack).q = q /\ Head(stack).m = m
  <2>1. Head(stack) = Freed(q, m)
    BY <1>3, FrameFacts
  <2> QED BY <2>1 DEF Freed
<1>5. /\ below = <<>> /\ Marked({q})
      \/ \E p \in Query : below = <<Handling(p)>> /\ Handled(p) /\ identifier[p] # m /\ Marked({p, q})
  <2>1. CASE stack = <<Freed(q, m)>> /\ Marked({q})
    BY <2>1, FrameFacts
  <2>2. ASSUME NEW p \in Query, stack = <<Freed(q, m), Handling(p)>>
        PROVE  below = <<Handling(p)>>
    BY <2>2, FrameFacts
  <2> HIDE DEF below
  <2> QED BY <1>3, <2>1, <2>2
<1>6. /\ m \in Modules \ gone /\ q \in Pq!ToSet(queue) /\ calls[q] # <<>> /\ identifier[q] = m
      /\ \A j \in 1 .. i - 1 : identifier[queue[j]] # m
  BY <1>3 DEF Firing
<1>7. /\ IsList(queue) /\ DOMAIN queue = 1 .. n /\ n \in Nat /\ Pq!ToSet(queue) \subseteq Query
      /\ \A r \in Pq!ToSet(queue) : Pq!Place(queue, r) \in 1 .. n /\ queue[Pq!Place(queue, r)] = r
      /\ \A j \in 1 .. n : queue[j] \in Pq!ToSet(queue) /\ queue[j] \in Query /\ Pq!Place(queue, queue[j]) = j
  BY PlaceFacts DEF Typed
<1>8. i \in 1 .. n /\ queue[i] = q /\ queue # <<>>
  <2>1. i \in 1 .. n /\ queue[i] = q
    BY <1>6, <1>7
  <2>2. DOMAIN queue # {}
    BY <1>7, <2>1
  <2> QED BY <2>1, <2>2
<1>9. querytail = Pq!Last(queue) /\ Pq!Last(queue) = queue[n]
  BY <1>7, <1>8, EndsFacts DEF EndsOK
<1>10. owner[q] \in Modules
  BY <1>6 DEF KindsOK, Pq!QueueAssumption
<1>11. IsOnly(Pq!Waiting, queue, Pq!Uncalled) /\ identifier \in [Query -> Modules \cup {ANON, FIRED}]
  BY DEF WaitingOK, Typed
<1>12. CASE i = 1
  <2>1. identifier' = [identifier EXCEPT ![q] = FIRED] /\ Pq!Walk(queue, 1, m, below)
    BY <1>4, <1>12 DEF Pq!Fired
  <2> HIDE DEF i, n, below
  <2>2. /\ identifier' \in [Query -> Modules \cup {ANON, FIRED}] /\ identifier'[q] = FIRED
        /\ \A r \in Query : r # q => identifier'[r] = identifier[r]
    BY <1>11, <2>1
  <2>3. \A j \in 1 .. 1 : identifier'[queue[j]] # m
    BY <1>8, <1>12, <2>2 DEF Pq!QueueAssumption
  <2>4. \A j \in 1 .. n : j > 1 => identifier'[queue[j]] = identifier[queue[j]]
    BY <1>7, <1>8, <1>12, <2>2 DEF i
  <2>5. 1 \in 0 .. n
    BY <1>7, <1>8, <1>12
  <2>6. \A r \in Pq!ToSet(queue) :
          \/ identifier'[r] = identifier[r]
          \/ identifier'[r] = FIRED /\ calls[r] # <<>> /\ owner[r] \in Modules
    BY <1>6, <1>7, <1>10, <2>2
  <2>7. Passed(queue, 1, m)
    BY <1>7, <1>8, <1>9, <1>11, <2>2, <2>3, <2>4, <2>5, <2>6 DEF Passed, n
  <2>8. BelowOK(queue, m, below)
    <3>1. CASE below = <<>> /\ Marked({q})
      <4>1. \A r \in Pq!ToSet(queue) : calls[r] # <<>> => identifier'[r] = FIRED
        BY <1>7, <2>2, <3>1 DEF Marked
      <4> QED BY <3>1, <4>1 DEF BelowOK
    <3>2. ASSUME NEW p \in Query, below = <<Handling(p)>>, Handled(p), identifier[p] # m, Marked({p, q})
          PROVE  BelowOK(queue, m, below)
      <4>1. p = q
        BY <1>8, <1>12, <3>2 DEF Handled
      <4> QED BY <1>6, <3>2, <4>1
    <3> QED BY <1>5, <3>1, <3>2
  <2>9. CASE Pq!Matches(queue, 1, m) = {}
    BY <1>1, <1>6, <2>1, <2>7, <2>8, <2>9, WalkEnds
  <2>10. CASE Pq!Matches(queue, 1, m) # {}
    BY <1>1, <1>6, <2>1, <2>7, <2>8, <2>10, WalkFires
  <2> QED BY <2>9, <2>10
<1>13. CASE i # 1
  <2> DEFINE s == Pq!RemoveAt(queue, i)
  <2>1. identifier' = identifier /\ Pq!Walk(s, i - 1, m, below)
    BY <1>4, <1>13 DEF Pq!Fired
  <2>2. IsCut(s, queue, i)
    <3>1. queue \in Seq(Query)
      BY <1>7 DEF IsList
    <3> HIDE DEF i
    <3> QED BY <1>8, <3>1, RemoveAtCuts DEF n
  <2> HIDE DEF s, i, n, below
  <2>3. IsList(s) /\ Pq!ToSet(s) = Pq!ToSet(queue) \ {q}
    BY <1>7, <1>8, <2>2, CutPlaces DEF n
  <2>4. /\ s \in Seq(Query) /\ Len(s) = n - 1
        /\ \A j \in 1 .. i - 1 : s[j] = queue[j]
        /\ \A j \in i .. n - 1 : s[j] = queue[j + 1]
    BY <2>2 DEF IsCut, n
  <2>5. 1 < i /\ i <= n /\ i - 1 \in 0 .. n - 1 /\ 1 \in 1 .. i - 1 /\ 1 \in 1 .. n - 1
    BY <1>7, <1>8, <1>13
  <2>6. s[1] = queue[1] /\ s # <<>>
    <3>1. DOMAIN s = 1 .. n - 1
      BY <2>4
    <3> QED BY <2>4, <2>5, <3>1
  <2>7. i - 1 < Len(s) => querytail = Pq!Last(s)
    <3> SUFFICES ASSUME i - 1 < n - 1
                 PROVE  querytail = Pq!Last(s)
      BY <2>4
    <3>1. n - 1 \in i .. n - 1 /\ (n - 1) + 1 = n
      BY <1>7, <1>8
    <3>2. s[n - 1] = queue[n]
      BY <2>4, <3>1
    <3> QED BY <1>9, <2>4, <2>6, <3>2 DEF Pq!Last
  <2>8. IsOnly(Pq!Waiting, s, Pq!Uncalled)
    <3>1. queue[i] \notin Pq!Uncalled
      BY <1>6, <1>8 DEF Pq!Uncalled
    <3> DEFINE w == Pq!Waiting
    <3>2. IsOnly(w, queue, Pq!Uncalled)
      BY <1>11
    <3> HIDE DEF w
    <3>3. IsOnly(w, s, Pq!Uncalled)
      BY <1>7, <1>8, <2>2, <3>1, <3>2, OnlySame DEF n
    <3> QED BY <3>3 DEF w
  <2>9. \A j \in 1 .. i - 1 : identifier'[s[j]] # m
    BY <1>6, <2>1, <2>4 DEF i
  <2>10. Passed(s, i - 1, m)
    BY <1>8, <1>11, <2>1, <2>3, <2>4, <2>5, <2>6, <2>7, <2>8, <2>9 DEF Passed
  <2>11. BelowOK(s, m, below)
    <3>1. CASE below = <<>> /\ Marked({q})
      <4>1. \A r \in Pq!ToSet(s) : calls[r] # <<>> => identifier'[r] = FIRED
        BY <2>1, <2>3, <3>1 DEF Marked
      <4> QED BY <3>1, <4>1 DEF BelowOK
    <3>2. ASSUME NEW p \in Query, below = <<Handling(p)>>, Handled(p), identifier[p] # m, Marked({p, q})
          PROVE  BelowOK(s, m, below)
      <4>1. \A r \in Pq!ToSet(s) \ {p} : calls[r] # <<>> => identifier'[r] = FIRED
        BY <2>1, <2>3, <3>2 DEF Marked
      <4>2. identifier'[p] = identifier[p]
        BY <2>1
      <4> QED BY <3>2, <4>1, <4>2 DEF BelowOK
    <3> QED BY <1>5, <3>1, <3>2
  <2>12. CASE Pq!Matches(s, i - 1, m) = {}
    BY <1>1, <1>6, <2>1, <2>10, <2>11, <2>12, WalkEnds
  <2>13. CASE Pq!Matches(s, i - 1, m) # {}
    BY <1>1, <1>6, <2>1, <2>10, <2>11, <2>13, WalkFires
  <2> QED BY <2>12, <2>13
<1> QED BY <1>12, <1>13

\* Nothing has been asked.
LEMMA QueueInitially ==
  ASSUME Pq!QueueAssumption, Pq!Init
  PROVE  QueueInv /\ Pq!Contract!Init
<1>1. /\ queue = <<>> /\ querytail = NULL /\ sent = NULL /\ stack = <<>> /\ gone = {}
      /\ identifier = [q \in Query |-> ANON] /\ owner = [q \in Query |-> NULL]
            /\ calls = [q \in Query |-> <<>>]
  BY DEF Pq!Init
<1>2. <<>> \in Seq(Query) /\ <<>> \in Seq(Query \cup {NULL}) /\ DOMAIN <<>> = {}
  BY EmptyFacts
<1>3. IsList(<<>>) /\ Pq!ToSet(<<>>) = {}
  <2>1. \A q : q \notin Pq!ToSet(<<>>)
    BY <1>2 DEF Pq!ToSet
  <2> QED BY <1>2, <2>1 DEF IsList, IsInjective
<1>4. IsOnly(<<>>, queue, Pq!Uncalled)
  BY <1>1, <1>3 DEF IsOnly
<1>5. Pq!Waiting = <<>>
  BY <1>1, <1>3, <1>4, OnlyIs DEF Pq!Waiting
<1>6. WaitingOK
  BY <1>4, <1>5 DEF WaitingOK
<1>7. Typed /\ EndsOK /\ Fresh /\ KindsOK
  BY <1>1, <1>2, <1>3 DEF Typed, EndsOK, Fresh, KindsOK
<1>8. StackOK
  BY <1>1, <1>3 DEF StackOK, Marked
<1>9. Pq!Contract!Init
  BY <1>1, <1>5 DEF Pq!Contract!Init
<1> QED BY <1>6, <1>7, <1>8, <1>9 DEF QueueInv

\* A step in which nothing changes.
LEMMA QueueStutter ==
  ASSUME QueueInv, UNCHANGED Pq!vars
  PROVE  QueueInv' /\ UNCHANGED Pq!Contract!vars
<1>1. UNCHANGED <<queue, querytail, sent, identifier, owner, calls, stack, gone>>
  BY DEF Pq!vars
<1>2. Typed' /\ EndsOK' /\ Fresh' /\ KindsOK'
  BY <1>1 DEF QueueInv, Typed, EndsOK, Fresh, KindsOK
<1>3. StackOK'
  BY <1>1 DEF QueueInv, StackOK, Handled, Firing, Marked, Pq!Place
<1>4. Pq!Waiting' = Pq!Waiting
  BY <1>1 DEF Pq!Waiting, Pq!Uncalled, Pq!Only, Pq!PlacesOf, Pq!Rank
<1>5. WaitingOK'
  BY <1>1, <1>4 DEF QueueInv, WaitingOK, IsOnly, Pq!Uncalled
<1> QED BY <1>1, <1>2, <1>3, <1>4, <1>5 DEF QueueInv, Pq!Contract!vars

\* Every step is a step of Queries, or one that Queries does not see.
LEMMA QueueSteps ==
  ASSUME QueueInv, Pq!QueueAssumption, [Pq!Next]_Pq!vars
  PROVE  QueueInv' /\ [Pq!Contract!Next]_(Pq!Contract!vars)
<1>1. CASE UNCHANGED Pq!vars
  BY <1>1, QueueStutter
<1>2. ASSUME NEW q \in Query, NEW kind \in Pq!Kinds, Pq!pqasyncqueryf(q, kind)
      PROVE  QueueInv' /\ Pq!Contract!Next
  BY <1>2, PqAskStep DEF Pq!Contract!Next
<1>3. CASE Pq!dbhandler
  BY <1>3, HandlerStep DEF Pq!Contract!Next, Pq!Contract!vars
<1>4. CASE Pq!Answered
  BY <1>4, AnsweredStep DEF Pq!Contract!vars
<1>5. ASSUME NEW m \in Modules, Pq!pqfreeid(m)
      PROVE  QueueInv' /\ Pq!Contract!Next
  BY <1>5, PqFreeStep DEF Pq!Contract!Next
<1>6. CASE Pq!Fired
  BY <1>6, PqFiredStep DEF Pq!Contract!Next
<1> QED BY <1>1, <1>2, <1>3, <1>4, <1>5, <1>6 DEF Pq!Next

\* pqasyncqueryf(), dbhandler(), pqfreeid(): each callback is called once, in the order of asking and
\* with its own answer, or with NULL before its module goes, and none in a module that is gone; any
\* number of queries and modules, if those with a callback carry the identifier of its module.
THEOREM PqQueueImplementsQueries ==
  ASSUME Pq!QueueAssumption
  PROVE  Pq!Spec => PqImplementsQueries
<1>1. Pq!Init => QueueInv /\ Pq!Contract!Init
  BY QueueInitially
<1>2. QueueInv /\ [Pq!Next]_Pq!vars => QueueInv' /\ [Pq!Contract!Next]_(Pq!Contract!vars)
  BY QueueSteps
<1> QED BY <1>1, <1>2, PTL DEF Pq!Spec, PqImplementsQueries, Pq!ImplementsQueries, Pq!Contract!Spec

-----------------------------------------------------------------------------
(* sqlite.c. *)

\* A list of different queries.
SList(s) == s \in Seq(Statements) /\ \A i, j \in DOMAIN s : s[i] = s[j] => i = j

\* What a function has on the stack while it runs or a callback of its does.
SFrames ==
  [f : {"run", "called", "process"}, q : Statements, m : {NULL}]
    \cup [f : {"free"}, q : Statements, m : Modules, at : Nat]

STyped ==
  /\ SList(squeue)
  /\ sowner \in [Statements -> Modules \cup {NULL, NOBODY}]
  /\ sidentifier \in [Statements -> Modules \cup {ANON}]
  /\ scalls \in [Statements -> Seq(Statements \cup {NULL})]
  /\ sgone \subseteq Modules
  /\ sstack \in Seq(SFrames)

\* The tail agrees with the list.
STail ==
  /\ squeue = <<>> => tail = NULL
  /\ squeue # <<>> => tail = squeue[Len(squeue)]

\* A query in the list has its owner's identifier, and its owner is there.
SKinds ==
  \A i \in DOMAIN squeue :
    \/ sowner[squeue[i]] \in Modules \ sgone /\ sidentifier[squeue[i]] = sowner[squeue[i]]
    \/ sowner[squeue[i]] = NOBODY /\ sidentifier[squeue[i]] = ANON

\* Frames are about queries that were asked.
SAsked == \A k \in DOMAIN sstack : sowner[sstack[k].q] # NULL

\* A statement is run at once only while nothing is queued, and nothing happens meanwhile.
SRun ==
  \A k \in DOMAIN sstack :
    sstack[k].f = "run" => k = 1 /\ squeue = <<>> /\ sowner[sstack[k].q] \notin sgone

\* sqlitequeueprocessor() is called by nobody's callback, and its query stays the head.
SProcess ==
  \A k \in DOMAIN sstack :
    sstack[k].f = "process" => k = Len(sstack) /\ squeue # <<>> /\ squeue[1] = sstack[k].q

\* sqlitefreeid() has left none of the module's queries behind, and has not freed the head of
\* sqlitequeueprocessor().
SFree ==
  \A k \in DOMAIN sstack :
    sstack[k].f = "free" =>
      /\ sstack[k].m \notin sgone
      /\ sstack[k].at <= Len(squeue)
      /\ \A j \in 1 .. sstack[k].at : sidentifier[squeue[j]] # sstack[k].m
      /\ Sqlite!Processing => sstack[k].at >= 1

SOneFree ==
  \A j, k \in DOMAIN sstack : sstack[j].f = "free" /\ sstack[k].f = "free" => j = k

SqliteInv ==
  STyped /\ STail /\ SKinds /\ SAsked /\ SRun /\ SProcess /\ SFree /\ SOneFree

-----------------------------------------------------------------------------
(* Sequences. *)

\* One frame more.
LEMMA PushFacts ==
  ASSUME NEW S, NEW s \in Seq(S), NEW x \in S
  PROVE  /\ <<x>> \o s \in Seq(S) /\ Len(<<x>> \o s) = Len(s) + 1 /\ <<x>> \o s # <<>>
         /\ DOMAIN (<<x>> \o s) = 1 .. Len(s) + 1 /\ DOMAIN s = 1 .. Len(s) /\ Len(s) \in Nat
         /\ (<<x>> \o s)[1] = x /\ Head(<<x>> \o s) = x
         /\ \A k \in 2 .. Len(s) + 1 : k - 1 \in 1 .. Len(s) /\ (<<x>> \o s)[k] = s[k - 1]
  OBVIOUS

\* One frame less.
LEMMA PopFacts ==
  ASSUME NEW S, NEW s \in Seq(S), s # <<>>
  PROVE  /\ Tail(s) \in Seq(S) /\ Len(Tail(s)) = Len(s) - 1 /\ Len(s) \in Nat \ {0}
         /\ DOMAIN Tail(s) = 1 .. Len(s) - 1 /\ DOMAIN s = 1 .. Len(s)
         /\ Head(s) = s[1] /\ s[1] \in S
         /\ \A k \in 1 .. Len(s) - 1 : k + 1 \in 1 .. Len(s) /\ Tail(s)[k] = s[k + 1]
  OBVIOUS

\* A list without one of its elements.
LEMMA RemoveFacts ==
  ASSUME NEW S, NEW s \in Seq(S), NEW i \in 1 .. Len(s)
  PROVE  /\ Sqlite!RemoveAt(s, i) \in Seq(S) /\ Len(Sqlite!RemoveAt(s, i)) = Len(s) - 1
         /\ DOMAIN Sqlite!RemoveAt(s, i) = 1 .. Len(s) - 1
         /\ \A j \in 1 .. i - 1 : Sqlite!RemoveAt(s, i)[j] = s[j]
         /\ \A j \in i .. Len(s) - 1 : Sqlite!RemoveAt(s, i)[j] = s[j + 1]
<1> DEFINE a == SubSeq(s, 1, i - 1)
           b == SubSeq(s, i + 1, Len(s))
           n == Len(s)
<1>1. n \in Nat /\ i \in Nat /\ 1 <= i /\ i <= n
  OBVIOUS
<1>2. a \in Seq(S) /\ Len(a) = i - 1 /\ \A j \in 1 .. i - 1 : a[j] = s[j]
  BY <1>1
<1>3. b \in Seq(S) /\ Len(b) = n - i /\ \A j \in 1 .. n - i : b[j] = s[i + j]
  BY <1>1
<1>4. Sqlite!RemoveAt(s, i) = a \o b
  BY DEF Sqlite!RemoveAt
<1> HIDE DEF a, b, n
<1>5. /\ a \o b \in Seq(S) /\ Len(a \o b) = Len(a) + Len(b)
      /\ \A j \in 1 .. Len(a) : (a \o b)[j] = a[j]
      /\ \A j \in 1 .. Len(b) : (a \o b)[Len(a) + j] = b[j]
  <2>1. a \in Seq(S) /\ b \in Seq(S)
    BY <1>2, <1>3
  <2> QED BY <2>1, ConcatFacts
<1> DEFINE c == a \o b
<1>6. c \in Seq(S) /\ Len(c) = n - 1
  BY <1>1, <1>2, <1>3, <1>5
<1>7. DOMAIN c = 1 .. n - 1
  <2> HIDE DEF c
  <2> QED BY <1>6
<1>8. \A j \in 1 .. i - 1 : c[j] = s[j]
  BY <1>2, <1>5
<1>9. ASSUME NEW j \in i .. n - 1
      PROVE  c[j] = s[j + 1]
  <2>1. j - (i - 1) \in 1 .. n - i /\ (i - 1) + (j - (i - 1)) = j /\ i + (j - (i - 1)) = j + 1
    BY <1>1
  <2>2. c[(i - 1) + (j - (i - 1))] = b[j - (i - 1)]
    BY <1>2, <1>3, <1>5, <2>1
  <2>3. b[j - (i - 1)] = s[i + (j - (i - 1))]
    BY <1>3, <2>1
  <2> QED BY <2>1, <2>2, <2>3
<1> HIDE DEF c
<1>10. Sqlite!RemoveAt(s, i) = c
  BY <1>4 DEF c
<1> QED BY <1>6, <1>7, <1>8, <1>9, <1>10 DEF n

\* Two sequences that are equal everywhere.
LEMMA SameSeq ==
  ASSUME NEW S, NEW s \in Seq(S), NEW t \in Seq(S), Len(s) = Len(t), \A j \in 1 .. Len(s) : s[j] = t[j]
  PROVE  s = t
  OBVIOUS

\* The head does not matter to what is removed or added behind it.
LEMMA TailOfRemoved ==
  ASSUME NEW S, NEW s \in Seq(S), NEW i \in 2 .. Len(s)
  PROVE  Tail(Sqlite!RemoveAt(s, i)) = Sqlite!RemoveAt(Tail(s), i - 1)
<1> DEFINE n == Len(s)
           r == Sqlite!RemoveAt(s, i)
           a == Tail(r)
           b == Sqlite!RemoveAt(Tail(s), i - 1)
<1>1. n \in Nat /\ n >= 2 /\ i \in 1 .. n /\ s # <<>> /\ 2 <= i /\ i <= n
  OBVIOUS
<1>2. /\ r \in Seq(S) /\ Len(r) = n - 1
      /\ \A j \in 1 .. i - 1 : r[j] = s[j]
      /\ \A j \in i .. n - 1 : r[j] = s[j + 1]
  BY <1>1, RemoveFacts
<1> HIDE DEF r
<1>3. r # <<>>
  <2>1. DOMAIN r = 1 .. n - 1 /\ 1 \in 1 .. n - 1
    BY <1>1, <1>2
  <2> QED BY <2>1
<1>4. a \in Seq(S) /\ Len(a) = n - 2 /\ \A j \in 1 .. n - 2 : a[j] = r[j + 1]
  <2>1. Tail(r) \in Seq(S) /\ Len(Tail(r)) = Len(r) - 1 /\ \A j \in 1 .. Len(r) - 1 : Tail(r)[j] = r[j + 1]
    BY <1>2, <1>3, PopFacts
  <2> QED BY <1>1, <1>2, <2>1
<1>5. Tail(s) \in Seq(S) /\ Len(Tail(s)) = n - 1 /\ \A j \in 1 .. n - 1 : Tail(s)[j] = s[j + 1]
  BY <1>1, PopFacts
<1>6. i - 1 \in 1 .. Len(Tail(s))
  BY <1>1, <1>5
<1>7. /\ b \in Seq(S) /\ Len(b) = n - 2
      /\ \A j \in 1 .. i - 2 : b[j] = Tail(s)[j]
      /\ \A j \in i - 1 .. n - 2 : b[j] = Tail(s)[j + 1]
  <2> DEFINE t == Tail(s)
             m == i - 1
  <2>1. t \in Seq(S) /\ m \in 1 .. Len(t) /\ Len(t) = n - 1
    BY <1>5, <1>6
  <2> HIDE DEF t, m
  <2>2. /\ Sqlite!RemoveAt(t, m) \in Seq(S) /\ Len(Sqlite!RemoveAt(t, m)) = Len(t) - 1
        /\ \A j \in 1 .. m - 1 : Sqlite!RemoveAt(t, m)[j] = t[j]
        /\ \A j \in m .. Len(t) - 1 : Sqlite!RemoveAt(t, m)[j] = t[j + 1]
    BY <2>1, RemoveFacts
  <2>3. m - 1 = i - 2 /\ Len(t) - 1 = n - 2
    BY <1>1, <2>1 DEF m
  <2>4. b = Sqlite!RemoveAt(t, m)
    BY DEF t, m
  <2> QED BY <2>2, <2>3, <2>4 DEF t, m
<1> HIDE DEF a, b, n
<1>8. \A j \in 1 .. n - 2 : a[j] = b[j]
  <2> SUFFICES ASSUME NEW j \in 1 .. n - 2
               PROVE  a[j] = b[j]
    OBVIOUS
  <2>1. CASE j <= i - 2
    <3>1. j \in 1 .. i - 2 /\ j + 1 \in 1 .. i - 1 /\ j \in 1 .. n - 1
      BY <1>1, <2>1
    <3> QED BY <1>2, <1>4, <1>5, <1>7, <3>1
  <2>2. CASE j > i - 2
    <3>1. j \in i - 1 .. n - 2 /\ j + 1 \in i .. n - 1 /\ j + 1 \in 1 .. n - 1
      BY <1>1, <2>2
    <3> QED BY <1>2, <1>4, <1>5, <1>7, <3>1
  <2> QED BY <1>1, <2>1, <2>2
<1>9. a = b
  BY <1>4, <1>7, <1>8, SameSeq
<1> QED BY <1>9 DEF a, b, r

LEMMA TailOfAppended ==
  ASSUME NEW S, NEW s \in Seq(S), s # <<>>, NEW x \in S
  PROVE  Tail(Append(s, x)) = Append(Tail(s), x)
<1> DEFINE n == Len(s)
           r == Append(s, x)
           a == Tail(r)
           t == Tail(s)
           b == Append(t, x)
<1>1. /\ t \in Seq(S) /\ Len(t) = n - 1 /\ n \in Nat \ {0}
      /\ \A j \in 1 .. n - 1 : j + 1 \in 1 .. n /\ t[j] = s[j + 1]
  BY PopFacts
<1>2. r \in Seq(S) /\ Len(r) = n + 1 /\ \A j \in 1 .. n : r[j] = s[j]
  BY AppendFacts
<1>3. r[n + 1] = x
  BY AppendFacts
<1> HIDE DEF r, t
<1>4. r # <<>>
  <2>1. DOMAIN r = 1 .. n + 1 /\ 1 \in 1 .. n + 1
    BY <1>1, <1>2
  <2> QED BY <2>1
<1>5. a \in Seq(S) /\ Len(a) = n /\ \A j \in 1 .. n : a[j] = r[j + 1]
  <2>1. Tail(r) \in Seq(S) /\ Len(Tail(r)) = Len(r) - 1 /\ \A j \in 1 .. Len(r) - 1 : Tail(r)[j] = r[j + 1]
    BY <1>2, <1>4, PopFacts
  <2> QED BY <1>1, <1>2, <2>1
<1>6. b \in Seq(S) /\ Len(b) = n /\ (\A j \in 1 .. n - 1 : b[j] = t[j]) /\ b[n] = x
  <2>1. /\ Append(t, x) \in Seq(S) /\ Len(Append(t, x)) = Len(t) + 1
        /\ \A i \in 1 .. Len(t) : Append(t, x)[i] = t[i]
        /\ Append(t, x)[Len(t) + 1] = x
    BY <1>1, AppendFacts
  <2>2. Len(t) + 1 = n
    BY <1>1
  <2> QED BY <1>1, <2>1, <2>2
<1> HIDE DEF a, b, n
<1>7. \A j \in 1 .. n : a[j] = b[j]
  <2> SUFFICES ASSUME NEW j \in 1 .. n
               PROVE  a[j] = b[j]
    OBVIOUS
  <2>1. CASE j = n
    BY <1>1, <1>3, <1>5, <1>6, <2>1
  <2>2. CASE j # n
    <3>1. j \in 1 .. n - 1
      BY <1>1, <2>2
    <3> QED BY <1>1, <1>2, <1>5, <1>6, <3>1
  <2> QED BY <2>1, <2>2
<1>8. a = b
  BY <1>1, <1>5, <1>6, <1>7, SameSeq
<1> QED BY <1>8 DEF a, b, r, t

-----------------------------------------------------------------------------
(* Lists of queries, and the stack. *)

\* The places of a list.
LEMMA ListFacts ==
  ASSUME NEW s, SList(s)
  PROVE  /\ s \in Seq(Statements) /\ DOMAIN s = 1 .. Len(s) /\ Len(s) \in Nat
         /\ \A i \in 1 .. Len(s) : s[i] \in Statements
         /\ \A i, j \in 1 .. Len(s) : s[i] = s[j] => i = j
  BY DEF SList

\* A list without one of its queries is one.
LEMMA ListRemoved ==
  ASSUME NEW s, SList(s), NEW i \in 1 .. Len(s)
  PROVE  SList(Sqlite!RemoveAt(s, i))
<1> DEFINE n == Len(s)
           t == Sqlite!RemoveAt(s, i)
<1>1. /\ s \in Seq(Statements) /\ n \in Nat /\ 1 <= i /\ i <= n /\ i \in Nat
      /\ \A j, k \in 1 .. n : s[j] = s[k] => j = k
  BY ListFacts
<1>2. /\ t \in Seq(Statements) /\ DOMAIN t = 1 .. n - 1
      /\ \A j \in 1 .. i - 1 : t[j] = s[j]
      /\ \A j \in i .. n - 1 : t[j] = s[j + 1]
  BY <1>1, RemoveFacts
<1> HIDE DEF n, t
<1>3. \A j \in 1 .. n - 1 : \/ j < i /\ j \in 1 .. n /\ t[j] = s[j]
                            \/ j >= i /\ j + 1 \in 1 .. n /\ t[j] = s[j + 1]
  <2> SUFFICES ASSUME NEW j \in 1 .. n - 1
               PROVE  \/ j < i /\ j \in 1 .. n /\ t[j] = s[j]
                      \/ j >= i /\ j + 1 \in 1 .. n /\ t[j] = s[j + 1]
    OBVIOUS
  <2>1. CASE j < i
    <3>1. j \in 1 .. i - 1 /\ j \in 1 .. n
      BY <1>1, <2>1
    <3> QED BY <1>2, <2>1, <3>1
  <2>2. CASE j >= i
    <3>1. j \in i .. n - 1 /\ j + 1 \in 1 .. n
      BY <1>1, <2>2
    <3> QED BY <1>2, <2>2, <3>1
  <2> QED BY <1>1, <2>1, <2>2
<1>4. ASSUME NEW j \in 1 .. n - 1, NEW k \in 1 .. n - 1, t[j] = t[k]
      PROVE  j = k
  <2>1. CASE j < i /\ k < i
    BY <1>1, <1>3, <1>4, <2>1
  <2>2. CASE j >= i /\ k >= i
    <3>1. j + 1 = k + 1
      BY <1>1, <1>3, <1>4, <2>2
    <3> QED BY <3>1
  <2>3. CASE j < i /\ k >= i
    <3>1. j = k + 1
      BY <1>1, <1>3, <1>4, <2>3
    <3> QED BY <1>1, <2>3, <3>1
  <2>4. CASE j >= i /\ k < i
    <3>1. j + 1 = k
      BY <1>1, <1>3, <1>4, <2>4
    <3> QED BY <1>1, <2>4, <3>1
  <2> QED BY <1>1, <2>1, <2>2, <2>3, <2>4
<1> QED BY <1>2, <1>4 DEF SList, t

LEMMA ListTail ==
  ASSUME NEW s, SList(s), s # <<>>
  PROVE  SList(Tail(s))
<1> DEFINE n == Len(s)
           t == Tail(s)
<1>1. s \in Seq(Statements) /\ \A j, k \in 1 .. n : s[j] = s[k] => j = k
  BY ListFacts
<1>2. /\ t \in Seq(Statements) /\ n \in Nat \ {0} /\ DOMAIN t = 1 .. n - 1
      /\ \A k \in 1 .. n - 1 : k + 1 \in 1 .. n /\ t[k] = s[k + 1]
  BY <1>1, PopFacts
<1> HIDE DEF n, t
<1>3. ASSUME NEW j \in 1 .. n - 1, NEW k \in 1 .. n - 1, t[j] = t[k]
      PROVE  j = k
  <2>1. s[j + 1] = s[k + 1] /\ j + 1 \in 1 .. n /\ k + 1 \in 1 .. n
    BY <1>2, <1>3
  <2>2. j + 1 = k + 1
    BY <1>1, <2>1
  <2> QED BY <2>2
<1> QED BY <1>2, <1>3 DEF SList, t

LEMMA ListAppended ==
  ASSUME NEW s, SList(s), NEW q \in Statements, \A i \in 1 .. Len(s) : s[i] # q
  PROVE  SList(Append(s, q))
<1> DEFINE n == Len(s)
           t == Append(s, q)
<1>1. s \in Seq(Statements) /\ n \in Nat /\ \A j, k \in 1 .. n : s[j] = s[k] => j = k
  BY ListFacts
<1>2. /\ t \in Seq(Statements) /\ DOMAIN t = 1 .. n + 1 /\ t[n + 1] = q
      /\ \A k \in 1 .. n : t[k] = s[k]
  BY <1>1, AppendFacts
<1>3. \A i \in 1 .. n : s[i] # q
  OBVIOUS
<1> HIDE DEF n, t
<1>4. \A j \in 1 .. n + 1 : j \in 1 .. n \/ j = n + 1
  BY <1>1
<1>5. ASSUME NEW j \in 1 .. n + 1, NEW k \in 1 .. n + 1, t[j] = t[k]
      PROVE  j = k
  BY <1>1, <1>2, <1>3, <1>4, <1>5
<1> QED BY <1>2, <1>5 DEF SList, t

\* sqlitequeueprocessor() is at the bottom of the stack s.
OnProcess(s) == s # <<>> /\ s[Len(s)].f = "process"

LEMMA ProcessingIs == (Sqlite!Processing <=> OnProcess(sstack)) /\ (Sqlite!Processing' <=> OnProcess(sstack'))
  BY DEF Sqlite!Processing, OnProcess, Sqlite!Last

\* Frames above it do not change that.
LEMMA PushOnProcess ==
  ASSUME NEW s \in Seq(SFrames), NEW x \in SFrames, x.f # "process"
  PROVE  OnProcess(<<x>> \o s) <=> OnProcess(s)
<1> DEFINE t == <<x>> \o s
           n == Len(s)
<1>1. /\ Len(t) = n + 1 /\ t # <<>> /\ n \in Nat /\ t[1] = x
      /\ \A k \in 2 .. n + 1 : t[k] = s[k - 1]
  BY PushFacts
<1>2. CASE s = <<>>
  <2>1. n = 0
    BY <1>2
  <2> HIDE DEF t
  <2> QED BY <1>1, <1>2, <2>1 DEF OnProcess
<1>3. CASE s # <<>>
  <2>1. n \in Nat \ {0}
    BY <1>3, PopFacts
  <2> HIDE DEF t, n
  <2>2. n + 1 \in 2 .. n + 1 /\ (n + 1) - 1 = n
    BY <2>1
  <2>3. t[n + 1] = s[n]
    BY <1>1, <2>2
  <2> QED BY <1>1, <1>3, <2>3 DEF OnProcess, t, n
<1> QED BY <1>2, <1>3 DEF t

LEMMA PopOnProcess ==
  ASSUME NEW s \in Seq(SFrames), s # <<>>, s[1].f # "process"
  PROVE  OnProcess(Tail(s)) <=> OnProcess(s)
<1> DEFINE t == Tail(s)
           n == Len(s)
<1>1. /\ t \in Seq(SFrames) /\ Len(t) = n - 1 /\ n \in Nat \ {0}
      /\ \A k \in 1 .. n - 1 : t[k] = s[k + 1]
  BY PopFacts
<1> HIDE DEF t, n
<1>2. CASE n = 1
  <2>1. t = <<>>
    BY <1>1, <1>2
  <2> QED BY <1>2, <2>1 DEF OnProcess, n, t
<1>3. CASE n # 1
  <2>1. n - 1 \in 1 .. n - 1 /\ (n - 1) + 1 = n
    BY <1>1, <1>3
  <2>2. t[n - 1] = s[n]
    BY <1>1, <2>1
  <2>3. t # <<>>
    <3>1. DOMAIN t = 1 .. n - 1
      BY <1>1
    <3> QED BY <2>1, <3>1
  <2> QED BY <1>1, <2>2, <2>3 DEF OnProcess, n, t
<1> QED BY <1>2, <1>3

\* What the stack says of the list.
LEMMA StackFacts ==
  ASSUME SqliteInv
  PROVE  /\ sstack \in Seq(SFrames) /\ DOMAIN sstack = 1 .. Len(sstack) /\ Len(sstack) \in Nat
         /\ \A k \in 1 .. Len(sstack) :
              /\ sstack[k] \in SFrames /\ sstack[k].q \in Statements
              /\ sstack[k].f \in {"run", "called", "process", "free"}
              /\ sstack[k].f = "free" => sstack[k].m \in Modules /\ sstack[k].at \in Nat
         /\ \A f : Sqlite!In(f) <=> sstack # <<>> /\ sstack[1].f = f
         /\ Sqlite!Processing => squeue # <<>>
<1>1. sstack \in Seq(SFrames) /\ DOMAIN sstack = 1 .. Len(sstack) /\ Len(sstack) \in Nat
  BY DEF SqliteInv, STyped
<1>2. \A k \in 1 .. Len(sstack) : sstack[k] \in SFrames
  BY <1>1
<1>3. \A x \in SFrames : /\ x.q \in Statements /\ x.f \in {"run", "called", "process", "free"}
                         /\ x.f = "free" => x.m \in Modules /\ x.at \in Nat
  BY DEF SFrames
<1>4. \A f : Sqlite!In(f) <=> sstack # <<>> /\ sstack[1].f = f
  BY <1>1 DEF Sqlite!In
<1>5. ASSUME Sqlite!Processing
      PROVE  squeue # <<>>
  <2>1. sstack # <<>> /\ sstack[Len(sstack)].f = "process"
    BY <1>5, ProcessingIs DEF OnProcess
  <2>2. Len(sstack) \in DOMAIN sstack
    <3>1. Len(sstack) \in Nat \ {0}
      BY <1>1, <2>1, PopFacts
    <3> QED BY <1>1, <3>1
  <2> QED BY <2>1, <2>2 DEF SqliteInv, SProcess
<1> QED BY <1>1, <1>2, <1>3, <1>4, <1>5

\* What the list says of its queries.
LEMMA QueueFacts ==
  ASSUME SqliteInv, Sqlite!QueueAssumption
  PROVE  /\ SList(squeue) /\ squeue \in Seq(Statements) /\ DOMAIN squeue = 1 .. Len(squeue)
             /\ Len(squeue) \in Nat
         /\ \A i \in 1 .. Len(squeue) :
              /\ squeue[i] \in Statements /\ sowner[squeue[i]] # NULL /\ sowner[squeue[i]] \notin sgone
              /\ \A m \in Modules : sidentifier[squeue[i]] = m <=> sowner[squeue[i]] = m
<1>1. SList(squeue) /\ sgone \subseteq Modules
  BY DEF SqliteInv, STyped
<1>2. /\ squeue \in Seq(Statements) /\ DOMAIN squeue = 1 .. Len(squeue) /\ Len(squeue) \in Nat
      /\ \A i \in 1 .. Len(squeue) : squeue[i] \in Statements
  BY <1>1, ListFacts
<1> QED BY <1>1, <1>2 DEF SqliteInv, SKinds, Sqlite!QueueAssumption
-----------------------------------------------------------------------------
(* Asking. *)

\* What sqliteasyncqueryf() records of the new query q, and what it leaves alone.
Recorded(q, m) ==
  /\ sowner[q] = NULL /\ m \notin sgone /\ ~Sqlite!In("run")
  /\ sowner' = [sowner EXCEPT ![q] = m]
  /\ \/ m \in Modules /\ sidentifier' = [sidentifier EXCEPT ![q] = m]
     \/ m = NOBODY /\ sidentifier' = [sidentifier EXCEPT ![q] = ANON]
  /\ sgone' = sgone

LEMMA AsksRecords ==
  ASSUME Sqlite!QueueAssumption, NEW q \in Statements, NEW kind \in Sqlite!Kinds, Sqlite!Asks(q, kind)
  PROVE  kind[2] \in Modules \cup {NOBODY} /\ Recorded(q, kind[2])
<1>1. kind \in {<<m, m>> : m \in Modules} \cup {<<ANON, NOBODY>>}
  BY DEF Sqlite!Kinds
<1>2. \/ kind[2] \in Modules /\ kind[1] = kind[2]
      \/ kind[2] = NOBODY /\ kind[1] = ANON
  BY <1>1
<1>3. /\ sowner[q] = NULL /\ ~Sqlite!In("run") /\ sgone' = sgone /\ kind[2] \notin sgone
      /\ sidentifier' = [sidentifier EXCEPT ![q] = kind[1]]
      /\ sowner' = [sowner EXCEPT ![q] = kind[2]]
  BY DEF Sqlite!Asks
<1> QED BY <1>2, <1>3 DEF Recorded

\* What is known of the queries in the list, and of those on the stack, stays true.
LEMMA RecordedKeeps ==
  ASSUME SqliteInv, Sqlite!QueueAssumption, NEW q \in Statements, NEW m \in Modules \cup {NOBODY},
           Recorded(q, m)
  PROVE  /\ sowner' \in [Statements -> Modules \cup {NULL, NOBODY}]
             /\ sidentifier' \in [Statements -> Modules \cup {ANON}]
         /\ sowner'[q] = m /\ m # NULL /\ m \notin sgone
         /\ \/ m \in Modules /\ sidentifier'[q] = m
            \/ m = NOBODY /\ sidentifier'[q] = ANON
         /\ \A r \in Statements : r # q => sowner'[r] = sowner[r] /\ sidentifier'[r] = sidentifier[r]
         /\ \A i \in 1 .. Len(squeue) : /\ squeue[i] # q /\ sowner'[squeue[i]] = sowner[squeue[i]]
                                       /\ sidentifier'[squeue[i]] = sidentifier[squeue[i]]
         /\ \A k \in 1 .. Len(sstack) : sstack[k].q # q /\ sowner'[sstack[k].q] = sowner[sstack[k].q]
<1>1. sowner \in [Statements -> Modules \cup {NULL, NOBODY}]
        /\ sidentifier \in [Statements -> Modules \cup {ANON}]
  BY DEF SqliteInv, STyped
<1>2. \A i \in 1 .. Len(squeue) : squeue[i] \in Statements /\ sowner[squeue[i]] # NULL
  BY QueueFacts
<1>3. \A k \in 1 .. Len(sstack) : sstack[k].q \in Statements /\ sowner[sstack[k].q] # NULL
  BY StackFacts DEF SqliteInv, SAsked
<1>4. m # NULL
  BY DEF Sqlite!QueueAssumption
<1>5. /\ sowner[q] = NULL /\ m \notin sgone /\ sowner' = [sowner EXCEPT ![q] = m]
      /\ \/ m \in Modules /\ sidentifier' = [sidentifier EXCEPT ![q] = m]
         \/ m = NOBODY /\ sidentifier' = [sidentifier EXCEPT ![q] = ANON]
  BY DEF Recorded
<1>6. sowner' \in [Statements -> Modules \cup {NULL, NOBODY}]
        /\ sidentifier' \in [Statements -> Modules \cup {ANON}]
  BY <1>1, <1>5
<1>7. \A r \in Statements : r # q => sowner'[r] = sowner[r] /\ sidentifier'[r] = sidentifier[r]
  BY <1>1, <1>5
<1>8. sowner'[q] = m
  BY <1>1, <1>5
<1>9. \/ m \in Modules /\ sidentifier'[q] = m
      \/ m = NOBODY /\ sidentifier'[q] = ANON
  <2>1. CASE m \in Modules /\ sidentifier' = [sidentifier EXCEPT ![q] = m]
    BY <1>1, <2>1
  <2>2. CASE m = NOBODY /\ sidentifier' = [sidentifier EXCEPT ![q] = ANON]
    BY <1>1, <2>2
  <2> QED BY <1>5, <2>1, <2>2
<1> QED BY <1>2, <1>3, <1>4, <1>5, <1>6, <1>7, <1>8, <1>9

\* A frame for the new query: it is run, or its callback is called.
LEMMA NewFrame ==
  ASSUME SqliteInv, Sqlite!QueueAssumption, NEW q \in Statements, NEW m \in Modules \cup {NOBODY},
           Recorded(q, m),
         NEW f \in {"run", "called"}, f = "run" => squeue = <<>>,
         sstack' = <<Sqlite!Frame(f, q, NULL)>> \o sstack,
         scalls' \in [Statements -> Seq(Statements \cup {NULL})],
         UNCHANGED <<squeue, tail>>
  PROVE  SqliteInv' /\ (Sqlite!Processing' <=> Sqlite!Processing) /\ (Sqlite!In("run")' <=> f = "run")
             /\ Head(sstack').q = q
<1> DEFINE x == Sqlite!Frame(f, q, NULL)
           n == Len(sstack)
<1>1. x \in SFrames /\ x.f = f /\ x.q = q
  BY DEF Sqlite!Frame, SFrames
<1>2. sstack \in Seq(SFrames) /\ n \in Nat
  BY StackFacts
<1>3. /\ \A k \in 1 .. n : sstack[k].f \in {"run", "called", "process", "free"}
      /\ \A g : Sqlite!In(g) <=> sstack # <<>> /\ sstack[1].f = g
  BY StackFacts
<1> HIDE DEF x
<1>4. /\ sstack' \in Seq(SFrames) /\ Len(sstack') = n + 1 /\ sstack' # <<>>
      /\ DOMAIN sstack' = 1 .. n + 1 /\ sstack'[1] = x /\ Head(sstack') = x
      /\ \A k \in 2 .. n + 1 : k - 1 \in 1 .. n /\ sstack'[k] = sstack[k - 1]
  <2>1. sstack' = <<x>> \o sstack
    BY DEF x
  <2> QED BY <1>1, <1>2, <2>1, PushFacts
<1> HIDE DEF n
<1>5. \A k \in 1 .. n + 1 : k = 1 \/ k \in 2 .. n + 1
  BY <1>2
<1>6. /\ sowner' \in [Statements -> Modules \cup {NULL, NOBODY}]
           /\ sidentifier' \in [Statements -> Modules \cup {ANON}]
      /\ sowner'[q] = m /\ m # NULL /\ m \notin sgone
  BY RecordedKeeps
<1>7. \A i \in 1 .. Len(squeue) : /\ squeue[i] # q /\ sowner'[squeue[i]] = sowner[squeue[i]]
                                 /\ sidentifier'[squeue[i]] = sidentifier[squeue[i]]
  BY RecordedKeeps
<1>8. \A k \in 1 .. n : sstack[k].q # q /\ sowner'[sstack[k].q] = sowner[sstack[k].q]
  BY RecordedKeeps DEF n
<1>9. sgone' = sgone /\ ~Sqlite!In("run") /\ squeue' = squeue /\ tail' = tail
  BY DEF Recorded
<1>10. Sqlite!Processing' <=> Sqlite!Processing
  <2>1. OnProcess(<<x>> \o sstack) <=> OnProcess(sstack)
    BY <1>1, <1>2, PushOnProcess
  <2>2. sstack' = <<x>> \o sstack
    BY DEF x
  <2> QED BY <2>1, <2>2, ProcessingIs
<1>11. \A k \in 1 .. n : sstack[k].f # "run"
  <2>1. \A k \in 1 .. n : sstack[k].f = "run" => k = 1
    BY StackFacts DEF SqliteInv, SRun, n
  <2>2. 1 \in 1 .. n => sstack # <<>>
    BY StackFacts DEF n
  <2> QED BY <1>3, <1>9, <2>1, <2>2
<1>12. DOMAIN squeue = 1 .. Len(squeue) /\ DOMAIN sstack = 1 .. n
  BY QueueFacts, StackFacts DEF n
<1>13. STyped'
  BY <1>4, <1>6, <1>9 DEF SqliteInv, STyped, SList
<1>14. STail'
  BY <1>9 DEF SqliteInv, STail
<1>15. SKinds'
  BY <1>7, <1>9, <1>12 DEF SqliteInv, SKinds
<1>16. SAsked'
  <2>1. \A k \in 1 .. n : sowner[sstack[k].q] # NULL
    BY <1>12 DEF SqliteInv, SAsked
  <2>2. \A k \in 1 .. n : sowner'[sstack[k].q] # NULL
    BY <1>8, <2>1
  <2>3. sowner'[x.q] # NULL
    BY <1>1, <1>6
  <2>4. \A k \in 1 .. n + 1 : sowner'[sstack'[k].q] # NULL
    BY <1>4, <1>5, <2>2, <2>3
  <2> QED BY <1>4, <2>4 DEF SAsked
<1>17. SRun'
  BY <1>1, <1>4, <1>5, <1>6, <1>9, <1>11 DEF SRun
<1>18. SProcess'
  <2> SUFFICES ASSUME NEW k \in 1 .. n + 1, sstack'[k].f = "process"
               PROVE  k = n + 1 /\ squeue # <<>> /\ squeue[1] = sstack'[k].q
    BY <1>4, <1>9 DEF SProcess
  <2>1. k - 1 \in 1 .. n /\ sstack'[k] = sstack[k - 1]
    BY <1>1, <1>4, <1>5
  <2>2. k - 1 = n /\ squeue # <<>> /\ squeue[1] = sstack[k - 1].q
    BY <1>12, <2>1 DEF SqliteInv, SProcess, n
  <2>3. k = n + 1
    BY <1>2, <2>2
  <2> QED BY <2>1, <2>2, <2>3
<1>19. SFree'
  <2> SUFFICES ASSUME NEW k \in 1 .. n + 1, sstack'[k].f = "free"
               PROVE  /\ sstack'[k].m \notin sgone
                      /\ sstack'[k].at <= Len(squeue)
                      /\ \A j \in 1 .. sstack'[k].at : sidentifier'[squeue[j]] # sstack'[k].m
                      /\ Sqlite!Processing => sstack'[k].at >= 1
    BY <1>4, <1>9, <1>10 DEF SFree
  <2>1. k - 1 \in 1 .. n /\ sstack'[k] = sstack[k - 1]
    BY <1>1, <1>4, <1>5
  <2> DEFINE y == sstack[k - 1]
  <2>2. /\ y.m \notin sgone /\ y.at <= Len(squeue) /\ y.at \in Nat
        /\ \A j \in 1 .. y.at : sidentifier[squeue[j]] # y.m
        /\ Sqlite!Processing => y.at >= 1
    BY <1>12, <2>1, StackFacts DEF SqliteInv, SFree, n
  <2>3. \A j \in 1 .. y.at : j \in 1 .. Len(squeue)
    BY <2>2, QueueFacts
  <2> QED BY <1>7, <2>1, <2>2, <2>3
<1>20. SOneFree'
  <2> SUFFICES ASSUME NEW j \in 1 .. n + 1, NEW k \in 1 .. n + 1, sstack'[j].f = "free", sstack'[k].f = "free"
               PROVE  j = k
    BY <1>4 DEF SOneFree
  <2>1. /\ j - 1 \in 1 .. n /\ sstack'[j] = sstack[j - 1]
        /\ k - 1 \in 1 .. n /\ sstack'[k] = sstack[k - 1]
    BY <1>1, <1>4, <1>5
  <2>2. j - 1 = k - 1
    BY <1>12, <2>1 DEF SqliteInv, SOneFree
  <2> QED BY <1>2, <2>2
<1>21. Sqlite!In("run")' <=> f = "run"
  BY <1>1, <1>4 DEF Sqlite!In
<1> QED BY <1>1, <1>4, <1>10, <1>13, <1>14, <1>15, <1>16, <1>17, <1>18, <1>19, <1>20, <1>21 DEF SqliteInv

\* The contract's side of it.
LEMMA RecordedOwns ==
  ASSUME NEW q \in Statements, NEW m \in Modules \cup {NOBODY}, Recorded(q, m)
  PROVE  Sqlite!Contract!Own(q, m) /\ sgone' = sgone
  BY DEF Recorded, Sqlite!Contract!Own

LEMMA AskRefusedStep ==
  ASSUME SqliteInv, Sqlite!QueueAssumption, NEW q \in Statements, NEW kind \in Sqlite!Kinds,
         Sqlite!AskRefused(q, kind)
  PROVE  SqliteInv' /\ Sqlite!Contract!Refuse(q, kind[2])
<1> DEFINE m == kind[2]
<1>1. m \in Modules \cup {NOBODY} /\ Recorded(q, m)
  BY AsksRecords DEF Sqlite!AskRefused
<1> HIDE DEF m
<1>2. squeue' = squeue /\ tail' = tail /\ scalls \in [Statements -> Seq(Statements \cup {NULL})]
  BY DEF Sqlite!AskRefused, SqliteInv, STyped
<1>3. Sqlite!Contract!Own(q, m) /\ sgone' = sgone
  BY <1>1, RecordedOwns
<1>4. CASE m = NOBODY
  <2>1. UNCHANGED <<scalls, sstack>>
    BY <1>4 DEF Sqlite!AskRefused, m
  <2>2. scalls' = [scalls EXCEPT ![q] = IF m = NOBODY THEN @ ELSE Append(@, NULL)]
    BY <1>2, <1>4, <2>1
  <2>3. Sqlite!Waiting' = Sqlite!Waiting
    BY <1>2, <2>1 DEF Sqlite!Waiting, Sqlite!Listed, Sqlite!Processing, Sqlite!In
  <2>4. /\ sowner' \in [Statements -> Modules \cup {NULL, NOBODY}]
             /\ sidentifier' \in [Statements -> Modules \cup {ANON}]
        /\ \A i \in 1 .. Len(squeue) : /\ sowner'[squeue[i]] = sowner[squeue[i]]
                                      /\ sidentifier'[squeue[i]] = sidentifier[squeue[i]]
        /\ \A k \in 1 .. Len(sstack) : sowner'[sstack[k].q] = sowner[sstack[k].q]
    BY <1>1, RecordedKeeps
  <2>5. DOMAIN squeue = 1 .. Len(squeue) /\ DOMAIN sstack = 1 .. Len(sstack)
    BY QueueFacts, StackFacts
  <2>6. STyped' /\ STail'
    BY <1>2, <1>3, <2>1, <2>4 DEF SqliteInv, STyped, SList, STail
  <2>7. SKinds'
    BY <1>2, <1>3, <2>4, <2>5 DEF SqliteInv, SKinds
  <2>8. SAsked'
    BY <2>1, <2>4, <2>5 DEF SqliteInv, SAsked
  <2>9. SRun'
    BY <1>2, <1>3, <2>1, <2>4, <2>5 DEF SqliteInv, SRun
  <2>10. SProcess' /\ SOneFree'
    BY <1>2, <2>1 DEF SqliteInv, SProcess, SOneFree
  <2>11. SFree'
    <3>1. Sqlite!Processing' <=> Sqlite!Processing
      BY <2>1 DEF Sqlite!Processing
    <3> SUFFICES ASSUME NEW k \in 1 .. Len(sstack), sstack[k].f = "free"
                 PROVE  /\ sstack[k].m \notin sgone
                        /\ sstack[k].at <= Len(squeue)
                        /\ \A j \in 1 .. sstack[k].at : sidentifier'[squeue[j]] # sstack[k].m
                        /\ Sqlite!Processing => sstack[k].at >= 1
      BY <1>2, <1>3, <2>1, <2>5, <3>1 DEF SFree
    <3> DEFINE y == sstack[k]
    <3>2. /\ y.m \notin sgone /\ y.at <= Len(squeue) /\ y.at \in Nat
          /\ \A j \in 1 .. y.at : sidentifier[squeue[j]] # y.m
          /\ Sqlite!Processing => y.at >= 1
      BY <2>5, StackFacts DEF SqliteInv, SFree
    <3>3. \A j \in 1 .. y.at : j \in 1 .. Len(squeue)
      BY <3>2, QueueFacts
    <3> QED BY <2>4, <3>2, <3>3
  <2>12. Sqlite!Contract!Refuse(q, m)
    BY <1>3, <2>2, <2>3 DEF Sqlite!Contract!Refuse
  <2> QED BY <2>6, <2>7, <2>8, <2>9, <2>10, <2>11, <2>12 DEF SqliteInv, m
<1>5. CASE m # NOBODY
  <2>1. /\ scalls' = [scalls EXCEPT ![q] = Append(@, NULL)]
        /\ sstack' = <<Sqlite!Frame("called", q, NULL)>> \o sstack
    BY <1>5 DEF Sqlite!AskRefused, m
  <2>2. scalls' \in [Statements -> Seq(Statements \cup {NULL})]
    <3>1. Append(scalls[q], NULL) \in Seq(Statements \cup {NULL})
      <4>1. scalls[q] \in Seq(Statements \cup {NULL})
        BY <1>2
      <4> QED BY <4>1, AppendFacts
    <3> QED BY <1>2, <2>1, <3>1
  <2>3. SqliteInv' /\ (Sqlite!Processing' <=> Sqlite!Processing) /\ ~Sqlite!In("run")'
    BY <1>1, <1>2, <2>1, <2>2, NewFrame
  <2>4. ~Sqlite!In("run")
    BY <1>1 DEF Recorded
  <2>5. Sqlite!Waiting' = Sqlite!Waiting
    BY <1>2, <2>3, <2>4 DEF Sqlite!Waiting, Sqlite!Listed
  <2>6. scalls' = [scalls EXCEPT ![q] = IF m = NOBODY THEN @ ELSE Append(@, NULL)]
    BY <1>5, <2>1
  <2> QED BY <1>3, <2>3, <2>5, <2>6 DEF Sqlite!Contract!Refuse, m
<1> QED BY <1>4, <1>5

LEMMA AskRunStep ==
  ASSUME SqliteInv, Sqlite!QueueAssumption, NEW q \in Statements, NEW kind \in Sqlite!Kinds,
         Sqlite!AskRun(q, kind)
  PROVE  SqliteInv' /\ Sqlite!Contract!Ask(q, kind[2])
<1> DEFINE m == kind[2]
<1>1. m \in Modules \cup {NOBODY} /\ Recorded(q, m)
  BY AsksRecords DEF Sqlite!AskRun
<1> HIDE DEF m
<1>2. /\ squeue = <<>> /\ UNCHANGED <<squeue, tail, scalls>> /\ sstack' = <<Sqlite!Frame("run", q,
         NULL)>> \o sstack
      /\ scalls' \in [Statements -> Seq(Statements \cup {NULL})]
  BY DEF Sqlite!AskRun, SqliteInv, STyped
<1>3. Sqlite!Contract!Own(q, m) /\ sgone' = sgone
  BY <1>1, RecordedOwns
<1>4. SqliteInv' /\ (Sqlite!Processing' <=> Sqlite!Processing) /\ Sqlite!In("run")' /\ Head(sstack').q = q
  BY <1>1, <1>2, NewFrame
<1>5. ~Sqlite!In("run")
  BY <1>1 DEF Recorded
<1>6. Sqlite!Waiting' = Append(Sqlite!Waiting, q)
  BY <1>2, <1>4, <1>5 DEF Sqlite!Waiting, Sqlite!Listed
<1> QED BY <1>2, <1>3, <1>4, <1>6 DEF Sqlite!Contract!Ask, m

\* pushqueue() appends: the tail is the last query of the list.
LEMMA PushAppends ==
  ASSUME SqliteInv, Sqlite!QueueAssumption, NEW q
  PROVE  Sqlite!Pushed(q) = Append(squeue, q)
<1>1. /\ squeue \in Seq(Statements) /\ DOMAIN squeue = 1 .. Len(squeue) /\ Len(squeue) \in Nat
      /\ \A i \in 1 .. Len(squeue) : squeue[i] \in Statements
      /\ \A i, j \in 1 .. Len(squeue) : squeue[i] = squeue[j] => i = j
  BY QueueFacts, ListFacts
<1>2. CASE squeue = <<>>
  <2>1. tail = NULL
    BY <1>2 DEF SqliteInv, STail
  <2>2. Append(<<>>, q) = <<q>>
    OBVIOUS
  <2> QED BY <1>2, <2>1, <2>2 DEF Sqlite!Pushed
<1>3. CASE squeue # <<>>
  <2>1. tail = squeue[Len(squeue)] /\ Len(squeue) \in 1 .. Len(squeue)
    BY <1>1, <1>3 DEF SqliteInv, STail
  <2>2. tail # NULL
    BY <1>1, <2>1 DEF Sqlite!QueueAssumption
  <2>3. Sqlite!Contains(squeue, tail)
    BY <1>1, <2>1 DEF Sqlite!Contains
  <2>4. (CHOOSE i \in DOMAIN squeue : squeue[i] = tail) = Len(squeue)
    BY <1>1, <2>1
  <2>5. SubSeq(squeue, 1, Len(squeue)) = squeue
    BY <1>1
  <2> QED BY <2>2, <2>3, <2>4, <2>5 DEF Sqlite!Pushed
<1> QED BY <1>2, <1>3

LEMMA AskQueuedStep ==
  ASSUME SqliteInv, Sqlite!QueueAssumption, NEW q \in Statements, NEW kind \in Sqlite!Kinds,
         Sqlite!AskQueued(q, kind)
  PROVE  SqliteInv' /\ Sqlite!Contract!Ask(q, kind[2])
<1> DEFINE m == kind[2]
           n == Len(squeue)
<1>1. m \in Modules \cup {NOBODY} /\ Recorded(q, m)
  BY AsksRecords DEF Sqlite!AskQueued
<1> HIDE DEF m
<1>2. tail' = q /\ UNCHANGED <<scalls, sstack>> /\ squeue' = Append(squeue, q)
  BY PushAppends DEF Sqlite!AskQueued
<1>3. Sqlite!Contract!Own(q, m) /\ sgone' = sgone
  BY <1>1, RecordedOwns
<1>4. /\ sowner' \in [Statements -> Modules \cup {NULL, NOBODY}]
           /\ sidentifier' \in [Statements -> Modules \cup {ANON}]
      /\ sowner'[q] = m /\ m # NULL /\ m \notin sgone
      /\ \/ m \in Modules /\ sidentifier'[q] = m
         \/ m = NOBODY /\ sidentifier'[q] = ANON
      /\ \A i \in 1 .. n : /\ squeue[i] # q /\ sowner'[squeue[i]] = sowner[squeue[i]]
                           /\ sidentifier'[squeue[i]] = sidentifier[squeue[i]]
      /\ \A k \in 1 .. Len(sstack) : sowner'[sstack[k].q] = sowner[sstack[k].q]
  BY <1>1, RecordedKeeps
<1>5. SList(squeue) /\ squeue \in Seq(Statements) /\ DOMAIN squeue = 1 .. n /\ n \in Nat
  BY QueueFacts
<1>6. SList(squeue')
  <2>1. SList(Append(squeue, q))
    BY <1>4, <1>5, ListAppended
  <2> QED BY <1>2, <2>1
<1>7. /\ DOMAIN squeue' = 1 .. n + 1 /\ Len(squeue') = n + 1 /\ squeue'[n + 1] = q
      /\ \A i \in 1 .. n : squeue'[i] = squeue[i]
  BY <1>2, <1>5, AppendFacts
<1>8. DOMAIN sstack = 1 .. Len(sstack) /\ (Sqlite!Processing' <=> Sqlite!Processing)
        /\ (Sqlite!In("run")' <=> Sqlite!In("run"))
  BY <1>2, StackFacts DEF Sqlite!Processing, Sqlite!In
<1>9. ~Sqlite!In("run")
  BY <1>1 DEF Recorded
<1> HIDE DEF n
<1>10. \A i \in 1 .. n + 1 : i \in 1 .. n \/ i = n + 1
  BY <1>5
<1>11. squeue' # <<>>
  <2>1. n + 1 \in DOMAIN squeue'
    BY <1>5, <1>7
  <2> QED BY <2>1
<1>12. STyped'
  BY <1>2, <1>3, <1>4, <1>6 DEF SqliteInv, STyped
<1>13. STail'
  BY <1>2, <1>7, <1>11 DEF STail
<1>14. SKinds'
  BY <1>3, <1>4, <1>5, <1>7, <1>10 DEF SqliteInv, SKinds
<1>15. SAsked'
  BY <1>2, <1>4, <1>8 DEF SqliteInv, SAsked
<1>16. \A k \in DOMAIN sstack : sstack[k].f # "run"
  <2>1. \A k \in DOMAIN sstack : sstack[k].f = "run" => k = 1
    BY DEF SqliteInv, SRun
  <2>2. 1 \in DOMAIN sstack => sstack # <<>>
    OBVIOUS
  <2>3. Sqlite!In("run") <=> sstack # <<>> /\ sstack[1].f = "run"
    BY StackFacts
  <2> QED BY <1>9, <2>1, <2>2, <2>3
<1>17. SRun'
  BY <1>2, <1>16 DEF SRun
<1>18. SProcess'
  <2>1. squeue # <<>> => 1 \in 1 .. n
    BY <1>5 DEF n
  <2> QED BY <1>2, <1>7, <1>11, <2>1 DEF SqliteInv, SProcess
<1>19. SFree'
  <2> SUFFICES ASSUME NEW k \in 1 .. Len(sstack), sstack[k].f = "free"
               PROVE  /\ sstack[k].m \notin sgone
                      /\ sstack[k].at <= n + 1
                      /\ \A j \in 1 .. sstack[k].at : sidentifier'[squeue'[j]] # sstack[k].m
                      /\ Sqlite!Processing => sstack[k].at >= 1
    BY <1>2, <1>3, <1>7, <1>8 DEF SFree
  <2> DEFINE y == sstack[k]
  <2>1. /\ y.m \notin sgone /\ y.at <= n /\ y.at \in Nat
        /\ \A j \in 1 .. y.at : sidentifier[squeue[j]] # y.m
        /\ Sqlite!Processing => y.at >= 1
    BY <1>8, StackFacts DEF SqliteInv, SFree, n
  <2>2. \A j \in 1 .. y.at : j \in 1 .. n
    BY <1>5, <2>1
  <2>3. y.at <= n + 1
    BY <1>5, <2>1
  <2> QED BY <1>4, <1>7, <2>1, <2>2, <2>3
<1>20. SOneFree'
  BY <1>2 DEF SqliteInv, SOneFree
<1>21. Sqlite!Waiting' = Append(Sqlite!Waiting, q)
  <2>1. CASE Sqlite!Processing
    <3>1. squeue # <<>>
      BY <2>1, StackFacts
    <3>2. Tail(Append(squeue, q)) = Append(Tail(squeue), q)
      BY <1>5, <3>1, TailOfAppended
    <3> QED BY <1>2, <1>8, <1>9, <2>1, <3>2 DEF Sqlite!Waiting, Sqlite!Listed
  <2>2. CASE ~Sqlite!Processing
    BY <1>2, <1>8, <1>9, <2>2 DEF Sqlite!Waiting, Sqlite!Listed
  <2> QED BY <2>1, <2>2
<1>22. Sqlite!Contract!Ask(q, m)
  BY <1>2, <1>3, <1>21 DEF Sqlite!Contract!Ask
<1> QED BY <1>12, <1>13, <1>14, <1>15, <1>17, <1>18, <1>19, <1>20, <1>22 DEF SqliteInv, m
-----------------------------------------------------------------------------
(* Answers. *)

\* A callback is called with a result.
LEMMA CalledTyped ==
  ASSUME SqliteInv, NEW q \in Statements, Sqlite!Called(q)
  PROVE  scalls' \in [Statements -> Seq(Statements \cup {NULL})]
<1>1. scalls \in [Statements -> Seq(Statements \cup {NULL})]
  BY DEF SqliteInv, STyped
<1>2. Append(scalls[q], q) \in Seq(Statements \cup {NULL})
  <2>1. scalls[q] \in Seq(Statements \cup {NULL}) /\ q \in Statements \cup {NULL}
    BY <1>1
  <2> QED BY <2>1, AppendFacts
<1>3. CASE sowner[q] = NOBODY
  BY <1>1, <1>3 DEF Sqlite!Called
<1>4. CASE sowner[q] # NOBODY
  BY <1>1, <1>2, <1>4 DEF Sqlite!Called
<1> QED BY <1>3, <1>4

\* The frame that ran a query, or whose callback returns, goes; the callback's may take its place.
LEMMA TopFrame ==
  ASSUME SqliteInv, sstack # <<>>, sstack[1].f \in {"run", "called"},
         sstack' \in {Tail(sstack), <<Sqlite!Frame("called", sstack[1].q, NULL)>> \o Tail(sstack)},
         scalls' \in [Statements -> Seq(Statements \cup {NULL})],
         UNCHANGED <<squeue, tail, sidentifier, sowner, sgone>>
  PROVE  SqliteInv' /\ (Sqlite!Processing' <=> Sqlite!Processing) /\ ~Sqlite!In("run")'
<1> DEFINE x == Sqlite!Frame("called", sstack[1].q, NULL)
           t == Tail(sstack)
           n == Len(sstack)
<1>1. /\ sstack \in Seq(SFrames) /\ DOMAIN sstack = 1 .. n
      /\ \A k \in 1 .. n : sstack[k].q \in Statements
  BY StackFacts
<1>2. /\ t \in Seq(SFrames) /\ Len(t) = n - 1 /\ n \in Nat \ {0} /\ DOMAIN t = 1 .. n - 1
      /\ \A k \in 1 .. n - 1 : k + 1 \in 1 .. n /\ t[k] = sstack[k + 1]
  BY <1>1, PopFacts
<1>3. x \in SFrames /\ x.f = "called" /\ x.q = sstack[1].q
  BY <1>1, <1>2 DEF Sqlite!Frame, SFrames
<1>4. OnProcess(t) <=> OnProcess(sstack)
  BY <1>1, PopOnProcess
<1>5. OnProcess(<<x>> \o t) <=> OnProcess(t)
  <2> HIDE DEF x, t
  <2> QED BY <1>2, <1>3, PushOnProcess
<1>6. sstack' = t \/ sstack' = <<x>> \o t
  OBVIOUS
<1> HIDE DEF x, t, n
<1>7. Sqlite!Processing' <=> Sqlite!Processing
  BY <1>4, <1>5, <1>6, ProcessingIs
<1> DEFINE d == n - Len(sstack')
<1>8. /\ d \in {0, 1} /\ sstack' \in Seq(SFrames) /\ DOMAIN sstack' = 1 .. n - d /\ Len(sstack') = n - d
      /\ \A k \in 1 .. n - d : \/ k + d \in 1 .. n /\ k + d # 1 /\ sstack'[k] = sstack[k + d]
                               \/ k = 1 /\ d = 0 /\ sstack'[k].f = "called" /\ sstack'[k].q = sstack[1].q
  <2>1. CASE sstack' = t
    <3>1. d = 1
      BY <1>2, <2>1
    <3> HIDE DEF d
    <3>2. \A k \in 1 .. n - 1 : k + 1 \in 1 .. n /\ k + 1 # 1 /\ sstack'[k] = sstack[k + 1]
      BY <1>2, <2>1
    <3> QED BY <1>2, <2>1, <3>1, <3>2
  <2>2. CASE sstack' = <<x>> \o t
    <3>1. /\ sstack' \in Seq(SFrames) /\ Len(sstack') = Len(t) + 1 /\ DOMAIN sstack' = 1 .. Len(t) + 1
          /\ sstack'[1] = x /\ \A k \in 2 .. Len(t) + 1 : k - 1 \in 1 .. Len(t) /\ sstack'[k] = t[k - 1]
      BY <1>2, <1>3, <2>2, PushFacts
    <3>2. Len(t) + 1 = n
      BY <1>2
    <3>3. d = 0
      BY <1>2, <3>1, <3>2
    <3> HIDE DEF d
    <3>4. \A k \in 2 .. n : k \in 1 .. n /\ k # 1 /\ k - 1 \in 1 .. n - 1 /\ (k - 1) + 1 = k
      BY <1>2
    <3>5. \A k \in 2 .. n : sstack'[k] = sstack[k]
      BY <1>2, <3>1, <3>2, <3>4
    <3>6. \A k \in 1 .. n : k = 1 \/ k \in 2 .. n
      BY <1>2
    <3>7. n - d = n /\ \A k \in 1 .. n : k + d = k
      BY <1>2, <3>3
    <3>8. sstack' \in Seq(SFrames) /\ DOMAIN sstack' = 1 .. n /\ Len(sstack') = n
      BY <3>1, <3>2
    <3>9. \A k \in 1 .. n : \/ k + d \in 1 .. n /\ k + d # 1 /\ sstack'[k] = sstack[k + d]
                            \/ k = 1 /\ d = 0 /\ sstack'[k].f = "called" /\ sstack'[k].q = sstack[1].q
      BY <1>3, <3>1, <3>3, <3>4, <3>5, <3>6, <3>7
    <3> QED BY <3>3, <3>7, <3>8, <3>9
  <2> QED BY <1>6, <2>1, <2>2
<1> HIDE DEF d
<1>9. \A k \in 1 .. n : sstack[k].f = "run" => k = 1
  BY <1>1 DEF SqliteInv, SRun
<1>10. ~Sqlite!In("run")'
  <2> SUFFICES ASSUME sstack' # <<>>, Head(sstack').f = "run"
               PROVE  FALSE
    BY DEF Sqlite!In
  <2>1. Head(sstack') = sstack'[1] /\ 1 \in 1 .. n - d
    <3>1. Head(sstack') = sstack'[1] /\ Len(sstack') \in Nat \ {0}
      BY <1>8, PopFacts
    <3> QED BY <1>8, <3>1
  <2> QED BY <1>8, <1>9, <2>1
<1>11. STyped' /\ STail' /\ SKinds'
  BY <1>8 DEF SqliteInv, STyped, SList, STail, SKinds
<1>12. SAsked'
  <2>1. \A k \in 1 .. n : sowner[sstack[k].q] # NULL
    BY <1>1 DEF SqliteInv, SAsked
  <2>2. 1 \in 1 .. n
    BY <1>2
  <2>3. \A k \in 1 .. n - d : sowner[sstack'[k].q] # NULL
    BY <1>8, <2>1, <2>2
  <2> QED BY <1>8, <2>3 DEF SAsked
<1>13. SRun'
  <2>1. \A k \in 1 .. n - d : sstack'[k].f # "run"
    BY <1>8, <1>9
  <2> QED BY <1>8, <2>1 DEF SRun
<1>14. SProcess'
  <2> SUFFICES ASSUME NEW k \in 1 .. n - d, sstack'[k].f = "process"
               PROVE  k = n - d /\ squeue # <<>> /\ squeue[1] = sstack'[k].q
    BY <1>8 DEF SProcess
  <2>1. k + d \in 1 .. n /\ sstack'[k] = sstack[k + d]
    BY <1>8
  <2>2. k + d = n /\ squeue # <<>> /\ squeue[1] = sstack[k + d].q
    BY <1>1, <2>1 DEF SqliteInv, SProcess, n
  <2>3. k = n - d
    BY <1>2, <1>8, <2>2
  <2> QED BY <2>1, <2>2, <2>3
<1>15. SFree'
  <2> SUFFICES ASSUME NEW k \in 1 .. n - d, sstack'[k].f = "free"
               PROVE  /\ sstack'[k].m \notin sgone
                      /\ sstack'[k].at <= Len(squeue)
                      /\ \A j \in 1 .. sstack'[k].at : sidentifier[squeue[j]] # sstack'[k].m
                      /\ Sqlite!Processing => sstack'[k].at >= 1
    BY <1>7, <1>8 DEF SFree
  <2>1. k + d \in 1 .. n /\ sstack'[k] = sstack[k + d]
    BY <1>8
  <2> QED BY <1>1, <2>1 DEF SqliteInv, SFree
<1>16. SOneFree'
  <2> SUFFICES ASSUME NEW j \in 1 .. n - d, NEW k \in 1 .. n - d, sstack'[j].f = "free", sstack'[k].f = "free"
               PROVE  j = k
    BY <1>8 DEF SOneFree
  <2>1. /\ j + d \in 1 .. n /\ sstack'[j] = sstack[j + d]
        /\ k + d \in 1 .. n /\ sstack'[k] = sstack[k + d]
    BY <1>8
  <2>2. j + d = k + d
    BY <1>1, <2>1 DEF SqliteInv, SOneFree
  <2> QED BY <1>8, <2>2
<1> QED BY <1>7, <1>10, <1>11, <1>12, <1>13, <1>14, <1>15, <1>16 DEF SqliteInv

LEMMA RanStep ==
  ASSUME SqliteInv, Sqlite!QueueAssumption, Sqlite!Ran
  PROVE  SqliteInv' /\ Sqlite!Contract!Answer
<1> DEFINE q == sstack[1].q
<1>1. sstack # <<>> /\ sstack[1].f = "run" /\ Sqlite!In("run")
  BY StackFacts DEF Sqlite!Ran
<1>2. sstack \in Seq(SFrames) /\ 1 \in DOMAIN sstack /\ q \in Statements
  <2>1. /\ sstack \in Seq(SFrames) /\ DOMAIN sstack = 1 .. Len(sstack)
        /\ \A k \in 1 .. Len(sstack) : sstack[k].q \in Statements
    BY StackFacts
  <2>2. Len(sstack) \in Nat \ {0}
    BY <1>1, <2>1, PopFacts
  <2> QED BY <2>1, <2>2
<1>3. Head(sstack) = sstack[1]
  BY <1>1, <1>2, PopFacts
<1>4. squeue = <<>> /\ sowner[q] \notin sgone
  BY <1>1, <1>2 DEF SqliteInv, SRun
<1> HIDE DEF q
<1>5. /\ Sqlite!Called(q) /\ UNCHANGED <<squeue, tail, sidentifier, sowner, sgone>>
      /\ sstack' = (IF sowner[q] = NOBODY THEN <<>> ELSE <<Sqlite!Frame("called", q, NULL)>>) \o Tail(sstack)
  BY <1>3 DEF Sqlite!Ran, q
<1>6. \/ sstack' = Tail(sstack)
      \/ sstack' = <<Sqlite!Frame("called", q, NULL)>> \o Tail(sstack)
  <2>1. Tail(sstack) \in Seq(SFrames)
    BY <1>1, <1>2, PopFacts
  <2>2. <<>> \o Tail(sstack) = Tail(sstack)
    BY <2>1
  <2> QED BY <1>5, <2>2
<1>7. SqliteInv' /\ (Sqlite!Processing' <=> Sqlite!Processing) /\ ~Sqlite!In("run")'
  <2>1. scalls' \in [Statements -> Seq(Statements \cup {NULL})]
    BY <1>2, <1>5, CalledTyped
  <2> QED BY <1>1, <1>5, <1>6, <2>1, TopFrame DEF q
<1>8. ~Sqlite!Processing
  BY <1>4, StackFacts
<1>9. Sqlite!Waiting = Append(<<>>, q) /\ Sqlite!Waiting' = <<>>
  <2>1. Sqlite!Waiting = Append(<<>>, Head(sstack).q)
    BY <1>1, <1>4, <1>8 DEF Sqlite!Waiting, Sqlite!Listed
  <2>2. Sqlite!Waiting' = <<>>
    BY <1>4, <1>5, <1>7, <1>8 DEF Sqlite!Waiting, Sqlite!Listed
  <2> QED BY <1>3, <2>1, <2>2 DEF q
<1>10. Sqlite!Waiting # <<>> /\ Head(Sqlite!Waiting) = q /\ Tail(Sqlite!Waiting) = <<>>
  <2>1. Append(<<>>, q) = <<q>> /\ <<q>> # <<>> /\ Head(<<q>>) = q /\ Tail(<<q>>) = <<>>
    OBVIOUS
  <2> QED BY <1>9, <2>1
<1>11. scalls' = [scalls EXCEPT ![q] = IF sowner[q] = NOBODY THEN @ ELSE Append(@, q)]
  BY <1>5 DEF Sqlite!Called
<1> QED BY <1>4, <1>5, <1>7, <1>9, <1>10, <1>11 DEF Sqlite!Contract!Answer

LEMMA ReturnedStep ==
  ASSUME SqliteInv, Sqlite!QueueAssumption, Sqlite!Returned
  PROVE  SqliteInv' /\ UNCHANGED Sqlite!Contract!vars
<1>1. sstack # <<>> /\ sstack[1].f = "called" /\ ~Sqlite!In("run")
  BY StackFacts DEF Sqlite!Returned
<1>2. sstack' = Tail(sstack) /\ UNCHANGED <<squeue, tail, sidentifier, sowner, scalls, sgone>>
  BY DEF Sqlite!Returned
<1>3. scalls' \in [Statements -> Seq(Statements \cup {NULL})]
  BY <1>2 DEF SqliteInv, STyped
<1>4. SqliteInv' /\ (Sqlite!Processing' <=> Sqlite!Processing) /\ ~Sqlite!In("run")'
  BY <1>1, <1>2, <1>3, TopFrame
<1>5. Sqlite!Waiting' = Sqlite!Waiting
  BY <1>1, <1>2, <1>4 DEF Sqlite!Waiting, Sqlite!Listed
<1> QED BY <1>2, <1>4, <1>5 DEF Sqlite!Contract!vars

\* sqlitequeueprocessor() has called the callback of the head, and nothing else is on the stack.
LEMMA OneFrame ==
  ASSUME NEW s, NEW x \in SFrames, s = <<x>>
  PROVE  /\ s \in Seq(SFrames) /\ s # <<>> /\ DOMAIN s = {1} /\ Len(s) = 1 /\ s[1] = x
         /\ Head(s) = x /\ Tail(s) = <<>>
  OBVIOUS

LEMMA ProcessFrame ==
  ASSUME SqliteInv', SList(squeue'), squeue' # <<>>, NEW x \in SFrames, x.f = "process", sstack' = <<x>>
  PROVE  Sqlite!Processing' /\ ~Sqlite!In("run")' /\ Sqlite!Waiting' = Tail(squeue')
<1>1. sstack' # <<>> /\ Len(sstack') = 1 /\ sstack'[1] = x /\ Head(sstack') = x
  BY OneFrame
<1>2. Sqlite!Processing' /\ ~Sqlite!In("run")'
  BY <1>1, ProcessingIs DEF OnProcess, Sqlite!In
<1> QED BY <1>2 DEF Sqlite!Waiting, Sqlite!Listed

\* The invariant when only sqlitequeueprocessor() is on the stack.
LEMMA ProcessInv ==
  ASSUME SqliteInv, Sqlite!QueueAssumption, SList(squeue'), squeue' # <<>>, tail' = squeue'[Len(squeue')],
         \A i \in 1 .. Len(squeue') : \E j \in 1 .. Len(squeue) : squeue'[i] = squeue[j],
         sstack' = <<Sqlite!Frame("process", Head(squeue'), NULL)>>,
         scalls' \in [Statements -> Seq(Statements \cup {NULL})],
         UNCHANGED <<sidentifier, sowner, sgone>>
  PROVE  SqliteInv' /\ ~Sqlite!In("run")' /\ Sqlite!Waiting' = Tail(squeue')
<1> DEFINE x == Sqlite!Frame("process", Head(squeue'), NULL)
<1>1. /\ squeue' \in Seq(Statements) /\ DOMAIN squeue' = 1 .. Len(squeue')
      /\ Head(squeue') = squeue'[1] /\ Head(squeue') \in Statements /\ 1 \in 1 .. Len(squeue')
  <2>1. squeue' \in Seq(Statements) /\ DOMAIN squeue' = 1 .. Len(squeue')
    BY ListFacts
  <2>2. /\ Len(squeue') \in Nat \ {0} /\ Head(squeue') = squeue'[1] /\ squeue'[1] \in Statements
    BY <2>1, PopFacts
  <2> QED BY <2>1, <2>2
<1>2. x \in SFrames /\ x.f = "process" /\ x.q = squeue'[1]
  BY <1>1 DEF Sqlite!Frame, SFrames
<1>3. /\ sstack' \in Seq(SFrames) /\ sstack' # <<>> /\ DOMAIN sstack' = {1} /\ Len(sstack') = 1
           /\ sstack'[1] = x
      /\ Head(sstack') = x
  <2>1. sstack' = <<x>>
    OBVIOUS
  <2> HIDE DEF x
  <2> QED BY <1>2, <2>1, OneFrame
<1> HIDE DEF x
<1>4. /\ DOMAIN squeue = 1 .. Len(squeue)
      /\ \A i \in 1 .. Len(squeue) : sowner[squeue[i]] # NULL
  BY QueueFacts
<1>5. STyped'
  BY <1>3 DEF SqliteInv, STyped
<1>6. STail'
  BY DEF STail
<1>7. SKinds'
  <2>1. \A j \in 1 .. Len(squeue) :
          \/ sowner[squeue[j]] \in Modules \ sgone /\ sidentifier[squeue[j]] = sowner[squeue[j]]
          \/ sowner[squeue[j]] = NOBODY /\ sidentifier[squeue[j]] = ANON
    BY <1>4 DEF SqliteInv, SKinds
  <2>2. \A i \in 1 .. Len(squeue') :
          \/ sowner[squeue'[i]] \in Modules \ sgone /\ sidentifier[squeue'[i]] = sowner[squeue'[i]]
          \/ sowner[squeue'[i]] = NOBODY /\ sidentifier[squeue'[i]] = ANON
    <3> TAKE i \in 1 .. Len(squeue')
    <3>1. PICK j \in 1 .. Len(squeue) : squeue'[i] = squeue[j]
      OBVIOUS
    <3> QED BY <2>1, <3>1
  <2> QED BY <1>1, <2>2 DEF SKinds
<1>8. SAsked'
  BY <1>1, <1>2, <1>3, <1>4 DEF SAsked
<1>9. SRun' /\ SFree' /\ SOneFree'
  BY <1>2, <1>3 DEF SRun, SFree, SOneFree
<1>10. SProcess'
  BY <1>2, <1>3 DEF SProcess
<1>11. Sqlite!Processing' /\ ~Sqlite!In("run")'
  BY <1>2, <1>3, ProcessingIs DEF OnProcess, Sqlite!In
<1>12. Sqlite!Waiting' = Tail(squeue')
  BY <1>11 DEF Sqlite!Waiting, Sqlite!Listed
<1> QED BY <1>5, <1>6, <1>7, <1>8, <1>9, <1>10, <1>11, <1>12 DEF SqliteInv

\* The head of a list that waits may be answered.
LEMMA HeadFacts ==
  ASSUME SqliteInv, Sqlite!QueueAssumption, NEW s, SList(s), s # <<>>,
         \A i \in 1 .. Len(s) : \E j \in 1 .. Len(squeue) : s[i] = squeue[j]
  PROVE  Head(s) \in Statements /\ sowner[Head(s)] \notin sgone
<1>1. s \in Seq(Statements)
  BY ListFacts
<1>2. Len(s) \in Nat \ {0} /\ Head(s) = s[1] /\ s[1] \in Statements
  BY <1>1, PopFacts
<1>3. 1 \in 1 .. Len(s)
  BY <1>2
<1>4. \A i \in 1 .. Len(squeue) : sowner[squeue[i]] \notin sgone
  BY QueueFacts
<1> QED BY <1>2, <1>3, <1>4

LEMMA ProcessorStep ==
  ASSUME SqliteInv, Sqlite!QueueAssumption, Sqlite!sqlitequeueprocessor
  PROVE  SqliteInv' /\ Sqlite!Contract!Answer
<1>1. /\ sstack = <<>> /\ squeue # <<>> /\ UNCHANGED <<squeue, tail, sidentifier, sowner, sgone>>
      /\ Sqlite!Called(Head(squeue)) /\ sstack' = <<Sqlite!Frame("process", Head(squeue), NULL)>>
  BY DEF Sqlite!sqlitequeueprocessor, Sqlite!ProcessNext
<1>2. SList(squeue) /\ tail = squeue[Len(squeue)]
  BY <1>1 DEF SqliteInv, STyped, STail
<1>3. Head(squeue) \in Statements /\ sowner[Head(squeue)] \notin sgone
  BY <1>1, <1>2, HeadFacts
<1>4. scalls' \in [Statements -> Seq(Statements \cup {NULL})]
  BY <1>1, <1>3, CalledTyped
<1>5. SList(squeue') /\ squeue' # <<>> /\ tail' = squeue'[Len(squeue')]
  BY <1>1, <1>2 DEF SList
<1>6. \A i \in 1 .. Len(squeue') : \E j \in 1 .. Len(squeue) : squeue'[i] = squeue[j]
  BY <1>1
<1>7. sstack' = <<Sqlite!Frame("process", Head(squeue'), NULL)>>
  BY <1>1
<1>8. SqliteInv' /\ ~Sqlite!In("run")' /\ Sqlite!Waiting' = Tail(squeue')
  BY <1>1, <1>4, <1>5, <1>6, <1>7, ProcessInv
<1>9. Sqlite!Waiting = squeue
  BY <1>1 DEF Sqlite!Waiting, Sqlite!Listed, Sqlite!Processing, Sqlite!In
<1>10. scalls' = [scalls EXCEPT ![Head(squeue)] = IF sowner[Head(squeue)] = NOBODY THEN @ ELSE Append(@,
       Head(squeue))]
  BY <1>1 DEF Sqlite!Called
<1> QED BY <1>1, <1>3, <1>8, <1>9, <1>10 DEF Sqlite!Contract!Answer

\* sqlitequeueprocessor() unlinks the head when its callback has returned, and goes on or stops.
LEMMA ProcessedStep ==
  ASSUME SqliteInv, Sqlite!QueueAssumption, Sqlite!Processed
  PROVE  SqliteInv' /\ (Sqlite!Contract!Answer \/ UNCHANGED Sqlite!Contract!vars)
<1> DEFINE s == Tail(squeue)
           n == Len(squeue)
<1>1. sstack # <<>> /\ sstack[1].f = "process" /\ ~Sqlite!In("run")
  BY StackFacts DEF Sqlite!Processed
<1>2. /\ squeue' = s /\ tail' = (IF Head(squeue) = tail THEN NULL ELSE tail)
      /\ Sqlite!ProcessNext(s) /\ UNCHANGED <<sidentifier, sowner, sgone>>
  BY DEF Sqlite!Processed, Sqlite!popqueue
<1>3. sstack \in Seq(SFrames) /\ 1 \in DOMAIN sstack /\ Len(sstack) \in Nat \ {0}
  <2>1. sstack \in Seq(SFrames) /\ DOMAIN sstack = 1 .. Len(sstack)
    BY StackFacts
  <2>2. Len(sstack) \in Nat \ {0}
    BY <1>1, <2>1, PopFacts
  <2> QED BY <2>1, <2>2
<1>4. Len(sstack) = 1 /\ squeue # <<>>
  BY <1>1, <1>3 DEF SqliteInv, SProcess
<1>5. Sqlite!Processing
  BY <1>1, <1>4, ProcessingIs DEF OnProcess
<1>6. Sqlite!Waiting = s
  BY <1>1, <1>5 DEF Sqlite!Waiting, Sqlite!Listed
<1>7. /\ SList(squeue) /\ squeue \in Seq(Statements) /\ n \in Nat
      /\ \A j, k \in 1 .. n : squeue[j] = squeue[k] => j = k
  BY QueueFacts, ListFacts
<1>8. /\ s \in Seq(Statements) /\ Len(s) = n - 1 /\ n \in Nat \ {0} /\ DOMAIN s = 1 .. n - 1
      /\ Head(squeue) = squeue[1]
      /\ \A k \in 1 .. n - 1 : k + 1 \in 1 .. n /\ s[k] = squeue[k + 1]
  BY <1>4, <1>7, PopFacts
<1>9. SList(s)
  BY <1>4, <1>7, ListTail
<1>10. tail = squeue[n]
  BY <1>4 DEF SqliteInv, STail
<1> HIDE DEF s, n
<1>11. \A i \in 1 .. Len(s) : \E j \in 1 .. n : s[i] = squeue[j]
  BY <1>8
<1>12. s = <<>> => tail' = NULL
  <2> SUFFICES ASSUME s = <<>>
               PROVE  tail' = NULL
    OBVIOUS
  <2>1. n = 1
    BY <1>8
  <2> QED BY <1>2, <1>8, <1>10, <2>1
<1>13. s # <<>> => tail' = s[Len(s)]
  <2> SUFFICES ASSUME s # <<>>
               PROVE  tail' = s[Len(s)]
    OBVIOUS
  <2>1. Len(s) \in Nat \ {0}
    BY <1>8, PopFacts
  <2>2. n - 1 \in 1 .. n - 1 /\ n \in 1 .. n /\ 1 \in 1 .. n /\ n # 1 /\ (n - 1) + 1 = n
    BY <1>8, <2>1
  <2>3. squeue[1] # squeue[n]
    BY <1>7, <2>2
  <2>4. s[n - 1] = squeue[n]
    BY <1>8, <2>2
  <2> QED BY <1>2, <1>8, <1>10, <2>3, <2>4
<1>14. CASE sstack' = <<>> /\ UNCHANGED scalls
  <2>1. STyped'
    <3>1. <<>> \in Seq(SFrames)
      OBVIOUS
    <3> QED BY <1>2, <1>9, <1>14, <3>1 DEF SqliteInv, STyped, SList
  <2>2. STail'
    BY <1>2, <1>12, <1>13 DEF STail
  <2>3. SKinds'
    <3>1. DOMAIN squeue = 1 .. n /\ DOMAIN s = 1 .. Len(s)
      BY <1>8, QueueFacts DEF n
    <3> QED BY <1>2, <1>11, <3>1 DEF SqliteInv, SKinds
  <2>4. SAsked' /\ SRun' /\ SProcess' /\ SFree' /\ SOneFree'
    <3>1. \A k : k \notin DOMAIN sstack'
      BY <1>14
    <3> QED BY <3>1 DEF SAsked, SRun, SProcess, SFree, SOneFree
  <2>5. Sqlite!Waiting' = s
    <3>1. ~Sqlite!Processing' /\ ~Sqlite!In("run")'
      BY <1>14, ProcessingIs DEF OnProcess, Sqlite!In
    <3> QED BY <1>2, <3>1 DEF Sqlite!Waiting, Sqlite!Listed
  <2>6. UNCHANGED Sqlite!Contract!vars
    BY <1>2, <1>6, <1>14, <2>5 DEF Sqlite!Contract!vars
  <2> QED BY <2>1, <2>2, <2>3, <2>4, <2>6 DEF SqliteInv
<1>15. CASE s # <<>> /\ Sqlite!Called(Head(s)) /\ sstack' = <<Sqlite!Frame("process", Head(s), NULL)>>
  <2>1. Head(s) \in Statements /\ sowner[Head(s)] \notin sgone
    BY <1>9, <1>11, <1>15, HeadFacts DEF n
  <2>2. scalls' \in [Statements -> Seq(Statements \cup {NULL})]
    BY <1>15, <2>1, CalledTyped
  <2>3. SList(squeue') /\ squeue' # <<>> /\ tail' = squeue'[Len(squeue')]
    BY <1>2, <1>9, <1>13, <1>15 DEF SList
  <2>4. \A i \in 1 .. Len(squeue') : \E j \in 1 .. Len(squeue) : squeue'[i] = squeue[j]
    BY <1>2, <1>11 DEF n
  <2>5. sstack' = <<Sqlite!Frame("process", Head(squeue'), NULL)>>
    BY <1>2, <1>15
  <2>6. SqliteInv' /\ ~Sqlite!In("run")' /\ Sqlite!Waiting' = Tail(squeue')
    BY <1>2, <2>2, <2>3, <2>4, <2>5, ProcessInv
  <2>7. scalls' = [scalls EXCEPT ![Head(s)] = IF sowner[Head(s)] = NOBODY THEN @ ELSE Append(@, Head(s))]
    BY <1>15 DEF Sqlite!Called
  <2>8. Sqlite!Contract!Answer
    BY <1>2, <1>6, <1>15, <2>1, <2>6, <2>7 DEF Sqlite!Contract!Answer
  <2> QED BY <2>6, <2>8
<1> QED BY <1>2, <1>14, <1>15 DEF Sqlite!ProcessNext
-----------------------------------------------------------------------------
(* sqlitefreeid(). *)

LEMMA MinFacts ==
  ASSUME NEW T, T \subseteq Nat, T # {}
  PROVE  Sqlite!Min(T) \in T /\ \A y \in T : Sqlite!Min(T) <= y
<1>1. \E x \in T : \A y \in T : x <= y
  BY LeastNat
<1> QED BY <1>1 DEF Sqlite!Min

\* What sqlitefreeid(m) finds when it walks on from place i, over the frames below.
Walks(i, m, below) ==
  /\ m \in Modules \ sgone
  /\ i \in 0 .. Len(squeue) /\ \A j \in 1 .. i : sidentifier[squeue[j]] # m
  /\ Sqlite!Processing => squeue # <<>> /\ sidentifier[squeue[1]] # m
  /\ below \in Seq(SFrames) /\ (Sqlite!Processing <=> OnProcess(below)) /\ ~Sqlite!In("run")
  /\ \A k \in DOMAIN below :
       /\ below[k].f \in {"called", "process"} /\ sowner[below[k].q] # NULL
       /\ below[k].f = "process" => k = Len(below) /\ squeue # <<>> /\ squeue[1] = below[k].q

\* No query of the module is left: it is gone.
LEMMA SqliteWalkEnds ==
  ASSUME SqliteInv, Sqlite!QueueAssumption, NEW i, NEW m, NEW below, Walks(i, m, below), Sqlite!Walk(i, m,
           below),
         {j \in DOMAIN squeue : j > i /\ sidentifier[squeue[j]] = m} = {}, UNCHANGED <<sidentifier, sowner>>
  PROVE  SqliteInv' /\ Sqlite!Contract!Unload(m)
<1>1. sstack' = below /\ sgone' = sgone \cup {m} /\ UNCHANGED <<squeue, tail, scalls>>
  BY DEF Sqlite!Walk
<1>2. /\ m \in Modules \ sgone /\ i \in 0 .. Len(squeue) /\ \A j \in 1 .. i : sidentifier[squeue[j]] # m
      /\ below \in Seq(SFrames) /\ (Sqlite!Processing <=> OnProcess(below)) /\ ~Sqlite!In("run")
      /\ \A k \in DOMAIN below :
           /\ below[k].f \in {"called", "process"} /\ sowner[below[k].q] # NULL
           /\ below[k].f = "process" => k = Len(below) /\ squeue # <<>> /\ squeue[1] = below[k].q
  BY DEF Walks
<1>3. /\ squeue \in Seq(Statements) /\ DOMAIN squeue = 1 .. Len(squeue) /\ Len(squeue) \in Nat
      /\ \A j \in 1 .. Len(squeue) : sidentifier[squeue[j]] = m <=> sowner[squeue[j]] = m
  BY <1>2, QueueFacts
<1>4. \A j \in 1 .. Len(squeue) : sidentifier[squeue[j]] # m /\ sowner[squeue[j]] # m
  <2> SUFFICES ASSUME NEW j \in 1 .. Len(squeue)
               PROVE  sidentifier[squeue[j]] # m
    BY <1>3
  <2>1. j \in 1 .. i \/ j > i
    BY <1>2, <1>3
  <2> QED BY <1>2, <1>3, <2>1
<1>5. STyped' /\ STail'
  BY <1>1, <1>2 DEF SqliteInv, STyped, SList, STail
<1>6. SKinds'
  BY <1>1, <1>3, <1>4 DEF SqliteInv, SKinds
<1>7. SAsked' /\ SRun' /\ SProcess' /\ SFree' /\ SOneFree'
  BY <1>1, <1>2 DEF SAsked, SRun, SProcess, SFree, SOneFree
<1>8. (Sqlite!Processing' <=> Sqlite!Processing) /\ ~Sqlite!In("run")'
  <2>1. Sqlite!Processing' <=> Sqlite!Processing
    BY <1>1, <1>2, ProcessingIs
  <2>2. ASSUME below # <<>>
        PROVE  Head(below).f # "run"
    <3>1. Len(below) \in Nat \ {0} /\ Head(below) = below[1] /\ DOMAIN below = 1 .. Len(below)
      BY <1>2, <2>2, PopFacts
    <3> QED BY <1>2, <3>1
  <2> QED BY <1>1, <2>1, <2>2 DEF Sqlite!In
<1>9. Sqlite!Waiting' = Sqlite!Waiting /\ Sqlite!Waiting = Sqlite!Listed
  BY <1>1, <1>2, <1>8 DEF Sqlite!Waiting, Sqlite!Listed
<1>10. \A q \in Sqlite!ToSet(Sqlite!Listed) : sowner[q] # m
  <2>1. CASE Sqlite!Processing
    <3>1. squeue # <<>>
      BY <2>1, StackFacts
    <3>2. /\ DOMAIN Tail(squeue) = 1 .. Len(squeue) - 1
          /\ \A k \in 1 .. Len(squeue) - 1 : k + 1 \in 1 .. Len(squeue) /\ Tail(squeue)[k] = squeue[k + 1]
      BY <1>3, <3>1, PopFacts
    <3>3. \A k \in DOMAIN Tail(squeue) : sowner[Tail(squeue)[k]] # m
      BY <1>4, <3>2
    <3> QED BY <2>1, <3>3 DEF Sqlite!Listed, Sqlite!ToSet
  <2>2. CASE ~Sqlite!Processing
    BY <1>3, <1>4, <2>2 DEF Sqlite!Listed, Sqlite!ToSet
  <2> QED BY <2>1, <2>2
<1>11. Sqlite!Contract!Unload(m)
  BY <1>1, <1>9, <1>10 DEF Sqlite!Contract!Unload, Sqlite!Contract!ToSet, Sqlite!ToSet
<1> QED BY <1>5, <1>6, <1>7, <1>11 DEF SqliteInv

\* The next query of the module is unlinked, and its callback called with NULL.
LEMMA SqliteWalkCancels ==
  ASSUME SqliteInv, Sqlite!QueueAssumption, NEW i, NEW m, NEW below, Walks(i, m, below), Sqlite!Walk(i, m,
           below),
         {j \in DOMAIN squeue : j > i /\ sidentifier[squeue[j]] = m} # {}, UNCHANGED <<sidentifier, sowner>>
  PROVE  SqliteInv' /\ \E q \in Statements : Sqlite!Contract!Cancel(q)
<1> DEFINE n == Len(squeue)
           js == {j \in DOMAIN squeue : j > i /\ sidentifier[squeue[j]] = m}
           j == Sqlite!Min(js)
           q == squeue[j]
           x == [f |-> "free", q |-> q, m |-> m, at |-> j - 1]
<1>1. /\ m \in Modules /\ m \notin sgone /\ i \in 0 .. n /\ \A k \in 1 .. i : sidentifier[squeue[k]] # m
      /\ Sqlite!Processing => squeue # <<>> /\ sidentifier[squeue[1]] # m
  BY DEF Walks
<1>2. /\ below \in Seq(SFrames) /\ (Sqlite!Processing <=> OnProcess(below)) /\ ~Sqlite!In("run")
      /\ \A k \in DOMAIN below :
           /\ below[k].f \in {"called", "process"} /\ sowner[below[k].q] # NULL
           /\ below[k].f = "process" => k = Len(below) /\ squeue # <<>> /\ squeue[1] = below[k].q
  BY DEF Walks
<1>3. /\ SList(squeue) /\ squeue \in Seq(Statements) /\ DOMAIN squeue = 1 .. n /\ n \in Nat
      /\ \A k \in 1 .. n :
           /\ squeue[k] \in Statements /\ sowner[squeue[k]] # NULL /\ sowner[squeue[k]] \notin sgone
           /\ sidentifier[squeue[k]] = m <=> sowner[squeue[k]] = m
  BY <1>1, QueueFacts
<1>4. j \in js /\ \A k \in js : j <= k
  <2>1. js \subseteq Nat /\ js # {}
    BY <1>3
  <2> HIDE DEF js
  <2> QED BY <2>1, MinFacts
<1>5. /\ squeue' = Sqlite!RemoveAt(squeue, j)
      /\ tail' = (IF q # tail THEN tail ELSE IF j = 1 THEN NULL ELSE squeue[j - 1])
      /\ scalls' = [scalls EXCEPT ![q] = Append(@, NULL)]
      /\ sstack' = <<x>> \o below
      /\ sgone' = sgone
  BY DEF Sqlite!Walk
<1>6. j \in 1 .. n /\ j > i /\ sidentifier[q] = m
  BY <1>3, <1>4
<1>7. \A k \in 1 .. j - 1 : sidentifier[squeue[k]] # m
  <2> SUFFICES ASSUME NEW k \in 1 .. j - 1, sidentifier[squeue[k]] = m
               PROVE  FALSE
    OBVIOUS
  <2>1. k \in 1 .. n /\ k < j
    <3> HIDE DEF j, n
    <3> QED BY <1>3, <1>6
  <2>2. k \in 1 .. i \/ k > i
    BY <1>1, <2>1
  <2>3. k \in js \/ k \in 1 .. i
    BY <1>3, <2>1, <2>2
  <2> HIDE DEF j, js
  <2> QED BY <1>1, <1>3, <1>4, <1>6, <2>1, <2>3
<1> HIDE DEF js, j
<1>8. q \in Statements /\ sowner[q] = m /\ q # NULL
  BY <1>3, <1>6 DEF Sqlite!QueueAssumption
<1>9. x \in SFrames /\ x.f = "free" /\ x.q = q /\ x.m = m /\ x.at = j - 1 /\ j - 1 \in Nat
  BY <1>1, <1>6, <1>8 DEF SFrames
<1>10. /\ squeue' \in Seq(Statements) /\ Len(squeue') = n - 1 /\ DOMAIN squeue' = 1 .. n - 1
       /\ \A k \in 1 .. j - 1 : squeue'[k] = squeue[k]
       /\ \A k \in j .. n - 1 : squeue'[k] = squeue[k + 1]
  BY <1>3, <1>5, <1>6, RemoveFacts
<1>11. SList(squeue')
  <2>1. SList(Sqlite!RemoveAt(squeue, j))
    BY <1>3, <1>6, ListRemoved
  <2> QED BY <1>5, <2>1
<1> HIDE DEF x, q, n
<1>12. Sqlite!Processing => j >= 2
  <2>1. j = 1 => sidentifier[squeue[1]] = m
    BY <1>6 DEF q
  <2>2. j = 1 \/ j >= 2
    BY <1>3, <1>6
  <2> QED BY <1>1, <2>1, <2>2
<1>13. /\ sstack' \in Seq(SFrames) /\ Len(sstack') = Len(below) + 1 /\ sstack' # <<>> /\ Len(below) \in Nat
       /\ DOMAIN sstack' = 1 .. Len(below) + 1 /\ DOMAIN below = 1 .. Len(below)
       /\ sstack'[1] = x /\ Head(sstack') = x
       /\ \A k \in 2 .. Len(below) + 1 : k - 1 \in 1 .. Len(below) /\ sstack'[k] = below[k - 1]
  BY <1>2, <1>5, <1>9, PushFacts
<1>14. (Sqlite!Processing' <=> Sqlite!Processing) /\ ~Sqlite!In("run")'
  <2>1. OnProcess(<<x>> \o below) <=> OnProcess(below)
    BY <1>2, <1>9, PushOnProcess
  <2>2. Sqlite!Processing' <=> Sqlite!Processing
    BY <1>2, <1>5, <2>1, ProcessingIs
  <2> QED BY <1>9, <1>13, <2>2 DEF Sqlite!In
<1>15. \A k \in 1 .. Len(below) + 1 : k = 1 \/ k \in 2 .. Len(below) + 1
  BY <1>13
<1>16. \A k \in 1 .. n - 1 : \E l \in 1 .. n : squeue'[k] = squeue[l]
  <2> TAKE k \in 1 .. n - 1
  <2>1. CASE k \in 1 .. j - 1
    <3>1. k \in 1 .. n
      BY <1>3
    <3> QED BY <1>10, <2>1, <3>1
  <2>2. CASE k \in j .. n - 1
    <3>1. k + 1 \in 1 .. n
      BY <1>3
    <3> QED BY <1>10, <2>2, <3>1
  <2>3. k \in 1 .. j - 1 \/ k \in j .. n - 1
    BY <1>3, <1>6
  <2> QED BY <2>1, <2>2, <2>3
<1>17. scalls' \in [Statements -> Seq(Statements \cup {NULL})]
  <2>1. scalls \in [Statements -> Seq(Statements \cup {NULL})]
    BY DEF SqliteInv, STyped
  <2>2. Append(scalls[q], NULL) \in Seq(Statements \cup {NULL})
    <3>1. scalls[q] \in Seq(Statements \cup {NULL})
      BY <1>8, <2>1
    <3> QED BY <3>1, AppendFacts
  <2> QED BY <1>5, <2>1, <2>2
<1>18. STyped'
  BY <1>5, <1>11, <1>13, <1>17 DEF SqliteInv, STyped
<1>19. STail'
  <2>1. tail = squeue[n]
    <3>1. squeue # <<>>
      BY <1>3, <1>6
    <3> QED BY <3>1 DEF SqliteInv, STail, n
  <2>2. \A k, l \in 1 .. n : squeue[k] = squeue[l] => k = l
    BY <1>3 DEF SList
  <2>3. n \in 1 .. n
    BY <1>3, <1>6
  <2>4. CASE j = n
    <3>1. q = tail
      BY <2>1, <2>4 DEF q
    <3>2. CASE n = 1
      <4>1. squeue' = <<>>
        BY <1>10, <3>2
      <4>2. tail' = NULL
        BY <1>5, <2>4, <3>1, <3>2
      <4> QED BY <4>1, <4>2 DEF STail
    <3>3. CASE n # 1
      <4>1. n - 1 \in 1 .. j - 1 /\ j # 1
        BY <1>3, <2>3, <2>4, <3>3
      <4>2. squeue' # <<>>
        <5>1. 1 \in DOMAIN squeue'
          BY <1>10, <2>4, <4>1
        <5> QED BY <5>1
      <4>3. tail' = squeue'[n - 1]
        BY <1>5, <1>10, <2>4, <3>1, <4>1
      <4> QED BY <1>10, <4>2, <4>3 DEF STail
    <3> QED BY <3>2, <3>3
  <2>5. CASE j # n
    <3>1. q # tail
      BY <1>6, <2>1, <2>2, <2>3, <2>5 DEF q
    <3>2. n - 1 \in j .. n - 1 /\ (n - 1) + 1 = n /\ 1 \in 1 .. n - 1
      BY <1>3, <1>6, <2>5
    <3>3. squeue' # <<>>
      <4>1. 1 \in DOMAIN squeue'
        BY <1>10, <3>2
      <4> QED BY <4>1
    <3>4. tail' = squeue'[n - 1]
      BY <1>5, <1>10, <2>1, <3>1, <3>2
    <3> QED BY <1>10, <3>3, <3>4 DEF STail
  <2> QED BY <2>4, <2>5
<1>20. SKinds'
  <2>1. \A k \in 1 .. n :
          \/ sowner[squeue[k]] \in Modules \ sgone /\ sidentifier[squeue[k]] = sowner[squeue[k]]
          \/ sowner[squeue[k]] = NOBODY /\ sidentifier[squeue[k]] = ANON
    BY <1>3 DEF SqliteInv, SKinds
  <2>2. \A k \in 1 .. n - 1 :
          \/ sowner[squeue'[k]] \in Modules \ sgone /\ sidentifier[squeue'[k]] = sowner[squeue'[k]]
          \/ sowner[squeue'[k]] = NOBODY /\ sidentifier[squeue'[k]] = ANON
    <3> TAKE k \in 1 .. n - 1
    <3>1. PICK l \in 1 .. n : squeue'[k] = squeue[l]
      BY <1>16
    <3> QED BY <2>1, <3>1
  <2> QED BY <1>5, <1>10, <2>2 DEF SKinds
<1>21. SAsked'
  <2>1. sowner[x.q] # NULL
    BY <1>1, <1>8, <1>9 DEF Sqlite!QueueAssumption
  <2>2. \A k \in 1 .. Len(below) + 1 : sowner[sstack'[k].q] # NULL
    BY <1>2, <1>13, <1>15, <2>1
  <2> QED BY <1>13, <2>2 DEF SAsked
<1>22. SRun'
  <2>1. \A k \in 1 .. Len(below) + 1 : sstack'[k].f # "run"
    BY <1>2, <1>9, <1>13, <1>15
  <2> QED BY <1>13, <2>1 DEF SRun
<1>23. SProcess'
  <2> SUFFICES ASSUME NEW k \in 1 .. Len(below) + 1, sstack'[k].f = "process"
               PROVE  k = Len(below) + 1 /\ squeue' # <<>> /\ squeue'[1] = sstack'[k].q
    BY <1>13 DEF SProcess
  <2>1. k - 1 \in 1 .. Len(below) /\ sstack'[k] = below[k - 1]
    BY <1>9, <1>13, <1>15
  <2>2. k - 1 = Len(below) /\ squeue[1] = below[k - 1].q
    BY <1>2, <1>13, <2>1
  <2>3. k = Len(below) + 1
    BY <1>13, <2>2
  <2>4. Sqlite!Processing
    <3>1. below # <<>>
      <4>1. k - 1 \in DOMAIN below
        BY <1>13, <2>1
      <4> QED BY <4>1
    <3> QED BY <1>2, <2>1, <2>2, <3>1 DEF OnProcess
  <2>5. 1 \in 1 .. j - 1 /\ 1 \in 1 .. n - 1
    BY <1>3, <1>6, <1>12, <2>4
  <2>6. squeue' # <<>>
    <3>1. 1 \in DOMAIN squeue'
      BY <1>10, <2>5
    <3> QED BY <3>1
  <2> QED BY <1>10, <2>1, <2>2, <2>3, <2>5, <2>6
<1>24. SFree'
  <2>1. \A k \in 2 .. Len(below) + 1 : sstack'[k].f # "free"
    BY <1>2, <1>13
  <2>2. /\ x.m \notin sgone' /\ x.at <= Len(squeue') /\ (Sqlite!Processing' => x.at >= 1)
        /\ \A k \in 1 .. x.at : sidentifier'[squeue'[k]] # x.m
    BY <1>1, <1>3, <1>5, <1>6, <1>7, <1>9, <1>10, <1>12, <1>14
  <2> QED BY <1>13, <1>15, <2>1, <2>2 DEF SFree
<1>25. SOneFree'
  <2>1. \A k \in 2 .. Len(below) + 1 : sstack'[k].f # "free"
    BY <1>2, <1>13
  <2> QED BY <1>13, <1>15, <2>1 DEF SOneFree
<1>26. \E k \in DOMAIN Sqlite!Waiting : Sqlite!Waiting[k] = q
         /\ Sqlite!Waiting' = Sqlite!RemoveAt(Sqlite!Waiting, k)
  <2>1. CASE Sqlite!Processing
    <3> DEFINE t == Tail(squeue)
    <3>1. j \in 2 .. n
      BY <1>6, <1>12, <2>1
    <3>2. Tail(Sqlite!RemoveAt(squeue, j)) = Sqlite!RemoveAt(t, j - 1)
      BY <1>3, <3>1, TailOfRemoved DEF n
    <3>3. squeue # <<>>
      BY <1>1, <2>1
    <3>4. /\ DOMAIN t = 1 .. n - 1
          /\ \A k \in 1 .. n - 1 : t[k] = squeue[k + 1]
      BY <1>3, <3>3, PopFacts DEF n
    <3>5. Sqlite!Waiting = t /\ Sqlite!Waiting' = Tail(squeue')
      BY <1>2, <1>14, <2>1 DEF Sqlite!Waiting, Sqlite!Listed
    <3> HIDE DEF t
    <3>6. j - 1 \in DOMAIN t /\ t[j - 1] = q
      <4>1. j - 1 \in 1 .. n - 1 /\ (j - 1) + 1 = j
        BY <1>3, <3>1
      <4> QED BY <3>4, <4>1 DEF q
    <3> QED BY <1>5, <3>2, <3>5, <3>6
  <2>2. CASE ~Sqlite!Processing
    <3>1. Sqlite!Waiting = squeue /\ Sqlite!Waiting' = squeue'
      BY <1>2, <1>14, <2>2 DEF Sqlite!Waiting, Sqlite!Listed
    <3>2. j \in DOMAIN squeue /\ squeue[j] = q
      BY <1>3, <1>6 DEF q
    <3> QED BY <1>5, <3>1, <3>2
  <2> QED BY <2>1, <2>2
<1>27. Sqlite!Contract!Cancel(q)
  <2>1. sowner[q] \in Modules \ sgone
    BY <1>1, <1>8
  <2> QED BY <1>5, <1>26, <2>1 DEF Sqlite!Contract!Cancel, Sqlite!Contract!RemoveAt, Sqlite!RemoveAt
<1> QED BY <1>8, <1>18, <1>19, <1>20, <1>21, <1>22, <1>23, <1>24, <1>25, <1>27 DEF SqliteInv

\* A module goes: sqlitefreeid() begins to walk.
LEMMA SqliteFreeStep ==
  ASSUME SqliteInv, Sqlite!QueueAssumption, NEW m \in Modules, Sqlite!sqlitefreeid(m)
  PROVE  SqliteInv' /\ (Sqlite!Contract!Unload(m) \/ \E q \in Statements : Sqlite!Contract!Cancel(q))
<1>1. /\ m \notin sgone /\ ~Sqlite!Freeing /\ ~Sqlite!In("run") /\ Sqlite!Walk(0, m, sstack)
           /\ UNCHANGED <<sidentifier, sowner>>
      /\ \A k \in DOMAIN sstack : sowner[sstack[k].q] # m
  BY DEF Sqlite!sqlitefreeid
<1>2. /\ sstack \in Seq(SFrames) /\ DOMAIN sstack = 1 .. Len(sstack) /\ Len(sstack) \in Nat
      /\ \A k \in 1 .. Len(sstack) : sstack[k].f \in {"run", "called", "process", "free"}
      /\ Sqlite!In("run") <=> sstack # <<>> /\ sstack[1].f = "run"
  BY StackFacts
<1>3. \A k \in DOMAIN sstack : sstack[k].f \in {"called", "process"}
  <2>1. \A k \in DOMAIN sstack : sstack[k].f # "free"
    BY <1>1 DEF Sqlite!Freeing
  <2>2. \A k \in DOMAIN sstack : sstack[k].f = "run" => k = 1
    BY DEF SqliteInv, SRun
  <2>3. 1 \in DOMAIN sstack => sstack # <<>>
    OBVIOUS
  <2> QED BY <1>1, <1>2, <2>1, <2>2, <2>3
<1>4. Sqlite!Processing => squeue # <<>> /\ sidentifier[squeue[1]] # m
  <2> SUFFICES ASSUME Sqlite!Processing
               PROVE  squeue # <<>> /\ sidentifier[squeue[1]] # m
    OBVIOUS
  <2>1. sstack # <<>> /\ sstack[Len(sstack)].f = "process"
    BY ProcessingIs DEF OnProcess
  <2>2. Len(sstack) \in DOMAIN sstack
    <3>1. Len(sstack) \in Nat \ {0}
      BY <1>2, <2>1, PopFacts
    <3> QED BY <1>2, <3>1
  <2>3. squeue # <<>> /\ sowner[squeue[1]] # m
    BY <1>1, <2>1, <2>2 DEF SqliteInv, SProcess
  <2>4. 1 \in 1 .. Len(squeue)
    <3>1. squeue \in Seq(Statements)
      BY QueueFacts
    <3>2. Len(squeue) \in Nat \ {0}
      BY <2>3, <3>1, PopFacts
    <3> QED BY <3>2
  <2> QED BY <2>3, <2>4, QueueFacts
<1>5. Walks(0, m, sstack)
  <2>1. Len(squeue) \in Nat
    BY QueueFacts
  <2>2. 0 \in 0 .. Len(squeue) /\ \A j \in 1 .. 0 : sidentifier[squeue[j]] # m
    BY <2>1
  <2>3. \A k \in DOMAIN sstack :
          /\ sowner[sstack[k].q] # NULL
          /\ sstack[k].f = "process" => k = Len(sstack) /\ squeue # <<>> /\ squeue[1] = sstack[k].q
    BY DEF SqliteInv, SAsked, SProcess
  <2> QED BY <1>1, <1>2, <1>3, <1>4, <2>2, <2>3, ProcessingIs DEF Walks
<1> QED BY <1>1, <1>5, SqliteWalkEnds, SqliteWalkCancels

\* A callback that sqlitefreeid() has called returns, and it walks on.
LEMMA FreedStep ==
  ASSUME SqliteInv, Sqlite!QueueAssumption, Sqlite!Freed
  PROVE  SqliteInv' /\ ((\E m \in Modules : Sqlite!Contract!Unload(m)) \/ \E q \in Statements :
             Sqlite!Contract!Cancel(q))
<1> DEFINE n == Len(sstack)
           t == Tail(sstack)
           i == sstack[1].at
           m == sstack[1].m
<1>1. sstack # <<>> /\ sstack[1].f = "free" /\ ~Sqlite!In("run")
  BY StackFacts DEF Sqlite!Freed
<1>2. /\ sstack \in Seq(SFrames) /\ DOMAIN sstack = 1 .. n
      /\ \A k \in 1 .. n :
           /\ sstack[k].f \in {"run", "called", "process", "free"}
           /\ sstack[k].f = "free" => sstack[k].m \in Modules /\ sstack[k].at \in Nat
  BY StackFacts
<1>3. /\ t \in Seq(SFrames) /\ Len(t) = n - 1 /\ n \in Nat \ {0} /\ DOMAIN t = 1 .. n - 1
      /\ Head(sstack) = sstack[1]
      /\ \A k \in 1 .. n - 1 : k + 1 \in 1 .. n /\ t[k] = sstack[k + 1]
  BY <1>1, <1>2, PopFacts
<1>4. Sqlite!Walk(i, m, t) /\ UNCHANGED <<sidentifier, sowner>>
  BY <1>3 DEF Sqlite!Freed
<1>5. 1 \in 1 .. n /\ m \in Modules /\ i \in Nat
  BY <1>1, <1>2, <1>3
<1>6. /\ m \notin sgone /\ i <= Len(squeue) /\ \A j \in 1 .. i : sidentifier[squeue[j]] # m
      /\ Sqlite!Processing => i >= 1
  BY <1>1, <1>2, <1>5 DEF SqliteInv, SFree
<1>7. OnProcess(t) <=> OnProcess(sstack)
  BY <1>1, <1>2, PopOnProcess
<1> HIDE DEF n, t, i, m
<1>8. i \in 0 .. Len(squeue)
  BY <1>5, <1>6, QueueFacts
<1>9. Sqlite!Processing => squeue # <<>> /\ sidentifier[squeue[1]] # m
  <2> SUFFICES ASSUME Sqlite!Processing
               PROVE  squeue # <<>> /\ sidentifier[squeue[1]] # m
    OBVIOUS
  <2>1. 1 \in 1 .. i
    BY <1>5, <1>6
  <2> QED BY <1>6, <2>1, StackFacts
<1>10. \A k \in 1 .. n - 1 :
         /\ t[k].f \in {"called", "process"} /\ sowner[t[k].q] # NULL
         /\ t[k].f = "process" => k = n - 1 /\ squeue # <<>> /\ squeue[1] = t[k].q
  <2> TAKE k \in 1 .. n - 1
  <2>1. k + 1 \in 1 .. n /\ t[k] = sstack[k + 1] /\ k + 1 # 1
    BY <1>3
  <2>2. sstack[k + 1].f # "run" /\ sowner[sstack[k + 1].q] # NULL
    BY <1>2, <2>1 DEF SqliteInv, SRun, SAsked
  <2>3. sstack[k + 1].f # "free"
    BY <1>1, <1>2, <1>5, <2>1 DEF SqliteInv, SOneFree
  <2>4. sstack[k + 1].f = "process" => k + 1 = n /\ squeue # <<>> /\ squeue[1] = sstack[k + 1].q
    BY <1>2, <2>1 DEF SqliteInv, SProcess, n
  <2>5. k + 1 = n => k = n - 1
    BY <1>3
  <2> QED BY <1>2, <2>1, <2>2, <2>3, <2>4, <2>5
<1>11. Walks(i, m, t)
  BY <1>1, <1>3, <1>5, <1>6, <1>7, <1>8, <1>9, <1>10, ProcessingIs DEF Walks
<1> QED BY <1>4, <1>5, <1>11, SqliteWalkEnds, SqliteWalkCancels

-----------------------------------------------------------------------------
\* Nothing has been asked.
LEMMA SqliteInitially ==
  ASSUME Sqlite!QueueAssumption, Sqlite!Init
  PROVE  SqliteInv /\ Sqlite!Contract!Init
<1>1. /\ squeue = <<>> /\ tail = NULL /\ sstack = <<>> /\ sgone = {}
      /\ sidentifier = [q \in Statements |-> ANON] /\ sowner = [q \in Statements |-> NULL]
            /\ scalls = [q \in Statements |-> <<>>]
  BY DEF Sqlite!Init
<1>2. <<>> \in Seq(Statements) /\ <<>> \in Seq(Statements \cup {NULL}) /\ <<>> \in Seq(SFrames) /\ \A k :
        k \notin DOMAIN <<>>
  OBVIOUS
<1>3. SqliteInv
  BY <1>1, <1>2 DEF SqliteInv, STyped, SList, STail, SKinds, SAsked, SRun, SProcess, SFree, SOneFree
<1>4. Sqlite!Waiting = <<>>
  BY <1>1 DEF Sqlite!Waiting, Sqlite!Listed, Sqlite!Processing, Sqlite!In
<1> QED BY <1>1, <1>3, <1>4 DEF Sqlite!Contract!Init

LEMMA SqliteStutter ==
  ASSUME SqliteInv, UNCHANGED Sqlite!vars
  PROVE  SqliteInv' /\ UNCHANGED Sqlite!Contract!vars
<1>1. UNCHANGED <<squeue, tail, sidentifier, sowner, scalls, sstack, sgone>>
  BY DEF Sqlite!vars
<1>2. SqliteInv'
  BY <1>1 DEF SqliteInv, STyped, SList, STail, SKinds, SAsked, SRun, SProcess, SFree, SOneFree,
        Sqlite!Processing
<1>3. Sqlite!Waiting' = Sqlite!Waiting
  BY <1>1 DEF Sqlite!Waiting, Sqlite!Listed, Sqlite!Processing, Sqlite!In
<1> QED BY <1>1, <1>2, <1>3 DEF Sqlite!Contract!vars

\* Every step is a step of Queries, or one that Queries does not see.
LEMMA SqliteSteps ==
  ASSUME SqliteInv, Sqlite!QueueAssumption, [Sqlite!Next]_Sqlite!vars
  PROVE  SqliteInv' /\ [Sqlite!Contract!Next]_(Sqlite!Contract!vars)
<1>1. CASE UNCHANGED Sqlite!vars
  BY <1>1, SqliteStutter
<1>2. ASSUME NEW q \in Statements, NEW kind \in Sqlite!Kinds, Sqlite!sqliteasyncqueryf(q, kind)
      PROVE  SqliteInv' /\ Sqlite!Contract!Next
  <2>1. kind[2] \in Modules \cup {NOBODY}
    BY <1>2, AsksRecords DEF Sqlite!sqliteasyncqueryf, Sqlite!AskRefused, Sqlite!AskRun, Sqlite!AskQueued
  <2>2. SqliteInv' /\ (Sqlite!Contract!Ask(q, kind[2]) \/ Sqlite!Contract!Refuse(q, kind[2]))
    BY <1>2, AskRefusedStep, AskRunStep, AskQueuedStep DEF Sqlite!sqliteasyncqueryf
  <2> QED BY <2>1, <2>2 DEF Sqlite!Contract!Next
<1>3. CASE Sqlite!Ran
  BY <1>3, RanStep DEF Sqlite!Contract!Next
<1>4. CASE Sqlite!Returned
  BY <1>4, ReturnedStep
<1>5. CASE Sqlite!sqlitequeueprocessor
  BY <1>5, ProcessorStep DEF Sqlite!Contract!Next
<1>6. CASE Sqlite!Processed
  BY <1>6, ProcessedStep DEF Sqlite!Contract!Next
<1>7. ASSUME NEW m \in Modules, Sqlite!sqlitefreeid(m)
      PROVE  SqliteInv' /\ Sqlite!Contract!Next
  BY <1>7, SqliteFreeStep DEF Sqlite!Contract!Next
<1>8. CASE Sqlite!Freed
  BY <1>8, FreedStep DEF Sqlite!Contract!Next
<1> QED BY <1>1, <1>2, <1>3, <1>4, <1>5, <1>6, <1>7, <1>8 DEF Sqlite!Next

\* sqliteasyncqueryf(), sqlitequeueprocessor(), sqlitefreeid(): each callback is called once, in the
\* order of asking and with its own answer, or with NULL before its module goes, and none in a module
\* that is gone; any number of queries and modules, if queries carry their module's identifier.
THEOREM SqliteQueueImplementsQueries ==
  ASSUME Sqlite!QueueAssumption
  PROVE  Sqlite!Spec => SqliteImplementsQueries
<1>1. Sqlite!Init => SqliteInv /\ Sqlite!Contract!Init
  BY SqliteInitially
<1>2. SqliteInv /\ [Sqlite!Next]_Sqlite!vars => SqliteInv' /\ [Sqlite!Contract!Next]_(Sqlite!Contract!vars)
  BY SqliteSteps
<1> QED BY <1>1, <1>2, PTL DEF Sqlite!Spec, SqliteImplementsQueries, Sqlite!ImplementsQueries,
      Sqlite!Contract!Spec
=============================================================================
