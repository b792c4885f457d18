----------------------------- MODULE ModeChanges -----------------------------
(***************************************************************************)
(* The buffer in which our services collect mode changes of a channel      *)
(* (localuser/localuserchannel.c, localsetmodeinit() to                    *)
(* localsetmodeflush()). A change is made to our own view of the channel   *)
(* at once and told to the network when the buffer is flushed, with all    *)
(* removals before all additions, and few enough to fit a line.            *)
(*                                                                         *)
(* A channel is the set of its modes with their values: "k" and "l" have   *)
(* one value, "o", "v" and "b" one for each user or ban.                   *)
(***************************************************************************)
EXTENDS Naturals, Sequences, SequencesExt, FiniteSetsExt

CONSTANTS
  source,       \* the service, on the channel
  Users,
  UserModes,    \* "o" and "v"
  Bans, Keys, Limits,
  Simple,       \* "s" and "p" exclude each other
  NONE,         \* the value of the simple modes
  FREED,        \* a string whose memory has been given back
  MAXMODEARGS,
  LineArgs,     \* how many of the changes fit a line
  TakesBack     \* whether a batch may take back, or repeat, a change it has made

VARIABLES
  chan,         \* our view
  net,          \* what the network makes of what we have sent
  buf           \* the modechanges structure, NONE outside of a batch

vars == <<chan, net, buf>>

Has(c, f) == \E m \in c : m[1] = f
Without(c, f) == {m \in c : m[1] # f}
Value(c, f) == (CHOOSE m \in c : m[1] = f)[2]

\* A mode is set or cleared, in our view and as handlemodemsg() does it.
With(c, f, x) ==
  (IF f \in {"k", "l"} THEN Without(c, f)
   ELSE IF f \in {"s", "p"} THEN Without(c, IF f = "s" THEN "p" ELSE "s") ELSE c) \cup {<<f, x>>}
Minus(c, f, x) == IF f \in {"k", "l"} THEN Without(c, f) ELSE c \ {<<f, x>>}

Change(dir, f, x) == [dir |-> dir, flag |-> f, str |-> x]
Empty == [addflags |-> {}, delflags |-> {}, changes |-> <<>>]

\* The line "-<delflags><removals>+<addflags><additions>" on the other side.
Line(c, b, es) ==
  LET cleared == {m \in c : m[1] \notin b.delflags}
      removed == FoldLeft(LAMBDA d, e : IF e.dir = "del" THEN Minus(d, e.flag, e.str) ELSE d, cleared, es)
      flagged == {m \in removed : \A f \in b.addflags : m \in With({m}, f, NONE)} \cup (b.addflags \X {NONE})
  IN FoldLeft(LAMBDA d, e : IF e.dir = "add" THEN With(d, e.flag, e.str) ELSE d, flagged, es)

\* The two views and the buffer, which the functions below pass on; C passes pointers.
State == [chan |-> chan, net |-> net, buf |-> buf]
Becomes(s) == chan' = s.chan /\ net' = s.net /\ buf' = s.buf

\* localgetops(): the service is opped in the name of the server before it sends a line.
localgetops(s) ==
  IF <<"o", source>> \in s.chan THEN s
  ELSE [s EXCEPT !.chan = @ \cup {<<"o", source>>}, !.net = @ \cup {<<"o", source>>}]

\* One line: the buffer without it, and the network with it.
OneLine(s) ==
  LET b == s.buf
      n == Min({LineArgs, Len(b.changes)})
      o == localgetops(s)
  IN [o EXCEPT !.net = Line(@, b, SubSeq(b.changes, 1, n)),
               !.buf = [Empty EXCEPT !.changes = SubSeq(b.changes, n + 1, Len(b.changes))]]

\* MUTANT: what does not fit the first line is left.
Bug_localsetmodeflush(s, flushall) == IF s.buf = Empty THEN s ELSE OneLine(s)

RECURSIVE localsetmodeflush(_, _)
localsetmodeflush(s, flushall) ==
  IF s.buf = Empty THEN s
  ELSE LET t == OneLine(s) IN
       IF flushall /\ t.buf.changes # <<>> THEN localsetmodeflush(t, TRUE) ELSE t

\* Room for one more change.
MadeRoom(s) == IF Len(s.buf.changes) >= MAXMODEARGS THEN localsetmodeflush(s, FALSE) ELSE s
Noted(s, e) == [s EXCEPT !.buf.changes = Append(@, e)]

Init ==
  /\ chan = {<<"o", source>>}
  /\ net = chan
  /\ buf = NONE

-----------------------------------------------------------------------------
InBatch == buf # NONE

\* The change has been made in this batch before, and has not been flushed since.
Made(f, x) == \E i \in DOMAIN buf.changes : buf.changes[i].flag = f /\ buf.changes[i].str = x
Adding(f) == \E i \in DOMAIN buf.changes : buf.changes[i].flag = f /\ buf.changes[i].dir = "add"

localsetmodeinit ==
  /\ ~InBatch
  /\ buf' = Empty
  /\ UNCHANGED <<chan, net>>

\* localsetmodeflush() with flushall ends the batch.
EndBatch ==
  /\ InBatch
  /\ LET s == localsetmodeflush(State, TRUE) IN chan' = s.chan /\ net' = s.net
  /\ buf' = NONE

\* localdosetmode_nick() with one bit of modes; with more bits it does one after the other. The view
\* is changed before there is room. Services leave their own modes alone.
localdosetmode_nick(u, f, dir) ==
  /\ InBatch
  /\ Made(f, u) => TakesBack
  /\ (<<f, u>> \in chan) = (dir = "del")
  /\ LET c == IF dir = "del" THEN Minus(chan, f, u) ELSE With(chan, f, u)
     IN Becomes(Noted(MadeRoom([State EXCEPT !.chan = c]), Change(dir, f, u)))

\* localdosetmode_ban(), without bans that cover each other.
localdosetmode_ban(x, dir) ==
  /\ InBatch
  /\ Made("b", x) => TakesBack
  /\ (<<"b", x>> \in chan) = (dir = "del")
  /\ LET c == IF dir = "del" THEN Minus(chan, "b", x) ELSE With(chan, "b", x)
     IN Becomes(Noted(MadeRoom([State EXCEPT !.chan = c]), Change(dir, "b", x)))

\* The place of the pending change of the key, or of the limit.
Pending(b, f) == SelectInSeq(b.changes, LAMBDA e : e.flag = f)

\* localdosetmode_key() with MCB_ADD. A key that replaces one in the buffer is freed.
AddKey(k) ==
  /\ InBatch
  /\ Adding("k") => TakesBack
  /\ LET s == MadeRoom(State)
         i == Pending(s.buf, "k")
         Put(t) == Noted([t EXCEPT !.chan = With(@, "k", k)], Change("add", "k", k))
     IN Becomes(
          IF i # 0 /\ s.buf.changes[i].dir = "add"
          THEN [s EXCEPT !.buf.changes[i].str = FREED, !.chan = With(@, "k", k)]
          ELSE LET t == IF i # 0 THEN localsetmodeflush(s, TRUE) ELSE s IN
               IF ~Has(t.chan, "k") THEN Put(t)
               ELSE IF <<"k", k>> \in t.chan THEN t
               ELSE Put(localsetmodeflush(Noted(t, Change("del", "k", Value(t.chan, "k"))), TRUE)))

\* localdosetmode_key() with MCB_DEL
DelKey ==
  /\ InBatch
  /\ LET s == MadeRoom(State)
         i == Pending(s.buf, "k")
         t == [s EXCEPT !.chan = Without(@, "k")]
     IN Becomes(
          IF ~Has(s.chan, "k") THEN s
          ELSE IF i # 0 THEN [t EXCEPT !.buf.changes = RemoveAt(@, i)]
          ELSE Noted(t, Change("del", "k", Value(s.chan, "k"))))

\* localdosetmode_limit() with MCB_ADD
localdosetmode_limit(n) ==
  /\ InBatch
  /\ <<"l", n>> \notin chan
  /\ LET s == [State EXCEPT !.chan = With(@, "l", n), !.buf.delflags = @ \ {"l"}]
         i == Pending(s.buf, "l")
     IN Becomes(IF i # 0 THEN [s EXCEPT !.buf.changes[i].str = n]
                ELSE Noted(MadeRoom(s), Change("add", "l", n)))

\* localdosetmode_simple(), also for the removal of the limit. Only the first change in the buffer
\* is looked at for a limit to be set, and goes.
localdosetmode_simple(add, del) ==
  /\ InBatch
  /\ "l" \in del /\ Adding("l") => TakesBack
  /\ LET set == {f \in Simple : <<f, NONE>> \in chan} \cup {f \in {"l"} : Has(chan, "l")}
         wanted == add \ (del \cup set)
         added == IF "s" \in wanted THEN wanted \ {"p"} ELSE wanted
         deleted == ((del \cup {f \in {"p"} : "s" \in added} \cup {f \in {"s"} : "p" \in added}) \cap set)
         first == buf.changes # <<>> /\ Head(buf.changes).flag = "l"
     IN /\ chan' = {m \in chan : m[1] \notin deleted} \cup (added \X {NONE})
        /\ buf' = [addflags |-> (buf.addflags \ deleted) \cup added,
                   delflags |-> (buf.delflags \ added) \cup deleted,
                   changes |-> IF "l" \in deleted /\ first THEN Tail(buf.changes) ELSE buf.changes]
        /\ UNCHANGED net

\* Somebody deops the service between two batches.
SourceDeopped ==
  /\ ~InBatch
  /\ chan' = chan \ {<<"o", source>>}
  /\ net' = net \ {<<"o", source>>}
  /\ UNCHANGED buf

Next ==
  \/ localsetmodeinit \/ EndBatch \/ SourceDeopped \/ DelKey
  \/ \E u \in Users, f \in UserModes, dir \in {"add", "del"} : localdosetmode_nick(u, f, dir)
  \/ \E x \in Bans, dir \in {"add", "del"} : localdosetmode_ban(x, dir)
  \/ \E k \in Keys : AddKey(k)
  \/ \E n \in Limits : localdosetmode_limit(n)
  \/ \E del \in SUBSET (Simple \cup {"l"}) : \E add \in SUBSET (Simple \ del) : localdosetmode_simple(add, del)

Spec == Init /\ [][Next]_vars

-----------------------------------------------------------------------------
\* localsetmodeflush(): flushed at any point of a batch, the buffer makes the network's view of the
\* channel the same as ours, however often it has been full, or has been sent for a key, before.
FlushTells ==
  IF InBatch THEN LET s == localsetmodeflush(State, TRUE) IN s.net = s.chan ELSE net = chan

\* localdosetmode_simple() says it checks "for +l in the parametered changes": when our view has no
\* limit any more, none is waiting to be set on the network.
NoLimitComesBack == InBatch /\ ~Has(chan, "l") => Pending(buf, "l") = 0
=============================================================================
