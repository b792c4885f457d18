--------------------------- MODULE IrcLinkProofs ---------------------------
(***************************************************************************)
(* Proofs about the link of IrcLink, for any number of hubs and any        *)
(* behaviour of theirs.                                                    *)
(*                                                                         *)
(* What is open and which timers are pending cannot be told apart from     *)
(* where handledata() is in the lines it has read: a SERVER line that was  *)
(* parsed after the connection went down would connect a closed socket.    *)
(***************************************************************************)
EXTENDS IrcLink, TLAPS

\* The SERVER line is the second line of a connection, wherever the others are.
ServerLineSecond ==
  \A i \in DOMAIN inbuf : inbuf[i] = "SERVER" => linesreceived + i = 2

\* The connection is still open when the second line has not been parsed, and stays up to
\* then without a hub.
EarlyLines ==
  /\ connected => linesreceived >= 2
  /\ inbuf # <<>> /\ linesreceived < 2 => serverfd = "open"

\* Lines are left over only while handledata() is in its loop.
BufferParsed == parsing = "no" => inbuf = <<>>

LinkInv ==
  /\ TypeOK
  /\ AlwaysReconnecting /\ HubIffConnected /\ AsyncIsForThisLink
  /\ ServerLineSecond /\ EarlyLines /\ BufferParsed

-----------------------------------------------------------------------------
LEMMA NextInHubs ==
  ASSUME NEW h \in Hubs
  PROVE  /\ (h + 1) % hubcount \in Hubs
         /\ hubcount > 1 => (h + 1) % hubcount # h
<1>1. hubcount \in Nat \ {0} /\ h \in 0 .. hubcount - 1
  BY IrcLinkAssumption DEF Hubs
<1>2. (h + 1) % hubcount \in 0 .. hubcount - 1
  BY <1>1
<1>3. CASE h = hubcount - 1
  <2>1. (h + 1) % hubcount = 0
    BY <1>1, <1>3
  <2> QED BY <2>1, <1>1, <1>2, <1>3 DEF Hubs
<1>4. CASE h < hubcount - 1
  <2>1. (h + 1) % hubcount = h + 1
    BY <1>1, <1>4
  <2> QED BY <2>1, <1>1, <1>2 DEF Hubs
<1> QED BY <1>1, <1>3, <1>4

LEMMA NextHubInHubs ==
  ASSUME TypeOK, NextHub
  PROVE  hubnum' \in Hubs /\ previouslyconnected' \in BOOLEAN
<1>1. 0 \in Hubs /\ (hubcount >= 2 => 1 \in Hubs) /\ hubcount \in Nat
  BY IrcLinkAssumption DEF Hubs
<1>2. (hubnum + 1) % hubcount \in Hubs
  BY NextInHubs DEF TypeOK
<1>3. nexthub \in Hubs
  <2>1. CASE previouslyconnected
    BY <1>1, <2>1 DEF nexthub
  <2>2. CASE ~previouslyconnected
    BY <1>2, <2>2 DEF nexthub
  <2> QED BY <2>1, <2>2
<1> QED BY <1>3 DEF NextHub

-----------------------------------------------------------------------------
(* What the steps have in common. *)

\* irc_disconnected(0) leaves nothing open and one irc_connect timer.
LEMMA DisconnectedInv ==
  ASSUME LinkInv, NEW was \in BOOLEAN, connected => was, Disconnected(was),
         hubnum' \in Hubs, previouslyconnected' \in BOOLEAN, UNCHANGED awaitingping,
         inbuf' \in Seq(Lines), linesreceived' \in 0 .. 3, parsing' \in {"no", "once", "again"},
         ServerLineSecond', BufferParsed', inbuf' # <<>> => linesreceived' >= 2,
         faults' \in 0 .. MaxFaults, rehashes' \in 0 .. MaxRehashes
  PROVE  LinkInv'
<1>1. connects' = 1 /\ pings' = 0 /\ disconnect_schedule' = FALSE
  BY DEF LinkInv, AlwaysReconnecting, Disconnected, TimersReset
<1>2. /\ serverfd' = "closed" /\ registered' = FALSE /\ connected' = FALSE
      /\ dialled' = dialled
  BY DEF Disconnected
<1>3. myhub' = FALSE
  BY DEF LinkInv, TypeOK, HubIffConnected, Disconnected
<1>4. TypeOK'
  <2>1. /\ serverfd' \in {"initial", "closed", "open"}
        /\ registered' \in BOOLEAN /\ connected' \in BOOLEAN /\ myhub' \in BOOLEAN
        /\ disconnect_schedule' \in BOOLEAN
    BY <1>1, <1>2, <1>3
  <2>2. awaitingping' \in BOOLEAN /\ dialled' \in Hubs
    BY <1>2 DEF LinkInv, TypeOK
  <2>3. connects' \in 0 .. 1 /\ pings' \in 0 .. 1
    BY <1>1
  <2> QED BY <2>1, <2>2, <2>3 DEF TypeOK
<1>5. AlwaysReconnecting' /\ HubIffConnected' /\ AsyncIsForThisLink'
  BY <1>1, <1>2, <1>3 DEF AlwaysReconnecting, HubIffConnected, AsyncIsForThisLink
<1>6. EarlyLines'
  BY <1>2 DEF EarlyLines
<1> QED BY <1>4, <1>5, <1>6 DEF LinkInv

LEMMA HubAfterDisconnect ==
  ASSUME TypeOK, irc_disconnected
  PROVE  /\ hubnum' \in Hubs /\ previouslyconnected' \in BOOLEAN
         /\ Disconnected(connected) /\ connected \in BOOLEAN
<1>1. CASE connected
  BY <1>1 DEF TypeOK, irc_disconnected, hubs
<1>2. CASE ~connected
  BY <1>2, NextHubInHubs DEF TypeOK, irc_disconnected
<1> QED BY <1>1, <1>2

\* parseline(): one line less, and one more counted.
LEMMA TakeLineInv ==
  ASSUME LinkInv, TakeLine
  PROVE  /\ inbuf' \in Seq(Lines) /\ linesreceived' \in 0 .. 3
         /\ parsing' = parsing /\ parsing \in {"once", "again"}
         /\ ServerLineSecond' /\ BufferParsed'
         /\ linesreceived' = IF linesreceived < 3 THEN linesreceived + 1 ELSE 3
         /\ linesreceived' >= linesreceived
         /\ linesreceived < 2 => serverfd = "open"
         /\ Head(inbuf) = "SERVER" => linesreceived = 1
<1>1. inbuf \in Seq(Lines) /\ inbuf # <<>> /\ linesreceived \in 0 .. 3
  BY DEF LinkInv, TypeOK, TakeLine
<1>2. /\ inbuf' = Tail(inbuf) /\ parsing' = parsing
      /\ linesreceived' = IF linesreceived < 3 THEN linesreceived + 1 ELSE 3
  BY DEF TakeLine
<1>3. ServerLineSecond'
  <2> SUFFICES ASSUME NEW i \in DOMAIN inbuf', inbuf'[i] = "SERVER"
               PROVE  linesreceived' + i = 2
    BY DEF ServerLineSecond
  <2>1. i \in Nat \ {0} /\ i + 1 \in DOMAIN inbuf /\ inbuf'[i] = inbuf[i + 1]
    BY <1>1, <1>2
  <2>2. linesreceived + (i + 1) = 2
    BY <2>1 DEF LinkInv, ServerLineSecond
  <2> QED BY <2>1, <2>2, <1>1, <1>2
<1>4. Head(inbuf) = "SERVER" => linesreceived = 1
  <2>1. 1 \in DOMAIN inbuf /\ Head(inbuf) = inbuf[1]
    BY <1>1
  <2> QED BY <2>1, <1>1 DEF LinkInv, ServerLineSecond
<1>5. inbuf' \in Seq(Lines)
  BY <1>1, <1>2
<1>6. parsing \in {"once", "again"} /\ BufferParsed'
  BY <1>2 DEF LinkInv, TypeOK, TakeLine, BufferParsed
<1>7. linesreceived < 2 => serverfd = "open"
  BY <1>1 DEF LinkInv, EarlyLines
<1> QED BY <1>1, <1>2, <1>3, <1>4, <1>5, <1>6, <1>7

\* A step that writes, or does not, on the connection as it is.
LEMMA MayWrite ==
  ASSUME LinkInv, NEW fd, WriteError(fd) \/ NoWriteError,
         serverfd' = "open" \/ (UNCHANGED serverfd /\ fd = serverfd)
  PROVE  /\ disconnect_schedule' \in BOOLEAN /\ faults' \in 0 .. MaxFaults
         /\ AsyncIsForThisLink'
<1>1. CASE WriteError(fd)
  BY <1>1, IrcLinkAssumption DEF LinkInv, TypeOK, WriteError, AsyncIsForThisLink
<1>2. CASE NoWriteError
  BY <1>2 DEF LinkInv, TypeOK, NoWriteError, AsyncIsForThisLink
<1> QED BY <1>1, <1>2

-----------------------------------------------------------------------------
(* The invariant. *)

LEMMA LinkInvInit == Init => LinkInv
<1> SUFFICES ASSUME Init PROVE LinkInv
  OBVIOUS
<1>1. 0 \in Hubs /\ 0 \in 0 .. MaxFaults /\ 0 \in 0 .. MaxRehashes
  BY IrcLinkAssumption DEF Hubs
<1>2. TypeOK
  <2>1. /\ registered \in BOOLEAN /\ connected \in BOOLEAN /\ awaitingping \in BOOLEAN
        /\ previouslyconnected \in BOOLEAN /\ myhub \in BOOLEAN
        /\ disconnect_schedule \in BOOLEAN
    BY DEF Init
  <2>2. inbuf \in Seq(Lines) /\ linesreceived \in 0 .. 3 /\ connects \in 0 .. 1 /\ pings \in 0 .. 1
    BY DEF Init
  <2> QED BY <1>1, <2>1, <2>2 DEF Init, TypeOK
<1>3. AlwaysReconnecting /\ HubIffConnected /\ AsyncIsForThisLink
  BY DEF Init, AlwaysReconnecting, HubIffConnected, AsyncIsForThisLink
<1>4. ServerLineSecond /\ EarlyLines /\ BufferParsed
  BY DEF Init, ServerLineSecond, EarlyLines, BufferParsed
<1> QED BY <1>2, <1>3, <1>4 DEF LinkInv

LEMMA ConnectFailsInv == LinkInv /\ ConnectFails => LinkInv'
<1> SUFFICES ASSUME LinkInv, ConnectFails PROVE LinkInv'
  OBVIOUS
<1> USE DEF LinkInv
<1>1. /\ UNCHANGED <<serverfd, registered, connected, myhub, dialled, connects, pings>>
      /\ UNCHANGED <<disconnect_schedule, parsing, faults, rehashes>>
      /\ awaitingping' = FALSE /\ inbuf' = <<>> /\ linesreceived' = 0
  BY DEF ConnectFails, link, timers, bounds
<1>2. hubnum' \in Hubs /\ previouslyconnected' \in BOOLEAN
  BY NextHubInHubs DEF ConnectFails
<1>3. TypeOK'
  <2>1. awaitingping' \in BOOLEAN
    BY <1>1
  <2>2. inbuf' \in Seq(Lines) /\ linesreceived' \in 0 .. 3
    BY <1>1
  <2> QED BY <1>1, <1>2, <2>1, <2>2 DEF TypeOK
<1>4. ~connected
  BY DEF ConnectFails, AlwaysReconnecting, HubIffConnected
<1>5. AlwaysReconnecting' /\ HubIffConnected' /\ AsyncIsForThisLink'
  BY <1>1 DEF AlwaysReconnecting, HubIffConnected, AsyncIsForThisLink
<1>6. ServerLineSecond' /\ EarlyLines' /\ BufferParsed'
  BY <1>1, <1>4 DEF ServerLineSecond, EarlyLines, BufferParsed
<1> QED BY <1>3, <1>5, <1>6

LEMMA ConnectInv == LinkInv /\ irc_connect => LinkInv'
<1> SUFFICES ASSUME LinkInv, irc_connect PROVE LinkInv'
  OBVIOUS
<1> USE DEF LinkInv
<1>1. /\ UNCHANGED <<connected, myhub, hubnum, previouslyconnected, parsing, rehashes>>
      /\ serverfd' = "open" /\ registered' = TRUE /\ dialled' = hubnum
      /\ connects' = connects - 1 /\ pings' = pings + 1
      /\ awaitingping' = FALSE /\ inbuf' = <<>> /\ linesreceived' = 0
  BY DEF irc_connect, hubs
<1>2. connects = 1 /\ pings = 0 /\ ~connected
  BY DEF irc_connect, TypeOK, AlwaysReconnecting, HubIffConnected
<1>3. disconnect_schedule' \in BOOLEAN /\ faults' \in 0 .. MaxFaults /\ AsyncIsForThisLink'
  BY <1>1, MayWrite DEF irc_connect
<1>4. connects' = 0 /\ pings' = 1
  BY <1>1, <1>2
<1>5. TypeOK'
  <2>1. registered' \in BOOLEAN /\ awaitingping' \in BOOLEAN
    BY <1>1
  <2>2. inbuf' \in Seq(Lines) /\ linesreceived' \in 0 .. 3
    BY <1>1
  <2>3. connects' \in 0 .. 1 /\ pings' \in 0 .. 1
    BY <1>4
  <2> QED BY <1>1, <1>3, <2>1, <2>2, <2>3 DEF TypeOK
<1>6. AlwaysReconnecting' /\ HubIffConnected'
  BY <1>1, <1>2, <1>4 DEF AlwaysReconnecting, HubIffConnected
<1>7. ServerLineSecond' /\ EarlyLines' /\ BufferParsed'
  BY <1>1, <1>2 DEF ServerLineSecond, EarlyLines, BufferParsed
<1> QED BY <1>3, <1>5, <1>6, <1>7

\* Steps that leave the connection and the buffer alone: they write, change the hub to dial
\* or send a ping.
LEMMA SameLinkInv ==
  ASSUME LinkInv, UNCHANGED <<link, connects, pings, buffer>>,
         hubnum' \in Hubs, previouslyconnected' \in BOOLEAN, awaitingping' \in BOOLEAN,
         rehashes' \in 0 .. MaxRehashes, faults' \in 0 .. MaxFaults,
         disconnect_schedule' \in BOOLEAN, AsyncIsForThisLink'
  PROVE  LinkInv'
<1> USE DEF LinkInv
<1>1. /\ UNCHANGED <<serverfd, registered, connected, myhub, dialled, connects, pings>>
      /\ UNCHANGED <<inbuf, linesreceived, parsing>>
  BY DEF link, buffer
<1>2. TypeOK'
  BY <1>1 DEF TypeOK
<1>3. AlwaysReconnecting' /\ HubIffConnected'
  BY <1>1 DEF AlwaysReconnecting, HubIffConnected
<1>4. ServerLineSecond' /\ EarlyLines' /\ BufferParsed'
  BY <1>1 DEF ServerLineSecond, EarlyLines, BufferParsed
<1> QED BY <1>2, <1>3, <1>4

LEMMA WritingInv ==
  ASSUME LinkInv, sendping \/ SendElsewhere \/ ircrehash
  PROVE  LinkInv'
<1>1. CASE sendping
  <2>1. disconnect_schedule' \in BOOLEAN /\ faults' \in 0 .. MaxFaults /\ AsyncIsForThisLink'
    BY <1>1, MayWrite DEF sendping, link
  <2>2. /\ UNCHANGED <<link, connects, pings, buffer>>
        /\ hubnum' = hubnum /\ previouslyconnected' = previouslyconnected
        /\ awaitingping' = TRUE /\ rehashes' = rehashes
    BY <1>1 DEF sendping, hubs
  <2>3. /\ hubnum' \in Hubs /\ previouslyconnected' \in BOOLEAN
        /\ awaitingping' \in BOOLEAN /\ rehashes' \in 0 .. MaxRehashes
    BY <2>2 DEF LinkInv, TypeOK
  <2> QED BY <2>1, <2>2, <2>3, SameLinkInv
<1>2. CASE SendElsewhere
  <2>1. disconnect_schedule' \in BOOLEAN /\ faults' \in 0 .. MaxFaults /\ AsyncIsForThisLink'
    BY <1>2, MayWrite DEF SendElsewhere, link
  <2>2. /\ UNCHANGED <<link, connects, pings, buffer>>
        /\ UNCHANGED <<hubnum, previouslyconnected, awaitingping, rehashes>>
    BY <1>2 DEF SendElsewhere, hubs
  <2>3. /\ hubnum' \in Hubs /\ previouslyconnected' \in BOOLEAN
        /\ awaitingping' \in BOOLEAN /\ rehashes' \in 0 .. MaxRehashes
    BY <2>2 DEF LinkInv, TypeOK
  <2> QED BY <2>1, <2>2, <2>3, SameLinkInv
<1>3. CASE ircrehash
  <2>1. /\ UNCHANGED <<link, connects, pings, disconnect_schedule, buffer>>
        /\ UNCHANGED <<previouslyconnected, awaitingping, faults>>
        /\ hubnum' = 0 /\ rehashes' = rehashes + 1 /\ rehashes < MaxRehashes
    BY <1>3 DEF ircrehash, timers
  <2>2. 0 \in Hubs
    BY IrcLinkAssumption DEF Hubs
  <2>3. /\ hubnum' \in Hubs /\ previouslyconnected' \in BOOLEAN /\ awaitingping' \in BOOLEAN
        /\ faults' \in 0 .. MaxFaults /\ disconnect_schedule' \in BOOLEAN
    BY <2>1, <2>2 DEF LinkInv, TypeOK
  <2>4. rehashes' \in 0 .. MaxRehashes
    BY <2>1, IrcLinkAssumption DEF LinkInv, TypeOK
  <2>5. AsyncIsForThisLink'
    BY <2>1 DEF link, LinkInv, AsyncIsForThisLink
  <2> QED BY <2>1, <2>3, <2>4, <2>5, SameLinkInv
<1> QED BY <1>1, <1>2, <1>3

\* Steps that bring the connection down outside of parseline().
LEMMA ClosingInv ==
  ASSUME LinkInv, PingTimeout \/ ConnectTimeout \/ async_disconnect_handler \/ ConnectionLost
  PROVE  LinkInv'
<1> USE DEF LinkInv
<1>1. UNCHANGED <<awaitingping, buffer, rehashes>>
  BY DEF PingTimeout, ConnectTimeout, async_disconnect_handler, ConnectionLost, bounds
<1>2. inbuf = <<>> /\ Idle
  BY DEF PingTimeout, ConnectTimeout, async_disconnect_handler, ConnectionLost, Idle, BufferParsed
<1>3. faults' \in 0 .. MaxFaults /\ rehashes' \in 0 .. MaxRehashes
  BY <1>1, IrcLinkAssumption DEF PingTimeout, ConnectTimeout, async_disconnect_handler,
       ConnectionLost, bounds, TypeOK
<1>4. /\ inbuf' \in Seq(Lines) /\ linesreceived' \in 0 .. 3
      /\ parsing' \in {"no", "once", "again"}
      /\ inbuf' = <<>>
  BY <1>1, <1>2 DEF buffer, TypeOK
<1>5. ServerLineSecond' /\ BufferParsed'
  BY <1>4 DEF ServerLineSecond, BufferParsed
<1>6. awaitingping' = awaitingping
  BY <1>1
<1>7. CASE ConnectTimeout
  <2>1. Disconnected(TRUE) /\ hubnum' \in Hubs /\ previouslyconnected' \in BOOLEAN
    BY <1>7, NextHubInHubs DEF ConnectTimeout
  <2> QED BY <2>1, <1>3, <1>4, <1>5, <1>6, DisconnectedInv
<1>8. CASE irc_disconnected
  <2>1. /\ hubnum' \in Hubs /\ previouslyconnected' \in BOOLEAN
        /\ Disconnected(connected) /\ connected \in BOOLEAN
    BY <1>8, HubAfterDisconnect
  <2> QED BY <2>1, <1>3, <1>4, <1>5, <1>6, DisconnectedInv
<1> QED BY <1>7, <1>8 DEF PingTimeout, async_disconnect_handler, ConnectionLost

LEMMA ReceiveInv == LinkInv /\ Receive => LinkInv'
<1> SUFFICES ASSUME LinkInv, Receive PROVE LinkInv'
  OBVIOUS
<1> USE DEF LinkInv
<1>1. PICK n \in 1 .. MaxLines : \E ls \in [1 .. n -> Lines] : Sendable(ls) /\ inbuf' = ls
  BY DEF Receive
<1>2. PICK ls \in [1 .. n -> Lines] : Sendable(ls) /\ inbuf' = ls
  BY <1>1
<1>3. /\ UNCHANGED <<serverfd, registered, connected, myhub, dialled, awaitingping, hubnum>>
      /\ UNCHANGED <<previouslyconnected, connects, pings, disconnect_schedule>>
      /\ UNCHANGED <<linesreceived, faults, rehashes>>
      /\ parsing' \in {"once", "again"}
  BY DEF Receive, link, hubs, timers, bounds
<1>4. inbuf' \in Seq(Lines)
  BY <1>2, IrcLinkAssumption
<1>5. TypeOK'
  BY <1>3, <1>4 DEF TypeOK
<1>6. AlwaysReconnecting' /\ HubIffConnected' /\ AsyncIsForThisLink'
  BY <1>3 DEF AlwaysReconnecting, HubIffConnected, AsyncIsForThisLink
<1>7. ServerLineSecond'
  BY <1>2, <1>3 DEF ServerLineSecond, Sendable
<1>8. serverfd = "open"
  BY DEF Receive, AlwaysReconnecting
<1>9. EarlyLines' /\ BufferParsed'
  BY <1>3, <1>8 DEF EarlyLines, BufferParsed
<1> QED BY <1>5, <1>6, <1>7, <1>9

LEMMA ServerLineInv == LinkInv /\ irc_handleserver => LinkInv'
<1> SUFFICES ASSUME LinkInv, irc_handleserver PROVE LinkInv'
  OBVIOUS
<1> USE DEF LinkInv
<1>1. TakeLine /\ Head(inbuf) = "SERVER"
  BY DEF irc_handleserver
<1>2. /\ inbuf' \in Seq(Lines) /\ linesreceived' \in 0 .. 3
      /\ parsing' = parsing /\ parsing \in {"once", "again"}
      /\ ServerLineSecond' /\ BufferParsed'
      /\ linesreceived = 1 /\ linesreceived' = 2 /\ serverfd = "open"
  BY <1>1, TakeLineInv
<1>3. ~connected
  BY <1>2 DEF EarlyLines
<1>4. connected' = TRUE /\ previouslyconnected' = TRUE /\ myhub' = TRUE
  BY <1>2, <1>3 DEF irc_handleserver
<1>5. UNCHANGED <<serverfd, registered, dialled, awaitingping, hubnum, connects, pings, rehashes>>
  BY DEF irc_handleserver
<1>6. disconnect_schedule' \in BOOLEAN /\ faults' \in 0 .. MaxFaults /\ AsyncIsForThisLink'
  BY <1>5, MayWrite DEF irc_handleserver
<1>7. TypeOK'
  <2>1. connected' \in BOOLEAN /\ previouslyconnected' \in BOOLEAN /\ myhub' \in BOOLEAN
    BY <1>4
  <2> QED BY <1>2, <1>5, <1>6, <2>1 DEF TypeOK
<1>8. AlwaysReconnecting'
  BY <1>5 DEF AlwaysReconnecting
<1>9. HubIffConnected'
  BY <1>2, <1>4, <1>5 DEF HubIffConnected
<1>10. EarlyLines'
  BY <1>2, <1>5 DEF EarlyLines
<1> QED BY <1>2, <1>6, <1>7, <1>8, <1>9, <1>10

\* A line that leaves the connection as it is, or writes.
LEMMA LineInv ==
  ASSUME LinkInv, TakeLine, UNCHANGED <<link, hubs, connects, pings, rehashes>>,
         awaitingping' \in BOOLEAN, disconnect_schedule' \in BOOLEAN,
         faults' \in 0 .. MaxFaults, AsyncIsForThisLink'
  PROVE  LinkInv'
<1> USE DEF LinkInv
<1>1. /\ UNCHANGED <<serverfd, registered, connected, myhub, dialled>>
      /\ UNCHANGED <<hubnum, previouslyconnected, connects, pings, rehashes>>
  BY DEF link, hubs
<1>2. /\ inbuf' \in Seq(Lines) /\ linesreceived' \in 0 .. 3
      /\ parsing' = parsing /\ parsing \in {"once", "again"}
      /\ ServerLineSecond' /\ BufferParsed'
      /\ linesreceived' >= linesreceived /\ (linesreceived < 2 => serverfd = "open")
  BY TakeLineInv
<1>3. TypeOK'
  BY <1>1, <1>2 DEF TypeOK
<1>4. AlwaysReconnecting' /\ HubIffConnected'
  BY <1>1 DEF AlwaysReconnecting, HubIffConnected
<1>5. EarlyLines'
  BY <1>1, <1>2 DEF EarlyLines, TypeOK
<1> QED BY <1>2, <1>3, <1>4, <1>5

LEMMA OtherLinesInv ==
  ASSUME LinkInv, handlepingreply \/ OtherLine
  PROVE  LinkInv'
<1>1. CASE handlepingreply
  <2>1. TakeLine /\ UNCHANGED <<link, hubs, connects, pings, rehashes>>
    BY <1>1 DEF handlepingreply, timers, bounds
  <2>2. UNCHANGED <<disconnect_schedule, faults, serverfd>> /\ awaitingping' = FALSE
    BY <1>1 DEF handlepingreply, timers, bounds, link
  <2>3. awaitingping' \in BOOLEAN
    BY <2>2
  <2>4. disconnect_schedule' \in BOOLEAN /\ faults' \in 0 .. MaxFaults /\ AsyncIsForThisLink'
    BY <2>2 DEF LinkInv, TypeOK, AsyncIsForThisLink
  <2> QED BY <2>1, <2>3, <2>4, LineInv
<1>2. CASE OtherLine
  <2>1. TakeLine /\ UNCHANGED <<link, hubs, connects, pings, rehashes>>
    BY <1>2 DEF OtherLine
  <2>2. awaitingping' \in BOOLEAN
    BY <1>2 DEF OtherLine, LinkInv, TypeOK
  <2>3. disconnect_schedule' \in BOOLEAN /\ faults' \in 0 .. MaxFaults /\ AsyncIsForThisLink'
    BY <1>2, MayWrite DEF OtherLine, link
  <2> QED BY <2>1, <2>2, <2>3, LineInv
<1> QED BY <1>1, <1>2

LEMMA HubSquitInv == LinkInv /\ HubSquit => LinkInv'
<1> SUFFICES ASSUME LinkInv, HubSquit PROVE LinkInv'
  OBVIOUS
<1> USE DEF LinkInv
<1>1. TakeLine /\ UNCHANGED <<awaitingping, rehashes>>
  BY DEF HubSquit
<1>2. CASE myhub
  <2>1. irc_disconnected /\ faults' = IF faults < MaxFaults THEN faults + 1 ELSE faults
    BY <1>2 DEF HubSquit
  <2>2. /\ hubnum' \in Hubs /\ previouslyconnected' \in BOOLEAN
        /\ Disconnected(connected) /\ connected \in BOOLEAN
    BY <2>1, HubAfterDisconnect
  <2>3. faults' \in 0 .. MaxFaults
    BY <2>1, IrcLinkAssumption DEF TypeOK
  <2>4. rehashes' \in 0 .. MaxRehashes /\ awaitingping' = awaitingping
    BY <1>1 DEF TypeOK
  <2>5. linesreceived >= 2
    BY <1>2 DEF HubIffConnected, EarlyLines
  <2>6. /\ inbuf' \in Seq(Lines) /\ linesreceived' \in 0 .. 3
        /\ parsing' \in {"no", "once", "again"}
        /\ ServerLineSecond' /\ BufferParsed' /\ linesreceived' >= linesreceived
    BY <1>1, TakeLineInv
  <2>7. linesreceived' >= 2
    BY <2>5, <2>6 DEF TypeOK
  <2> QED BY <2>2, <2>3, <2>4, <2>6, <2>7, DisconnectedInv
<1>3. CASE ~myhub
  <2>1. UNCHANGED <<link, hubs, timers, faults>>
    BY <1>3 DEF HubSquit
  <2>2. /\ awaitingping' \in BOOLEAN /\ disconnect_schedule' \in BOOLEAN
        /\ faults' \in 0 .. MaxFaults
    BY <1>1, <2>1 DEF TypeOK, timers
  <2>3. AsyncIsForThisLink'
    BY <2>1 DEF link, timers, AsyncIsForThisLink
  <2>4. UNCHANGED <<link, hubs, connects, pings, rehashes>>
    BY <1>1, <2>1 DEF timers
  <2> QED BY <1>1, <2>2, <2>3, <2>4, LineInv
<1> QED BY <1>2, <1>3

LEMMA ParseDoneInv == LinkInv /\ ParseDone => LinkInv'
<1> SUFFICES ASSUME LinkInv, ParseDone PROVE LinkInv'
  OBVIOUS
<1> USE DEF LinkInv
<1>1. /\ UNCHANGED <<awaitingping, inbuf, linesreceived, faults, rehashes>>
      /\ parsing' = "no" /\ inbuf = <<>>
  BY DEF ParseDone, bounds
<1>2. /\ inbuf' \in Seq(Lines) /\ linesreceived' \in 0 .. 3
      /\ parsing' \in {"no", "once", "again"} /\ inbuf' = <<>>
      /\ faults' \in 0 .. MaxFaults /\ rehashes' \in 0 .. MaxRehashes
  BY <1>1 DEF TypeOK
<1>3. ServerLineSecond' /\ BufferParsed'
  BY <1>2 DEF ServerLineSecond, BufferParsed
<1>4. CASE irc_disconnected
  <2>1. /\ hubnum' \in Hubs /\ previouslyconnected' \in BOOLEAN
        /\ Disconnected(connected) /\ connected \in BOOLEAN
    BY <1>4, HubAfterDisconnect
  <2>2. awaitingping' = awaitingping
    BY <1>1
  <2> QED BY <2>1, <2>2, <1>2, <1>3, DisconnectedInv
<1>5. CASE UNCHANGED <<link, hubs, timers>>
  <2>1. /\ UNCHANGED <<serverfd, registered, connected, myhub, dialled, hubnum>>
        /\ UNCHANGED <<previouslyconnected, connects, pings, disconnect_schedule>>
    BY <1>5 DEF link, hubs, timers
  <2>2. TypeOK'
    BY <1>1, <1>2, <2>1 DEF TypeOK
  <2>3. AlwaysReconnecting' /\ HubIffConnected' /\ AsyncIsForThisLink'
    BY <2>1 DEF AlwaysReconnecting, HubIffConnected, AsyncIsForThisLink
  <2>4. EarlyLines'
    BY <1>1, <2>1 DEF EarlyLines
  <2> QED BY <1>3, <2>2, <2>3, <2>4
<1> QED BY <1>4, <1>5 DEF ParseDone

LEMMA LinkInvStep == LinkInv /\ [Next]_vars => LinkInv'
<1> SUFFICES ASSUME LinkInv, [Next]_vars PROVE LinkInv'
  OBVIOUS
<1>1. CASE Timer
  BY <1>1, ConnectFailsInv, ConnectInv, WritingInv, ClosingInv DEF Timer
<1>2. CASE ConnectionLost
  BY <1>2, ClosingInv
<1>3. CASE Receive
  BY <1>3, ReceiveInv
<1>4. CASE Parse
  BY <1>4, ServerLineInv, OtherLinesInv, HubSquitInv, ParseDoneInv DEF Parse
<1>5. CASE SendElsewhere \/ ircrehash
  BY <1>5, WritingInv
<1>6. CASE UNCHANGED vars
  <2> USE <1>6 DEF LinkInv, vars, link, hubs, timers, buffer, bounds
  <2>1. TypeOK'
    BY DEF TypeOK
  <2>2. AlwaysReconnecting' /\ HubIffConnected' /\ AsyncIsForThisLink'
    BY DEF AlwaysReconnecting, HubIffConnected, AsyncIsForThisLink
  <2>3. ServerLineSecond' /\ EarlyLines' /\ BufferParsed'
    BY DEF ServerLineSecond, EarlyLines, BufferParsed
  <2> QED BY <2>1, <2>2, <2>3
<1> QED BY <1>1, <1>2, <1>3, <1>4, <1>5, <1>6 DEF Next

LEMMA LinkInvAlways == Spec => []LinkInv
BY LinkInvInit, LinkInvStep, PTL DEF Spec

-----------------------------------------------------------------------------
\* irc_connect(), irc_disconnected(), sendping(): however the link goes down, in a timer, in
\* the middle of a read or by a write that failed, exactly one way back to a link is pending,
\* whatever hubs are configured.
THEOREM AlwaysOnTheWay == Spec => []AlwaysReconnecting
<1>1. LinkInv => AlwaysReconnecting
  BY DEF LinkInv
<1> QED BY <1>1, LinkInvAlways, PTL

\* irc_handleserver(), irc_disconnected(), handledisconnect(): connected, the server list's
\* hub and the open socket belong together, also for lines parsed after a disconnect.
THEOREM HubKnownIffConnected == Spec => []HubIffConnected
<1>1. LinkInv => HubIffConnected
  BY DEF LinkInv
<1> QED BY <1>1, LinkInvAlways, PTL

\* irc_disconnected(1): a disconnect that was put off never hits the next connection.
THEOREM AsyncHitsThisLink == Spec => []AsyncIsForThisLink
<1>1. LinkInv => AsyncIsForThisLink
  BY DEF LinkInv
<1> QED BY <1>1, LinkInvAlways, PTL

-----------------------------------------------------------------------------
(* The next hub. *)

LEMMA NextHubIsAnother ==
  ASSUME TypeOK, hubcount > 1, NextHub
  PROVE  hubnum' # hubnum
<1>1. (hubnum + 1) % hubcount # hubnum
  BY NextInHubs DEF TypeOK
<1>2. nexthub # hubnum
  <2>1. CASE previouslyconnected
    <3>1. hubcount \in Nat /\ ~(hubcount < 2)
      BY IrcLinkAssumption
    <3>2. CASE hubnum = 0
      BY <2>1, <3>1, <3>2 DEF nexthub
    <3>3. CASE hubnum # 0
      BY <2>1, <3>3 DEF nexthub
    <3> QED BY <3>2, <3>3
  <2>2. CASE ~previouslyconnected
    BY <2>2, <1>1 DEF nexthub
  <2> QED BY <2>1, <2>2
<1> QED BY <1>2 DEF NextHub

LEMMA ClosedByHub ==
  ASSUME Next, serverfd = "open", serverfd' = "closed", ~connected, HubIffConnected
  PROVE  NextHub
<1>1. CASE irc_disconnected
  BY <1>1 DEF irc_disconnected
<1>2. CASE ConnectTimeout
  BY <1>2 DEF ConnectTimeout
<1>3. CASE irc_connect
  BY <1>3 DEF irc_connect
<1>4. CASE ConnectFails \/ sendping \/ Receive \/ SendElsewhere \/ ircrehash
  BY <1>4 DEF ConnectFails, sendping, Receive, SendElsewhere, ircrehash, link
<1>5. CASE PingTimeout \/ async_disconnect_handler \/ ConnectionLost
  BY <1>1, <1>5 DEF PingTimeout, async_disconnect_handler, ConnectionLost
<1>6. CASE irc_handleserver \/ handlepingreply \/ OtherLine
  BY <1>6 DEF irc_handleserver, handlepingreply, OtherLine, link
<1>7. CASE HubSquit
  <2>1. UNCHANGED link
    BY <1>7 DEF HubSquit, HubIffConnected
  <2> QED BY <2>1 DEF link
<1>8. CASE ParseDone
  <2>1. UNCHANGED link
    BY <1>8 DEF ParseDone
  <2> QED BY <2>1 DEF link
<1> QED
  BY <1>2, <1>3, <1>4, <1>5, <1>6, <1>7, <1>8 DEF Next, Timer, Parse

\* nexthub(): a hub that fails before it has linked is not the one tried next, in a list of
\* any length.
THEOREM HubsTakeTurns == Spec => MovesOn
<1>1. LinkInv /\ [Next]_vars =>
        [serverfd = "open" /\ serverfd' = "closed" /\ ~connected /\ hubcount > 1 /\ hubnum = dialled
           => hubnum' # dialled]_vars
  <2> SUFFICES ASSUME LinkInv, Next, serverfd = "open", serverfd' = "closed", ~connected,
                      hubcount > 1, hubnum = dialled
               PROVE  hubnum' # dialled
    OBVIOUS
  <2>1. TypeOK /\ HubIffConnected
    BY DEF LinkInv
  <2>2. NextHub
    BY <2>1, ClosedByHub
  <2> QED BY <2>1, <2>2, NextHubIsAnother
<1> QED BY <1>1, LinkInvAlways, PTL DEF Spec, MovesOn
=============================================================================
