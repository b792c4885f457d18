------------------------------- MODULE IrcLink ------------------------------
(***************************************************************************)
(* The connection of irc/irc.c to the network: its socket, its three       *)
(* timers (irc_connect, sendping and async_disconnect_handler), the choice *)
(* of the next hub, and handledata(), which goes on with the lines it has  *)
(* read after one of them has brought the connection down.                 *)
(*                                                                         *)
(* Delays are left out: a timer that is pending may fire at any time.  A   *)
(* handler may fail to write at any time, which puts the disconnection off *)
(* to a timer, because the handler and those behind it still use the       *)
(* connection.                                                             *)
(***************************************************************************)
EXTENDS Integers, Sequences, FiniteSets

CONSTANTS
  hubcount,    \* the hubs in the configuration
  Behaviour,   \* what each hub does: see below
  MaxFaults,   \* bound: write errors, lost connections, late ping replies
  MaxRehashes, \* bound: reloads of the configuration
  MaxLines     \* bound: lines read at once

\* "good": links and stays; "down": refuses; "mute": accepts and says nothing;
\* "closing": accepts and closes before it has sent its SERVER line.
ASSUME IrcLinkAssumption ==
  /\ hubcount \in Nat \ {0}
  /\ Behaviour \in [0 .. hubcount - 1 -> {"good", "down", "mute", "closing"}]
  /\ MaxFaults \in Nat /\ MaxRehashes \in Nat /\ MaxLines \in Nat \ {0}

VARIABLES
  serverfd,           \* "initial" is the 0 of an uninitialised global, "closed" is -1
  registered,         \* handledata() is the handler of the open socket
  connected,
  awaitingping,
  hubnum,
  previouslyconnected,
  myhub,              \* server/server.c: our uplink is in the server list
  connects,           \* how many irc_connect timers are pending
  pings,              \* how many sendping timers are pending
  disconnect_schedule,\* async_disconnect_handler is pending, and irc_disconnected() knows it
  inbuf,              \* the complete lines read and not yet parsed
  linesreceived,      \* 3 stands for any larger number
  parsing,            \* handledata() is in its loop; "again" when it will read once more
  dialled,            \* history: the hub of the open socket
  faults, rehashes    \* used up of the bounds

timers == <<connects, pings, disconnect_schedule>>
buffer == <<inbuf, linesreceived, parsing>>
link == <<serverfd, registered, connected, myhub, dialled>>
hubs == <<hubnum, previouslyconnected>>
bounds == <<faults, rehashes>>
vars == <<link, awaitingping, hubs, timers, buffer, bounds>>

Hubs == 0 .. hubcount - 1
Lines == {"SERVER", "Z", "SQ", "DATA"}

Init ==
  /\ serverfd = "initial" /\ registered = FALSE
  /\ connected = FALSE /\ awaitingping = FALSE
  /\ hubnum = 0 /\ previouslyconnected = FALSE
  /\ myhub = FALSE /\ dialled = 0
  /\ connects = 1 /\ pings = 0 /\ disconnect_schedule = FALSE
  /\ inbuf = <<>> /\ linesreceived = 0 /\ parsing = "no"
  /\ faults = 0 /\ rehashes = 0

\* The event loop runs timers and socket handlers one at a time.
Idle == parsing = "no"

-----------------------------------------------------------------------------
\* MUTANT: the hub that has just failed is tried again after a connection that worked.
Bug_nexthub ==
  IF previouslyconnected THEN 0 ELSE (hubnum + 1) % hubcount

\* The hub to try after a failure: the first one if the link had been up before, or the
\* second if it was the first that failed; otherwise the next in the list.
nexthub ==
  IF previouslyconnected THEN IF hubcount < 2 \/ hubnum # 0 THEN 0 ELSE 1
  ELSE (hubnum + 1) % hubcount

NextHub == hubnum' = nexthub /\ previouslyconnected' = FALSE

\* MUTANTS: the timers of the old connection stay; its disconnection stays pending.
Bug_TimersKept ==
  /\ connects' = connects + 1
  /\ UNCHANGED pings
  /\ disconnect_schedule' = FALSE

Bug_AsyncKept ==
  /\ connects' = (IF connects > 0 THEN connects - 1 ELSE 0) + 1
  /\ pings' = IF pings > 0 THEN pings - 1 ELSE 0
  /\ UNCHANGED disconnect_schedule

\* deleteschedule(NULL, ...) deletes one timer of the callback, if there is one.
TimersReset ==
  /\ connects' = (IF connects > 0 THEN connects - 1 ELSE 0) + 1
  /\ pings' = IF pings > 0 THEN pings - 1 ELSE 0
  /\ disconnect_schedule' = FALSE

\* MUTANT: connected is reset before it is tested, so HOOK_IRC_DISCON never runs.
Bug_HookNeverRuns(wasConnected) ==
  /\ serverfd' = "closed" /\ registered' = FALSE
  /\ connected' = FALSE
  /\ TimersReset
  /\ UNCHANGED <<dialled, myhub>>

\* irc_disconnected(0).  HOOK_IRC_DISCON runs only when connected: handledisconnect()
\* of server/server.c then drops our hub and with it everything behind it.
Disconnected(wasConnected) ==
  /\ serverfd' = "closed" /\ registered' = FALSE
  /\ connected' = FALSE
  /\ myhub' = (IF wasConnected THEN FALSE ELSE myhub)
  /\ TimersReset
  /\ UNCHANGED dialled

irc_disconnected ==
  /\ Disconnected(connected)
  /\ IF connected THEN UNCHANGED hubs ELSE NextHub

\* irc_send() on fd fails: irc_disconnected(1).
WriteError(fd) ==
  /\ faults < MaxFaults
  /\ fd # "closed" /\ ~disconnect_schedule
  /\ disconnect_schedule' = TRUE
  /\ faults' = faults + 1

NoWriteError == UNCHANGED <<disconnect_schedule, faults>>

-----------------------------------------------------------------------------
\* Timer irc_connect: the hub cannot be reached.
ConnectFails ==
  /\ Idle /\ connects > 0
  /\ Behaviour[hubnum] = "down"
  /\ NextHub
  /\ awaitingping' = FALSE
  /\ inbuf' = <<>> /\ linesreceived' = 0
  /\ UNCHANGED <<link, timers, parsing, bounds>>

\* Timer irc_connect: the socket is open; PASS and SERVER are written, which may fail.
irc_connect ==
  /\ Idle /\ connects > 0
  /\ Behaviour[hubnum] # "down"
  /\ serverfd' = "open" /\ registered' = TRUE /\ dialled' = hubnum
  /\ connects' = connects - 1
  /\ pings' = pings + 1
  /\ awaitingping' = FALSE
  /\ inbuf' = <<>> /\ linesreceived' = 0
  /\ WriteError("open") \/ NoWriteError
  /\ UNCHANGED <<connected, myhub, hubs, parsing, rehashes>>

\* Timer sendping, connected: send one, or give up when the last one was not answered.
\* The ping reply of a good hub is late only as a fault.
sendping ==
  /\ Idle /\ pings > 0 /\ connected /\ ~awaitingping
  /\ awaitingping' = TRUE
  /\ WriteError(serverfd) \/ NoWriteError
  /\ UNCHANGED <<link, hubs, connects, pings, buffer, rehashes>>

PingTimeout ==
  /\ Idle /\ pings > 0 /\ connected /\ awaitingping
  /\ faults < MaxFaults /\ faults' = faults + 1
  /\ irc_disconnected
  /\ UNCHANGED <<awaitingping, buffer, rehashes>>

\* MUTANT: connected is not set before irc_disconnected(0), which takes the next hub as well.
Bug_ConnectTimeout ==
  /\ Idle /\ pings > 0 /\ ~connected
  /\ hubnum' = (nexthub + 1) % hubcount
  /\ previouslyconnected' = FALSE
  /\ Disconnected(TRUE)
  /\ UNCHANGED <<awaitingping, buffer, bounds>>

\* Timer sendping, not connected: the hub has not answered in time.  The "EVIL HACK" sets
\* connected so that irc_disconnected(0) does not take the next hub once more.
ConnectTimeout ==
  /\ Idle /\ pings > 0 /\ ~connected
  /\ NextHub
  /\ Disconnected(TRUE)
  /\ UNCHANGED <<awaitingping, buffer, bounds>>

\* Timer async_disconnect_handler.
async_disconnect_handler ==
  /\ Idle /\ disconnect_schedule
  /\ irc_disconnected
  /\ UNCHANGED <<awaitingping, buffer, bounds>>

-----------------------------------------------------------------------------
\* handledata(): the socket is reported broken, or read() finds it closed.
ConnectionLost ==
  /\ Idle /\ registered
  /\ \/ Behaviour[dialled] = "closing" /\ UNCHANGED faults
     \/ faults < MaxFaults /\ faults' = faults + 1
  /\ irc_disconnected
  /\ UNCHANGED <<awaitingping, buffer, rehashes>>

\* What a hub sends: its SERVER line is among the first two, or it never was a hub.
Sendable(ls) ==
  /\ Behaviour[dialled] = "good"
  /\ \A i \in DOMAIN ls : ls[i] = "SERVER" <=> linesreceived + i = 2

\* handledata(): lines have arrived; they may have filled the buffer.
Receive ==
  /\ Idle /\ registered
  /\ \E n \in 1 .. MaxLines : \E ls \in [1 .. n -> Lines] :
       /\ Sendable(ls)
       /\ "SQ" \in {ls[i] : i \in 1 .. n} => faults < MaxFaults
       /\ inbuf' = ls
  /\ parsing' \in {"once", "again"}
  /\ UNCHANGED <<link, awaitingping, hubs, timers, linesreceived, bounds>>

TakeLine ==
  /\ parsing # "no" /\ inbuf # <<>>
  /\ inbuf' = Tail(inbuf)
  /\ linesreceived' = IF linesreceived < 3 THEN linesreceived + 1 ELSE 3
  /\ UNCHANGED parsing

\* irc_handleserver() and handleservermsg(), which writes our burst.
irc_handleserver ==
  /\ TakeLine /\ Head(inbuf) = "SERVER"
  /\ IF linesreceived' < 3 /\ ~connected
     THEN connected' = TRUE /\ previouslyconnected' = TRUE /\ myhub' = TRUE
     ELSE UNCHANGED <<connected, previouslyconnected, myhub>>
  /\ WriteError(serverfd) \/ NoWriteError
  /\ UNCHANGED <<serverfd, registered, dialled, awaitingping, hubnum, connects, pings, rehashes>>

handlepingreply ==
  /\ TakeLine /\ Head(inbuf) = "Z"
  /\ awaitingping' = FALSE
  /\ UNCHANGED <<link, hubs, timers, bounds>>

\* Any other line: its handlers may write.
OtherLine ==
  /\ TakeLine /\ Head(inbuf) = "DATA"
  /\ WriteError(serverfd) \/ NoWriteError
  /\ UNCHANGED <<link, awaitingping, hubs, connects, pings, rehashes>>

\* handlesquitmsg() for our hub: the connection goes down at once, in the middle of
\* handledata()'s loop.  Once the server list is empty, SQ names no server we know.
HubSquit ==
  /\ TakeLine /\ Head(inbuf) = "SQ"
  /\ IF myhub
     THEN irc_disconnected /\ faults' = IF faults < MaxFaults THEN faults + 1 ELSE faults
     ELSE UNCHANGED <<link, hubs, timers, faults>>
  /\ UNCHANGED <<awaitingping, rehashes>>

\* The last line is parsed.  A full buffer means one more read(), which fails when the
\* connection is down and so disconnects a second time.
ParseDone ==
  /\ parsing # "no" /\ inbuf = <<>>
  /\ parsing' = "no"
  /\ IF parsing = "again" /\ serverfd = "closed" THEN irc_disconnected
     ELSE UNCHANGED <<link, hubs, timers>>
  /\ UNCHANGED <<awaitingping, inbuf, linesreceived, bounds>>

\* Another module writes, in a timer or a handler of its own.
SendElsewhere ==
  /\ WriteError(serverfd)
  /\ UNCHANGED <<link, awaitingping, hubs, connects, pings, buffer, rehashes>>

\* HOOK_CORE_REHASH: checkhubconfig() starts again with the first hub.
ircrehash ==
  /\ rehashes < MaxRehashes /\ rehashes' = rehashes + 1
  /\ hubnum' = 0
  /\ UNCHANGED <<link, awaitingping, previouslyconnected, timers, buffer, faults>>

Timer == ConnectFails \/ irc_connect \/ sendping \/ PingTimeout \/ ConnectTimeout
         \/ async_disconnect_handler

Parse == irc_handleserver \/ handlepingreply \/ OtherLine \/ HubSquit \/ ParseDone

Next == Timer \/ ConnectionLost \/ Receive \/ Parse \/ SendElsewhere \/ ircrehash

Spec == Init /\ [][Next]_vars

\* The event loop goes on: timers that stay pending fire, lines that were read are parsed, a
\* closing hub closes, and a good hub sends.  Nothing is assumed of faults and rehashes.
Fairness ==
  /\ WF_vars(ConnectFails) /\ WF_vars(irc_connect) /\ WF_vars(ConnectTimeout)
  /\ WF_vars(async_disconnect_handler) /\ WF_vars(Parse)
  /\ WF_vars(ConnectionLost /\ Behaviour[dialled] = "closing")
  /\ SF_vars(Receive /\ ~connected /\ Len(inbuf') >= 2 - linesreceived)

FairSpec == Spec /\ Fairness

-----------------------------------------------------------------------------
\* Types of the link state; no timer is ever pending more than once.
TypeOK ==
  /\ serverfd \in {"initial", "closed", "open"}
  /\ registered \in BOOLEAN /\ connected \in BOOLEAN /\ awaitingping \in BOOLEAN
  /\ hubnum \in Hubs /\ previouslyconnected \in BOOLEAN /\ dialled \in Hubs
  /\ myhub \in BOOLEAN /\ disconnect_schedule \in BOOLEAN
  /\ connects \in 0 .. 1 /\ pings \in 0 .. 1
  /\ inbuf \in Seq(Lines) /\ linesreceived \in 0 .. 3
  /\ parsing \in {"no", "once", "again"}
  /\ faults \in 0 .. MaxFaults /\ rehashes \in 0 .. MaxRehashes

\* irc_connect(), irc_disconnected(), sendping(): the daemon is always on its way to a link.
\* Either a socket is open, watched by handledata() and by exactly one sendping timer, or
\* there is none and exactly one irc_connect timer is pending: it is never both, which
\* would lose the open socket, and never neither, which would leave it off the network.
AlwaysReconnecting ==
  IF serverfd = "open"
  THEN registered /\ pings = 1 /\ connects = 0
  ELSE ~registered /\ pings = 0 /\ connects = 1

\* irc_disconnected(): connected means an open socket, and the server list has a hub
\* exactly while we are connected, whatever lines were still in the buffer.
HubIffConnected == (connected => serverfd = "open") /\ (myhub <=> connected)

\* irc_disconnected(1): a pending disconnection belongs to the connection that is open; it
\* is never left over to bring down the next one.
AsyncIsForThisLink == disconnect_schedule => serverfd # "closed"

\* nexthub(): when a hub fails before it has linked, the same hub is not the next one to be
\* dialled, unless it is the only one or the configuration was read again.
MovesOn ==
  [][serverfd = "open" /\ serverfd' = "closed" /\ ~connected /\ hubcount > 1 /\ hubnum = dialled
       => hubnum' # dialled]_vars

\* nexthub(), irc_connect(), sendping(): as long as one configured hub is good, the daemon
\* ends up linked, whatever the other hubs do.
EventuallyLinked == <>[](connected)
=============================================================================
