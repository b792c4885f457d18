# newserv: a verification project

newserv is an IRC services daemon. It links to an ircu network as a server, keeps a
copy of the network's state (servers, nicks, accounts, channels), and runs local users -
the services Q, O, S and the like - on top of it. This directory holds TLA+ models of
its core, TLC configurations that check them on small instances, and proofs that hold for
all instances: about the timer queue, the link, the lists of hooks, kills from inside of hooks, the
tables of nicks, the memberships of channels and the modes of channels.

Paths such as `core/schedule.c` are relative to `src/`. `PROJECT.json` lists for every
definition the lines of code it translates.

## 1. The system

newserv is one process with one thread. The main loop (`core/main.c:77-87`) waits for
descriptors and calls their handlers, then runs the timers that are due. So nothing runs
concurrently in the sense of threads, and yet nearly everything interleaves, because four
mechanisms make one piece of code call another that nobody had in mind when writing it:

* **Hooks** (`core/hooks.c`). A module announces what happened with `triggerhook()`, and
  the callbacks of other modules run there and then, in the middle of the announcing
  function. They may trigger further hooks, change the tables the announcing function is
  working on, or kill the very user it is about. `hookqueuelength` counts the running
  `triggerhook()` calls; when the outermost one is done, `HOOK_CORE_ENDOFHOOKSQUEUE` is
  run, and that is where work that was put off (kills, kicks, freeing of list nodes) is
  done - *before* the function that triggered the hook goes on.
* **Timers** (`core/schedule.c`). Callbacks at a time, once or again and again, by a heap
  that callbacks change while it is being worked off.
* **Server and numeric handlers** (`irc/irc.c`, `parser/parser.c`). Each line of the hub is
  handed to the handlers registered for its command, in order of registration.
* **Loading and unloading of modules** at run time, by a command in the middle of it all.

Structures are allocated from pools (`core/nsmalloc.c` and a free list per type), so the memory
of a freed structure is used again soon, and a pointer that was kept comes to mean
something else instead of crashing. Most hazards of this code are of that kind: *a
pointer is read, something is called, the pointer is used*.

### 1.1 Components

For each: its state; its operations; whom it talks to; what is hard; what makes it correct.

**Timer queue** (`core/schedule.c`). State: a heap of pointers to `schedule` structures, each
with the index at which it is (`index`), the time, interval, remaining count, and a mark
*deleted*. Operations: `scheduleoneshot`, `schedulerecurring`, `deleteschedule` (by the
pointer of the client or by a search), `deleteallschedules`, `doscheduledevents`. Hard: an
event is put back into the queue *before* its callback runs; deletion is lazy; clients keep
pointers. Correct: each timer runs as often as asked, in order of times, never after its
deletion, and no structure is left over.

**Hook dispatch** (`core/hooks.c`). State: a linked list of callbacks per hook, ordered by
priority; `hookqueuelength`; the list of dirty hooks. Operations: `registerpriorityhook`,
`deregisterhook`, `triggerhook`, `collectgarbage`. Hard: lists change while any number of nested
`triggerhook()` calls walk them. Correct: no walk stands on a freed node, every callback that
stays registered is called, in order, and deregistered nodes do get freed.

**Main loop, event handlers** (`core/main.c`, `core/events*.c`). A table from descriptor to
callback over poll, epoll or kqueue.

**Module loader** (`core/modules.c`). State: an array of modules with their dependencies.
Operations: load (parents first), unload (children first), reload of a set of modules: mark,
unload, load. Hard: an unload runs `_fini` functions that deregister hooks and free extensions
while a command handler of one of these modules may be on the stack. Correct: no module is loaded
without its parents or twice, also when a file cannot be opened on the way, and a reload brings back what it took down.

**Configuration, errors, allocator** (`core/config.c`, `core/error.c`, `core/nsmalloc.c`). A file
parser, logging with a hook, pools of memory.

**IRC link** (`irc/irc.c`). State: the socket, the read buffer, the flags `connected` and
`awaitingping`, `hubnum` and `previouslyconnected`, three timers. Operations: `irc_connect`, `irc_disconnected`
(now or by a timer), `handledata`, `sendping`, `irc_send`, `ircrehash`. Talks to: every module, through
handlers and through `HOOK_IRC_CONNECTED`, `_DISCON`, `_SENDBURSTSERVERS` and so on. Hard: any
write may fail in the middle of a handler; a line may take the link down while later lines are in
the buffer; connects are answered late or never. Correct: there is always exactly one way back to a
link, the hub to try changes after a failure, nothing meant for the old link hits the new one.

**Command tree** (`parser/parser.c`). State: a tree of command names with lists of handlers; a name alone below a
node is kept at that node. Operations: insert, delete, find. Hard: a name has to be pushed down when another with the same
beginning comes, and nodes vanish when names go, in any order. Correct: the tree finds exactly the inserted commands.

**Server list** (`server/server.c`). State: `serverlist[]` with parent and link state. Operations:
`handleservermsg`, `handleeobmsg`, `handlesquitmsg`, `handledisconnect`; recursive `completelink` and
`deleteserver`, running hooks. Talks to: nick (which allocates and empties a numeric table per server).
Correct: the list is the network's tree, no server with a lost parent, and every server
gets completed.

**Nick tables** (`nick/*.c`). State: per server a table by masked numeric, a hash by name, hosts and
realnames with counts and lists of nicks, cloak lists, account pointers. Operations: introduction,
rename, quit, kill, account, modes, cloaks, loss of a server. Hard: collisions of names and of
masked numerics; each deletion runs three hooks. Correct: the tables agree, and all servers choose
the same loser of a collision.

**Account records** (`authext/authext.c`). State: accounts by ID and by name, with counts, nick lists and
extensions of modules. Correct: a record lives while a nick or a persistent extension needs it.

**Local users** (`localuser/localuser.c`). State: local nicks with their handlers; the queue of pending
kills. Operations: `registerlocaluser`, `deregisterlocaluser`, `killuser`, `clearpendingkills`,
`checkpendingkills`, renames, messages. Hard: kills asked for inside of hooks, and inside of the carrying out of kills. Correct: a
nick that a hook is about is not freed, no pending kill means somebody else.

**Local users on channels** (`localuser/localuserchannel.c`). State: the queue of pending kicks, a
`modechanges` accumulator per change. Operations: join, create, part, kick, change modes, burst.
Correct: as for kills; and mode changes are sent as they were collected.

**Channel membership, modes and bans** (`channel/*.c`, `bans/*.c`). State: a user hash per channel
(numeric and flags in one word), an array of channels per nick, modes, key, limit, topic, bans,
timestamps. Operations: the handlers of BURST, CREATE, JOIN, PART, KICK, MODE, CLEARMODE, OPMODE, TOPIC.
Hard: hooks in the middle of every handler, whose callbacks kick and kill. Correct: hash and array
agree, a channel exists while it has users, no handler or hook gets a freed channel.

**Channel user hash** (`channel/chanuserhash.c`). Double hashing with a search depth, grown when a
numeric does not fit.

**Channel index** (`chanindex/chanindex.c`). One entry per channel name, alive while there is a channel or an
extension of a module.

**IP address tree** (`patricia*`). State: nodes with a prefix, which nicks, whowas records and services share by a count of references, and glue between them; per
node the number of users below it. Operations: look up or add, release, users come and go. Correct: the tree is one, holds what is referenced, and counts.

**Trusts** (`trusts/*.c`). State: groups; hosts (networks) in a tree, each with its nicks and counts; a pointer from each nick to
its host. Operations: a nick comes or goes, a host is added or deleted, the database is loaded or closed. Hard: a new host takes over nicks
of the host above it, or those without a host, but not those of the hosts below it. Correct: a nick counts, once, for the most specific host.

**G-lines** (`glines/*.c`, `regexgline`, `rbl`). State: the list of the network's bans, each active or not, with the time of its last change,
its expiry and its lifetime; a file. Operations: set, take back, remove, save, load; the handler of GL lines. Hard: both sides of the link change
bans, their clocks differ, lines cross, a file or a lost link leaves old news. Correct: when all lines have been read, newserv and its hub ban the same.

**Jupes** (`jupe/jupe.c`). Servers that may not link, replicated in the same way.

**Channel service, channel fixer, requests** (`chanserv`, `chanfix`, `request`). Accounts and access levels,
authentication, commands, lists in a database; scores of operators of channels; requests for the service.

**Searches** (`newsearch`). Expressions compiled to trees of closures and evaluated over the tables.

**Databases** (`dbapi`, `pqsql`, `sqlite`). Asynchronous queries. PostgreSQL: a queue whose head is at the server; answers run
callbacks. SQLite: a query is run at once, or waits for a timer if the database is busy. Hard: callbacks ask further queries and
unload modules in the middle of the walks of the queue. Correct: every callback is called once, in order, with its own answer, or with
NULL before its module goes.

**Remote procedure links** (`nterfacer`, `auth`, `ticketauth`). A line protocol with a handshake.

**Scanner of open proxies** (`proxyscan/*.c`). State: the scans that run (a socket, an alarm, a reference to the address), two queues of those that wait, a
cache of known addresses. Operations: a nick comes, a socket wakes up or does not, retries, the operator's scan. Hard: an alarm is set anew around
each read; a scan may end in five ways, each of which has to start the next. Correct: as many scans run as may, and nothing is left over.

**Operator service, trackers, bots, Lua** (`control`, `whowas`, `nickwatch`, `splitlist`,
`helpmod2`, `lua`, ...). Commands, statistics fed by hooks, and independent bots.

**Libraries** (`lib/*.c`). Arrays, interned strings, hashes, ciphers, base64 numerics, splitting of lines.

### 1.2 How they are tied together

    main loop --> doscheduledevents --> irc_connect, sendping, async disconnect, other modules
             \--> event handlers ----> handledata --> server handlers (one per line)
                                                        |
      HOOK_IRC_DISCON --> handledisconnect        server, nick, channel handlers
                               |                        |
                           deleteserver ---> HOOK_SERVER_LOSTSERVER ---> handleserverchange
                                                                             |
        checkpendingkills <--- HOOK_NICK_LOSTNICK <--- deletenick <----------/
        addordelnick      <---/      |
             |                       v
      delnickfromchannel ---> HOOK_CHANNEL_LOSTNICK, _LOSTCHANNEL ---> checkpendingkickchannels
                                                                        |
      callbacks of services --> killuser, localkickuser --> queues      |
      HOOK_CORE_ENDOFHOOKSQUEUE --> clearpendingkills, clearpendingkicks, collectgarbage

## 2. The plan

The order follows the importance of what is modelled for the rest of the code: first what
every module rests on (timers, hooks, deferred kills), then the link, then the state of
the network from the bottom up (servers, nicks, channels), then the services.

| step | modules | content | state |
|---|---|---|---|
| 1 | `Timers`, `Schedule`, `ScheduleHeap`, `ScheduleProofs` | the timer queue, what it promises, its array, its proofs | done |
| 2 | `Hooks`, `PendingKills` | hook dispatch; kills from inside of hooks | done |
| 3 | `IrcLink`, `IrcLinkProofs`, `ServerTree` | the link and its lines, with proofs; the server list | done |
| 4 | `NickTable`, `Membership` | the tables of nicks; who is on which channel, with kicks from hooks | done |
| 5 | `ChannelModes`, `ModeChanges` | modes, key, limit, timestamps, the merge of bursts; the buffer that collects mode changes into lines | done |
| 6 | `ChanUserHash`, `CommandTree` | the hash of a channel's users; the tree of commands | done |
| 7 | `Queries`, `PqQueue`, `SqliteQueue`, `Modules` | asynchronous queries, as promised and as done by two databases; load, unload, reload | done |
| 8 | `Trusts` | hosts, groups, and for which host a nick counts | done |
| 9 | `Patricia`, `AuthRecords` | the tree of addresses; records kept alive by nicks and two services | done |
| 10 | `Glines`, `ProxyScan` | bans shared with the hub; the scanner's queue, alarms and cache | done |
| 11 | `CallbacksProofs`, `NickTableProofs`, `MembershipProofs`, `TablesProofs`, `AccountsProofs`, `QueriesProofs` | lists of hooks, kills in hooks, tables of nicks, memberships, modes, the server list, the scanner's queue, the heap of timers, the hash of a channel's users, the bans shared with the hub, records of accounts: their safety for any network and any memory; both databases implement `Queries` | done |
| 12 | `ChanIndex`, `Network` | the index of channel names; composition of `ServerTree`, `NickTable` and `Membership`: a split as the hooks of one pass | planned |
| 13 | `Bans`, `Whowas`, `Jupes`, ... | which bans a ban replaces; the ring of whowas records; scores of channel operators; links of `nterfacer` | planned |

Abstract specifications: `Timers` for the queue of timers, `Queries` for both databases. For the tables the abstraction is
a history variable that the implementation is compared with: the set of users (`members` in `ChanUserHash`), the lists of handlers by
name (`added` in `CommandTree`), the network's view of the channel (`net` in `ModeChanges`), the hub's bans (`hub` in `Glines`).

## 3. What is modelled

Conventions. Handlers and functions keep their names. `NULL` is a model value. A hook is a
*step boundary*: what a function does up to its next `triggerhook()` is one step, the callbacks
are other steps in between, and what it does afterwards is a further step. Where functions nest
(a hook whose callback calls a function that runs a hook), a sequence of *frames* is the C
stack. Memory is a finite set (`Slots`, `Nodes`, `Nicks`, `Chans`) from which allocation takes
any free element, so a pointer to freed memory does come to point at something new. Definitions
named `Bug_...` are wrong variants of the definition that follows them, each a plausible bug;
nothing in the specifications uses them. They show that a property can fail:
`PROJECT.json` lists for each property of each run the variant that makes that run fail.

### 3.1 The timer queue: `Timers`, `Schedule`, `ScheduleHeap`

`Timers` is the contract: a client asks for a timer (`Ask`), the earliest timer due runs
(`Fire`), clients cancel (`Cancel`), time goes on (`Tick`).

`Schedule` is `core/schedule.c`. `mem[s]` is the structure in slot `s`, contents of freed
slots included, since `getschedule()` does not clear everything and a client may look through an old
pointer. `heap` is the set of queued slots. `handle[r]` is what the client of request `r` has kept: slot,
callback and argument. `goal`, `fired` and `cancelled` are history.

| action | code |
|---|---|
| `scheduleoneshot`, `schedulerecurring` with `Insert` | the functions of these names with `getschedule()` and `insertschedule()`; a count of one becomes a one-shot |
| `deleteschedule_fast` | `deleteschedule()` with a pointer: the structure is marked if callback and argument match |
| `deleteschedule_brute` | without a pointer: the first match of the array, which can be any match |
| `deleteallschedules` | structures of the callback leave the array and are freed at once |
| `PassBegin`, `PopDeleted`, `Run`, `PassEnd` | `doscheduledevents(when)`; `RanOneshot`, `RanRepeating` are what is put back before the callback is called |
| `Tick` | `time(NULL)` between two turns of the main loop |

A callback is the sequence of client actions before the next pop, so a callback may
add, delete itself, delete everything. `StalePointers` says whether clients use the pointer of
a timer that has run for the last time.

`ScheduleHeap` is the array behind `heap`: `insertschedule`, `Removed` (the hole is filled with the
last element, which goes down or up) and `WithoutRoot` compute the array and the `index` fields step by
step. `Down` is one call of `schedule_heapify()` and `Up` one pass of the loops that go up; both stop by not changing anything any more, so
that the recursion and the loops are functions of the number of calls and passes. `HeapExact` justifies the set in `Schedule`.

### 3.2 Hooks: `Hooks`

`head[h]` is the list of hook `h`, `callback[n]` and `priority[n]` the fields of its nodes; `callback[n] = NULL`
is a node that was deregistered and not yet freed. `frames` are the running `triggerhook()` calls, each
with the node it is at (`At`) and the places it has not got to (`Ahead`). `CallNext` calls the first callback ahead, `ListDone`, `Return` and `EndOfHooksQueue`
are the end of the walk in an inner and in the outermost call, `collectgarbage` frees the nodes of the dirty
hooks and leaves the others in their order (`Swept`). `Pred` is the place at which `registerpriorityhook` puts a new node. `registerpriorityhook`, `deregisterhook` and `triggerhook` can be called from any callback.

### 3.3 Kills from inside of hooks: `PendingKills`

`alive` are the allocated nicks, `pendingkilllist` the queue, `frames` the hooks being run with the nick they
are about and how far its departure is (QUIT or KILL hook, `PRE_LOSTNICK`, `LOSTNICK`, free), `endofqueue` what the
outermost hook is at. `killuser` queues inside of a hook; `clearpendingkills` takes the first entry off the
list and carries it out; `checkpendingkills` (on `LOSTNICK`) takes entries of a nick that leaves off the list.
Between two kills, and between the callbacks of the hooks they run, everybody else's callbacks act.

Two assumptions about other modules, each visible in the module:
* `DeleteAtOnce`: `deregisterlocaluser()` and lost servers free nicks without the queue; callbacks do
  not do that to the nick that a hook on the stack is about.
* `LateKills = FALSE`: no callback behind `clearpendingkills()` on the end-of-queue hook kills. With `TRUE`,
  the last part of `NicksAlive` (no kill is left for later) fails, since the list has already been walked.

### 3.4 The link: `IrcLink`

State of `irc/irc.c` by the names of the code. `connects` and `pings` count pending timers, so that "more than one"
is a state. `inbuf` are the complete lines read but not parsed; a line is the `SERVER` line of the
hub (`SERVER`), its ping reply (`Z`), a `SQUIT` of the hub (`SQ`) or any other. `myhub` is the server list's idea of the
hub, set by the `SERVER` line and cleared by the hook `HOOK_IRC_DISCON`: the composition with
`server/server.c` that matters here. `WriteError` may happen in every handler that writes; it is what
`irc_send()` does, `irc_disconnected(1)`, and sets a timer instead of closing the socket. Lines go on
being parsed after `HubSquit` has closed it. Delays are left out: a pending timer may fire at any time, which
covers every relation of the delays to each other.

Hubs are of four kinds (`Behaviour`): *good*, *down* (refuses), *mute* (accepts and is silent), *closing* (accepts and
closes before it is linked).

### 3.5 The server list: `ServerTree`

`serverlist[s]` has a link state and a parent. `stack` and `op` are the recursion of `completelink()` or
`deleteserver()`: one step per server that runs its hooks. The network (`net`, `bursting`, `behind`, `wire`, and the actions
`LinkUp`, `NetJoin`, `NetEndOfBurst`, `NetSplit`, `NetForgotten`) is outside the repository and marked as external: the
hub announces parents before children, announces a server below a bursting one as part of that
burst, and sends one SQUIT for a whole tree. Lines are in order and arrive at any time later; our hub may
be lost at any point. `findserver()` compares only the length of the known name; `PrefixOf` says which names
begin with others. In `MCTables` there are none (with one, `Mirror` fails; a network whose server
names are so related does not occur to our knowledge, but the code relies on it).

`Above(tree, s)`, the servers above `s`, is the least set that has its parent and the parents of its own: the external network's way of
saying who is behind whom, in a form that can be reasoned about. `TreeAssumption`: numerics are indices of an array, from 0 up, and one of them is ours.

### 3.6 Nicks: `NickTable`

`servernicks[s][slot]`, `nicktable[name]`, `hosttable`, `authnametable` and the structures `nick[p]`, free ones being
`NULL`. The slot of a numeric is its client part masked with `maxusernum`, so numerics share slots. `handling`
is what a handler has still to do after a `deletenick()`: `handlenickmsg()` is `NickCollision` (one nick dies), then `Allocate`,
`MaskedCollision` or `InvalidNumeric`, `Place`; a rename is `RenameSame`, `RenameCollision`, `Rename`. `deletenick` is one step, from
its hooks on; the state between is what its callbacks see. `LostServer`, `LoseNick`, `ServerGone` are
`handleserverchange()`. `handleaccountmsg`, `handleusermodemsg`, `handleaddcloak`, `handleclearcloak` are the other
handlers with cross references. Realnames are counted like hosts and left out; so are away messages, plain
user modes, and WHOIS. The IP tree and the account records have modules of their own, `Patricia` and `AuthRecords`.

`AccountModes = FALSE` is an assumption about ircu: it does not set or clear `+r` by a MODE line. `setflags()` would
accept it, and `SharedExact` would then fail, for `deletenick()` looks at the flag to decide what to release.

### 3.7 Channels: `Membership`

The user hash is a set, `users[cp]`; the array `channels[np]` is a sequence, since `array_delslot()` moves its last
element. `index[n]` is the channel a name's index entry points to. A frame is a handler with the hook it is running
(`pc`), or its place between two hooks. Messages (`handlejoinmsg`, `handleburstmsg`, `handlepartmsg`, `handlekickmsg`, `JoinZero`,
`NickLost`, `NewNick`) and the local functions (`localjoinchannel`, `localcreatechannel`) push a frame; callbacks
call `localkickuser` and `killuser`; `HookDone` is the end of a `triggerhook()`: if it was the outermost, pending kills
and kicks are carried out (`clearing`), running hooks in their turn, and only then the handler goes on with
`AfterNewNick`, `AfterNewChannel`, `AfterPart`, `delnickfromchannel`, `AfterLostNick`, `AfterLostChannel`, `deleted`. `stale` is a
history variable in frames and pending kicks: the structure they point to has been freed.

What callbacks do is a parameter: `KickHooks`, `KillHooks`, `JoinHooks`. The values come from the
repository: chanserv and banevade kick on `JOIN` (`chanservnetevents.c:189`, `banevade.c:70`), chanserv joins and
enforces its bans on `NEWCHANNEL` (`chanservnetevents.c:65-71`), helpmod2 kicks on `NEWNICK`, and Lua scripts may
kill on `JOIN`. A callback kicks from the channel its hook is about. `BurstKicks` lets `NEWCHANNEL` callbacks kick during a burst, too.

### 3.8 Modes of a channel: `ChannelModes`

`cp` is the channel: timestamp, flags, key, limit, and for each user `o` and `v`. `Burst(old, b)` is the whole of `handleburstmsg()` as a
function: an older burst erases what is there (`Erased`), an equal one is merged (`MergedModes`), a younger one adds its users without their modes.
The other actions are JOIN and CREATE, MODE (one mode at a time), CLEARMODE, a user leaving, and our own `localburstontochannel()`.
`BurstsCommute` quantifies in every reachable state over all pairs of bursts of two users who are not on the channel. It is about users of two
servers, so no user is in both bursts. Keys are naturals, their order stands for `ircd_strcmp()`.
`MAGIC_REMOTE_JOIN_TS` is between the timestamps, as 1270080000 is in the code: a channel we know from a JOIN without a timestamp only.

### 3.9 The hash of a channel's users: `ChanUserHash`

`content` is the table, indexed from 0, of words (a numeric with its op flag). `Place(n, s, i)` is the double hashing of `chanuserhash.c`; a numeric is
looked for at `CUHASH_DEPTH` places, and `rehashchannel` looks for the next size all words fit into (`NewSize`, `Copies`, `Crams`); it is the set of tables that can come out, which has
one element unless `MaxGrowth` sizes do not do. `Grown` is the loop of `addnicktochannel()`, counted by its rounds. `lp` is the address of the word that
`delnickfromchannel()` holds over `HOOK_CHANNEL_LOSTNICK`. `members` is the set the table stands for. `JoinInHook = FALSE`: the callbacks
of that hook let nobody join the same channel; a rehash would make `lp` point to freed memory, and no callback in the repository joins there.
The table's size is an `unsigned short` in the code; the model has no limit of 65535 places.

### 3.10 The buffer of mode changes: `ModeChanges`

A service collects changes: `localsetmodeinit`, then `localdosetmode_nick`, `_ban`, `_key` (`AddKey`, `DelKey`), `_limit`, `_simple`, then `localsetmodeflush`
(`EndBatch`). `chan` is our view, which each function changes at once; `buf` is the structure `modechanges`; `net` is the channel on the
other side after the lines sent so far. `Line` is what one line does there: flags off, removals, flags on, additions. The functions of the code work on pointers;
here they map a record of the three (`State`) to the next, since they call each other.

`TakesBack = FALSE`: a batch does not undo or repeat a change it has made. With `TRUE`, `FlushTells` fails in three ways: a change of a user's mode
is not matched with one that waits, a key that replaces one in the buffer is read after it has been freed, and a limit that is taken back may come back
(the finding of `mode_limit`). The callers in the repository collect disjoint changes.

### 3.11 The tree of commands: `CommandTree`

`tree` maps the beginning of a name to its node; `final` is the first letter of the rest of the name that is kept there. `insertcommand` with its three cases (an empty
subtree, a name to be pushed down first, the way down), `findcommand` with `findcommandintree`, and `deletecommand` with the freeing of empty nodes, are translated one by
one. `added` is the map the tree stands for.

### 3.12 Asynchronous queries: `Queries`, `PqQueue`, `SqliteQueue`

`Queries` is what modules rely on: `Ask`, `Answer` (in order), `Refuse`, `Cancel` and `Unload`, a module's unloading, which needs its queries to be gone.

`PqQueue` is the queue of `pqsql/pqsql.c`: `pqasyncqueryf`; `dbhandler` up to the callback and `Answered` behind it; `pqfreeid` up to the next callback with NULL and
`Fired` behind it (`Walk`). `querytail` is a pointer of its own, so that a stale tail cuts the list off. The head of the queue is at the
server and cannot be unlinked: it stays in the list, marked `QH_ALREADYFIRED`.

`SqliteQueue` is that of `sqlite/sqlite.c`: `AskRefused` (the statement cannot be prepared), `AskRun` with `Ran` (run at once, also from inside of a callback), `AskQueued` (busy),
`sqlitequeueprocessor` and `Processed`, `sqlitefreeid` and `Freed`. Whether the database is busy is a choice at every step.

Each has a refinement mapping to `Queries`: a query waits while it is in the list and its callback has not been called. In `PqQueue`, `Waiting` is the list of those (`Only`), defined
by its places, since `SelectSeq` is recursive and the proofs could not say what it is. In `SqliteQueue` the one query of the list that may have been called is the head, while
`sqlitequeueprocessor()` is in its callback (`Processing`); a query that is just being run at once waits behind an empty list.
Assumptions, each a constant: `BareNamed = FALSE`, queries without a callback carry no module identifier (both queues would call a NULL function);
`Unnamed = FALSE`, queries with a callback carry one (`sqlite_unload` shows what happens otherwise). No module is unloaded from inside of
its own callback, nor in the middle of another's unloading.

### 3.13 The module loader: `Modules`

`modules` is the array of loaded modules; `ModuleDeps` and `Parents` are `modules.dep`. `insmod`, `rmmod`, `setreloadmark` are the recursive functions, from a state of the call
to the next; `delslot` is `array_delslot()`, which moves entries while the recursion goes on. `broken` is the set of files that cannot be
opened at that call. `safereload` and its scheduled callback, and `newserv_shutdown`, are the other actions. `seen` records what was loaded whenever a
constructor or destructor ran, which is when a missing parent would hurt.

### 3.14 Trusts: `Trusts`

An address is a sequence of bits, a host the sequence of the bits of its mask. `group`, `parent`, `children`, `users`, `count` are the fields of the hosts, `trusthost` the extension of
the nicks. `newnick`, `lostnick` are the hooks; `th_copy` and `th_delete` the changes of hosts, with `th_adjusthosts` and `th_linktree`; `loadcomplete`, `triggerdbloaded`,
`trusts_closedb` the life of the database, in which all nicks are entered by a timer. Assumptions: `DeletesCovered = FALSE`, a host is not
deleted while it has nicks and a less specific host covers it (`trusts_delete` shows why); `EarlyChanges = FALSE`, no host changes between
`loadcomplete()` and its timer (else a nick would be counted twice).

### 3.15 The tree of IP addresses: `Patricia`

A node is named by the bits it stands for, so its bit number is the length of the name. `tree.nodes` maps names to reference count, children, parent and `usercount`;
glue has no references. `patricia_lookup` (`AddBelow`, `AddAbove`, `AddBeside` are the three ways a new node gets into the tree), `patricia_search_exact`, `patricia_remove`
with its removal of glue, and the counting of users up to the head are translated one by one. `nicks` and `held` are what the owners of the references hold. Addresses have three bits instead of 128.

### 3.16 Records of accounts: `AuthRecords`

`authnametable[u]` is the record of user ID `u`: how many nicks, which, and the two persistent extensions of the repository, the channel service's user (`reguser`) and the operator
service's (`autheduser`). Logins (with the channel service's callback that registers whom it does not know), logouts, the deletion of users of either service, and the unloading of the
services are actions; `Released` is `releaseauthname()`. `Init` is any content of the two databases. IDs are small, and the channel service's next ID is the largest it has seen and one. `AuthAssumption`: IDs are numbers with a largest one, there are finitely many nicks, and the null pointer is nothing else.

### 3.17 Bans shared with the hub: `Glines`

`glinelist` is our list, `saved` the file, `toUs` and `toHub` the lines on their way, each in order; `hub` is what the hub knows (external: ircu, as the handler takes it to be: it
answers a line that is older than what it has with what it has). Our side is `glinebufcommit`, the commands (`glines_cmdgline`, `glinebynick`, `Unset`),
`handleglinemsg` (`Activated`, `Deactivated`), and `glstore_save`, `glstore_load`. `findgline` is the search that removes what is over as it passes. `LinkLost` and `Restart`
bring a burst of the hub on top of what we still have; a burst names every ban once, in any order. `glstore_load()` adds what is in the file and not yet in the list.
Assumptions (`GlineAssumption`): there are finitely many masks, and clocks of other servers are ahead by no more than the shortest ban lasts: a ban whose last change is dated after its end
would live at newserv until that date and no longer end with the hub's (with a larger `Ahead`, or a ban of no duration, TLC finds `Agree` violated). Restrictions of the actions: `Crossing = FALSE`, a side changes a ban only when it has heard all the other has said (`glines_cross` shows what happens otherwise); `Early`, bans are not changed in the last second of their life;
no ban is removed while the link is down, which nobody would tell us (`Remembered`). `Ahead` is how far other clocks are ahead of ours; `Ulined`
says whether services of other servers set bans without a time. Bans are told apart by their mask only; the version of ircu spoken is the one that cannot change the expiry of a known ban.

### 3.18 The scanner: `ProxyScan`

`scantable` has the structures of the scans that run, `alarm` the number of timers that have each of them for an argument, `normalqueue` and `prioqueue` those that wait, `cache` the extension of
the nodes, `refs` the references to each address. The functions of the code call each other (`killsock` queues a retry, then starts what waits, which may fail to get a socket), so here they map a
record of the state to the next. An alarm may fire at any time, as may an answer: every relation of the two is covered.
Two things are as in the code, not as its comments have it: for an address that had open proxies, the loop that would queue the other scans (`proxyscanhandlers.c:64-71`) never does; and scans
that wait for a time are looked at only when another scan ends or a server ends its burst, so on a quiet network they may wait for long. `ScansExact` therefore speaks of the normal queue only.

## 4. The runs

Four runs (`callbacks`, `links`, `network`, `structures`) check several components that do not interact: the MC module has the variables of all of them and a variable `part`, chosen
initially, that says which one moves; the others stay as they were initialised. The state space is the sum of theirs, not the product.

| run | properties | question | distinct states |
|---|---|---|---|
| `schedule` | `FireBudget`, `NoTimerLost`, `FinishedIsFreed`, `QuietAfterDelete`, `ImplementsTimers`, `DueTimerRuns` | does the queue do what `Timers` says, with callbacks that use it while it runs, and does every due timer run? | 293,000 |
| `schedule_stale` | `NoTimerLost`, **violated** | may a client delete a timer that has run? | |
| `callbacks` | `Hooks`: `NoDanglingNode`, `AllCalled`, `OrderKept`; `PendingKills`: `NicksAlive` | do walks survive changes of the lists they walk, and are dirty lists collected? is a nick freed once, not under a hook about it, and is no kill lost? | 859,000 |
| `links` | `IrcLink`: `AlwaysReconnecting`, `HubIffConnected`, `AsyncIsForThisLink`, `MovesOn`, `LinkedInTheEnd`; both databases: `PqImplementsQueries`, `SqliteImplementsQueries`, `NoneForgotten` | is there always exactly one way back to a link, and is a good hub found behind bad ones? do both databases do what modules rely on? | 93,000 |
| `network` | `Membership`: `MirrorExact`, `ChannelsAlive`, `NoKickLeftOver`, `HookChannelAlive`; `ModeChanges`: `FlushTells`; `Patricia`: `TreeExact`, `CountsExact`; `AuthRecords`: `RecordsExact` | do the tables of channels, addresses and accounts agree at every hook? is no freed channel used? does the network hear of every mode change? | 106,000 |
| `membership_burst` | `HookChannelAlive`, **violated** | and if a callback kicks while a channel is created by a burst? | |
| `structures` | `NickTable`: `TablesExact`, `SharedExact`, `LoserIsTheSame`; `ChanUserHash`: `HashExact`; `ChannelModes`: `ValuesExact`, `BurstsCommute`; `ScheduleHeap`: `HeapExact`; `CommandTree`: `LookupExact`; `Trusts`: `TrustsExact`; `ServerTree`: `Mirror`, `Rooted`; `Modules`: `NeedsMet`; `Glines`: `BansAgree`; `ProxyScan`: `ScansExact` | is each table right after any sequence of its operations? do bursts commute? | 563,000 |
| `mode_limit` | `NoLimitComesBack`, **violated** | may a batch take back a limit it has set? | |
| `sqlite_unload` | `CleanedUp`, **violated** | are all queries of a module cancelled when it goes? | |
| `trusts_delete` | `CoveredAlready`, **violated** | does a nick that a host covers have a host, after another was deleted? | |
| `auth_dead` | `DeadAreFreed`, **violated** | is a deleted user of the channel service freed when the last nick leaves his account? | |
| `glines_cross` | `SameChange`, **violated** | do both sides have the same ban after changes that crossed? | |

Deadlock is checked in all runs except `sqlite_unload`, in which the program really may come to rest: all queries asked, all modules gone. Each
finishes within four minutes with two workers.

### Bounds

* `schedule`: two requests over two structures, two callbacks and one argument, so that timers are told apart and also confused;
  a structure is re-used after it has been freed. Counts 0
  (for ever), 1 (the special case), 2, 3 (counted down to the one-shot, and once before that); times 0 and 1 with a clock to
  2, so timers are added in the past, now and in the future, and a pass does several timers. `MaxTime` stops the
  clock; nothing else is bounded. The theorems below remove all of these bounds except the
  clock's, which is any natural number. No symmetry, because of the liveness property. `schedule_stale` has three requests.
* `callbacks`, hooks: a hook and the end-of-queue hook, two callbacks, two priorities, four nodes, nesting of
  three: an inner walk of the same list inside of a walk, with one more trigger in it, and the end-of-queue hook
  with triggers inside. Kills: three nicks (source, target, somebody else), three pending kills, nesting of three.
* `links`, the link: four hubs, one of each behaviour: only the third ever links, so it is found by passing through
  a hub that closes and one that is mute, and after a lost link, when the first hub is next again; three faults: two write errors in one
  read and one later; one rehash; three lines per read, enough to fill what the code calls a full buffer.
  Databases: four queries of two modules or of none: a head at the server, one to be cancelled behind it, one that its callback asks, and a fourth behind that.
* `network`, membership: two channel names and structures, two users and a service, four frames (a handler, a kick in its
  clearing, its PART and LOSTCHANNEL hooks), two kicks waiting. Addresses: three bits, prefixes of all lengths and four references held besides the nicks', enough for glue over glue.
  Accounts: two user IDs, two nicks, three users of the channel service (two and a dead one), two of the operator service.
  Mode changes: one user with `o`, one ban, two keys, one limit (`mode_limit` has two), `s` and `p`; three places in the buffer, of which two fit a line: the buffer is full, and is sent in parts.
* `structures`, nicks: two servers of two slots, three client numbers: two share a slot; two names, two hosts,
  one account, two timestamps, three structures: a collision of name and one of numeric in the same message need two holders and
  the newcomer.
  Hash: five numerics, chosen so that three of them collide in the small
  sizes and one has another second hash; depth 2 instead of the code's larger depth, so that tables of five users already grow several times; `MaxGrowth` bounds
  the rehashes for one user and the sizes each tries: a join that needs more is left out of the model, and no join of these numerics does.
  Modes: three users (one on the channel, and one for each of two bursts), two timestamps with the magic one
  between them, two keys, one limit. A second limit would be told from the first only where two bursts
  both have one, which the two keys do as well, by the same code; `OrderOfBursts` is proved for any.
  Heap: six elements fill three levels, so that the last element can be smaller than the parent of a hole elsewhere and has to go up; three times, so some are equal.
  Commands: seven names of up to three letters with the empty one, names that begin others and names that share a beginning, two handlers, four of them in the tree at a time.
  Trusts: three nicks at addresses of two bits, four networks at three levels, two groups; every table is tried as a load.
  Servers: ourselves and three, each of which may be the hub: a chain of three and a fork; four
  events of the network while linked; three lines on their way. Loader: five modules, two of which need two others at different distances, every set of broken files, two scheduled reloads.
  Bans: one mask, two durations and a clock to 4, so a ban expires, is set again, and is over; other clocks one ahead; two lines on their way.
  Scanner: two addresses and one port, two scans at a time, a clock of two; a third scan waits, retries wait for a time, an operator asks for one more.

Symmetry is used in `callbacks`, `network` and `structures`, for sets of model values that no definition tells apart, never in the runs of liveness properties.

### Fairness

* `schedule` (`FairSpec` of `Schedule`): weak fairness of `doscheduledevents`: the main loop calls it on every turn
  (`core/main.c:79`), and its loop ends only when nothing is due. Nothing is assumed of clients.
  `DueTimerRuns` speaks of timers that are due, so it needs no assumption on the clock.
* `links`, the link (`Fairness` of `IrcLink`): the event loop fires timers that stay pending, parses lines that were read, and reports
  a socket that the hub closed (weak fairness of each); a good hub sends its `SERVER` line again
  and again if we connect again and again (strong fairness of `Receive` as long as we are not linked: a connection may be closed by a fault in
  between, so weak fairness would not be enough to say that the hub answers). Faults and rehashes are bounded in number and not
  fair: they need not occur. The property is `<>[]connected`: after the last fault the link comes up and stays.
* `links`, the databases (`Fairness` of both queues): the server answers the query it was sent (its socket becomes readable and the event loop calls `dbhandler`); the timer calls
  `sqlitequeueprocessor`, which does some work again and again, as a database is not busy for ever; functions that have called a callback go on.
  A lost connection to PostgreSQL is not part of the model.

### What the violated runs show

* `schedule_stale`. The comment at `core/schedule.c:215-218` says it is perfectly OK to delete a schedule that has been executed.
  It is so only as long as the structure has not become another timer *with the same callback and argument*:
  timer A of a client runs and is freed, the client adds B with the same callback and argument, B gets A's
  memory, the client deletes A by its old pointer: B is marked. The run with
  `StalePointers = FALSE`, and the theorem `TimersKept`, say that this is the only way to lose a timer.
* `membership_burst`. `handleburstmsg()` runs `HOOK_CHANNEL_NEWCHANNEL` (line 203) and then `HOOK_CHANNEL_BURST`
  (206) with the same pointer. A burst creates the channel before its users are added, but
  `localkickuser()` of a callback is carried out at the end of the first hook; if that empties the channel it is
  freed. `handlejoinmsg()` checks for exactly that (295-297), `handleburstmsg()` does not.
* `mode_limit`. To clear a limit, `localdosetmode_simple()` looks in the buffer for a `+l` that has not been sent (`localuser/localuserchannel.c:677-687`), but its loop ends after the first change. A batch
  that ops somebody, sets a limit and takes it back sends `-l` and then `+l`: the network has a limit, our view has none.
* `sqlite_unload`. `sqliteloadtable()` asks its two queries with identifier 0 (`sqlite/sqlite.c:358`, `:377`), so `sqlitefreeid()` of the module that loads does not find them. If the
  database is busy they wait, the module is unloaded, and the answer calls a function of it. `sqlite.c:103-105` assumes that modules have cleaned up.
* `trusts_delete`. `th_delete()` leaves the nicks of a host without one and adds their number to the parent's count. A nick below the parent then has no host although the parent covers it,
  the parent's count is too high for as long as the database is loaded, and a new host between them does not find the nick, for `th_adjusthosts()` (`trusts/data.c:332`) says that all are covered already.
* `auth_dead`. `cs_removeuser()` takes the user off the record of his account (`chanserv/chanservuser.c:1191`) and, if nicks are logged in, marks him dead (1194). The callback that would free him with the last
  nick (`chanserv/chanservnetevents.c:38-40`) looks for him on that record, and so never does. The record itself is not lost: `RecordsExact` holds.
* `glines_cross`. `handleglinemsg()` makes a ban active before it compares times (`glines/glines_handler.c:148`). If newserv takes a ban back while an older line that sets it is on its
  way, the ban becomes active again, with the later time; the hub has it inactive with the same time, so nothing puts it right, and the command GLINE takes it for set.

## 5. The proofs

### 5.1 The timer queue

`ScheduleProofs` proves about `Schedule`, for all values of the constants that satisfy
`ScheduleAssumption` (intervals are positive; counts and times are naturals): any number of requests, of
structures, of callbacks.

| theorem | statement | assumes |
|---|---|---|
| `TypeCorrect` | `Spec => []TypeOK` | - |
| `BudgetKept` | `Spec => []FireBudget` | - |
| `NoneLeftOver` | `Spec => []FinishedIsFreed` | - |
| `TimersKept` | `Spec => []NoTimerLost` | `~StalePointers` |
| `DeletedIsQuiet` | `Spec => QuietAfterDelete` | `~StalePointers` |
| `QueueImplementsTimers` | `Spec => ImplementsTimers` | `~StalePointers` |

The argument. None of the properties is inductive. *How often* a timer has run says nothing about how often it still
will: for that the counter in its structure has to be right. `Counted` therefore adds to the types
and `FireBudget`: every queued structure belongs to a request that was made (`QueuedOK`), a request is in one
structure at most (`OneEach`), a request not made has not run (`NotYet`), the counter of every structure that is
not deleted is exactly what its owner is owed (`Owed`: a one-shot one run, a counted one `repeatcount + 1`), and a
structure with no run left is one that the pass going on will pop again (`Settled`). `Settled` is the reason
`FinishedIsFreed` holds: an executed one-shot is put back with its *old* time, which is due.
`Counted` is inductive whatever pointers clients use: a wrong deletion can only make timers run less often.

*That none is lost* needs the pointers: `Kept` adds that a pointer a client holds leads to the structure of its
own request (`PointersOK`), that a deleted request is not live (`CancelledGone`), and `NoTimerLost` itself. It is inductive
if clients forget the pointer when the timer is done, and `schedule_stale` shows that the assumption cannot be left out.

*Refinement*: a request's timer is read off the live structure it is in (`TimerOf`). One lemma per way of changing the
queue says which timers change (`InsertAsks`, `Cancels`, `RunFires`); `PopDeleted` and the re-insertion of an executed event are
stuttering. `RunFires` uses that the popped event is the earliest of all queued, hence of all live ones.

There is one lemma per action and invariant, and `CountedStep`, `KeptStep`, `StepImplements` put them together.

### 5.2 The link

`IrcLinkProofs` proves about `IrcLink`, for any number of hubs, any behaviour of theirs, any number of faults, rehashes and
lines in a read (`IrcLinkAssumption`: there is at least one hub):

| theorem | statement |
|---|---|
| `AlwaysOnTheWay` | `Spec => []AlwaysReconnecting` |
| `HubKnownIffConnected` | `Spec => []HubIffConnected` |
| `AsyncHitsThisLink` | `Spec => []AsyncIsForThisLink` |
| `HubsTakeTurns` | `Spec => MovesOn` |

The three invariants are not inductive, for the reason `handledata()` is hard: lines are parsed after one of them
has closed the connection. Were one of *those* the hub's `SERVER` line, `irc_handleserver()` would set `connected`
with no socket open. So the invariant `LinkInv` says where that line can be: it is the second line of a connection
wherever the buffer has got to (`ServerLineSecond`); who is connected has passed it; and while the second line is
in the buffer unparsed the socket is open (`EarlyLines`), because only a hub we are connected to can be squit. That the
hub sends its `SERVER` line second and never again is what `Sendable` assumes of the network; the code itself tests only
that it is among the first two.

`DisconnectedInv` is the one lemma for all the ways of closing (timers, socket, SQUIT, the second disconnect after a full buffer),
`MayWrite` the one for all writes. `HubsTakeTurns` adds that `(hubnum + 1) % hubcount` is another hub (`NextInHubs`), and that every
step that closes a connection not yet linked calls `nexthub()` once (`ClosedByHub`).

### 5.3 The lists of hooks

`CallbacksProofs` proves about `Hooks`, for any hooks, callbacks, priorities and memory, and for hooks nested to any depth
(`HooksAssumption`: the hooks are finitely many, the end-of-queue hook is one of them, `NULL` is neither a callback nor a node):

| theorem | statement |
|---|---|
| `NodesStay` | `Spec => []NoDanglingNode` |
| `EveryDueCallbackCalled` | `Spec => []AllCalled` |
| `RegistrationOrder` | `Spec => OrderKept` |

`AllCalled` says something about a frame at the *end* of its list only. In between, `FramesGood` says of every running frame, at any depth, that whoever is due in it and
has not been called has a node *behind* the one the frame is at. That survives a registration because a new node changes no order of the others (`InsertPlaces`,
`NewNode`), a deregistration because the callback is due no longer, and a call because the frame goes to the *first* node with a callback: whoever is behind the old
node is behind the new one or is the one called (`CallNextStep`). The garbage collector needs nothing of frames, as there is none but the outermost at its end.
`DirtyMarked` says that a hook with a deregistered node is in `dirtyhooks`, once; that is what bounds `dirtyhookcount`, by the number of hooks (`MarkedOnce`). `ByPriority` is the order of
the list, deregistered nodes included: without those, a new node might be placed wrongly behind one that is still linked.

What the collector leaves (`Swept`) is defined by its elements and its order. That there is such a list for every list is an induction over its length. The library's
induction theorems cannot be used, but a least counterexample can: every set of naturals that is not empty has a least element (`LeastNat`, from the theorems about
well-founded relations), and `Listing` shows that a shortest list without one cannot exist.

### 5.4 Kills from inside of hooks

`CallbacksProofs` proves about `PendingKills`, as the run `callbacks` instantiates it, for any nicks, any number of kills that wait and hooks nested
to any depth:

| theorem | statement | assumes |
|---|---|---|
| `NickOfHookAlive` | `Kills!Spec => []NicksAlive` | `NULL \notin Nicks`; the instance has `~LateKills` |

`~LateKills` is a fact about the other modules: on the end-of-queue hook only `clearpendingkills()`, `clearpendingkicks()` and the
garbage collection are registered, and no callback behind the first kills.

That no hook is about a freed nick does not follow from itself: a kill that is asked for now is carried out much later, when other hooks are
running. `KillsInv` says what is needed in between: no nick that is leaving is what a hook further out is about
(`DepartsAlone`), except the outermost hook at its end, whose callbacks have all been told; every entry of the queue names nicks that are there (`PendingAlive`), as `checkpendingkills()` takes
entries off before the nick is freed (`LostForgotten`); and nobody kills the nick whose departure the outermost
hook is told of (`OuterSpared`), which would free it a second time.

### 5.5 The tables of nicks

`NickTableProofs` proves about `NickTable`, for any servers, clients, names, hosts, accounts and timestamps:

| theorem | statement | assumes besides `NickTableAssumption` |
|---|---|---|
| `TablesCorrect` | `Spec => []TablesExact` | - |
| `RecordsShared` | `Spec => []SharedExact` | `~AccountModes` |
| `CollisionsAgree` | `Spec => []LoserIsTheSame` | - |

`NickTableAssumption` says that our own server is one of the servers, that numbers are naturals, that memory is finite (counts are cardinalities) and that `NULL` is not
a structure. `~AccountModes`: the network does not send `+r` and `-r` as modes of a user. `handleusermodemsg()` sets those flags
without touching the account; what an account counts then is only an upper bound (`Accounted`), and that is all `TablesCorrect` needs.

`TablesInv` adds to the types what a handler has in its hands between its hooks (`HandlingOK`): nobody has the name
it is going to give, and the nick it is going to place or rename is still there. The tables are exact for the nicks that are *placed*
(`Placed`), all but the one that is being introduced: by number in both directions (`Numbered`, `SlotsExact`), by name (`Named`), one nick per name (`OneHolder`). Hosts, accounts
and cloaks tell their users (`Tells`). One group of lemmas says what `deletenick()`, `addnicktohash()`, the release of a host and of an account do to the tables, and
there is one lemma per handler.

### 5.6 The members of channels

`MembershipProofs` proves about `Membership`, for any network, any memory, any depth of hooks and any number of kicks that wait:

| theorem | statement | assumes besides `MembershipAssumption` |
|---|---|---|
| `MembershipMirrored` | `Spec => []MirrorExact` | `HooksAssumption` |
| `HandlersSafe` | `Spec => []ChannelsAlive` | `HooksAssumption` |
| `KicksCarriedOut` | `Spec => []NoKickLeftOver` | `HooksAssumption` |
| `HooksHaveChannels` | `Spec => HookChannelAlive` | `HooksAssumption` |

`HooksAssumption` bounds what callbacks do, not how often: they kick (from the channel the hook is about) in the hooks
`NEWNICK`, `NEWCHANNEL` and `JOIN`, kill in `JOIN`, let services join in the same three, and do not kick in the `NEWCHANNEL` of a burst.
Section 3.7 names the callbacks of the repository that do each of these. The last conjunct is not true of all of them: it is what the run
`membership_burst` violates. So the theorems say that the burst is the *only* handler that kicks can take the channel away from.

The argument. A kick that a callback asks for waits until the outermost hook is done, so the only handler that can lose its channel is the
outermost one, in one of the three hooks above. `HandlersChan` says where that is harmless: a frame is stale only if it is the outermost one, in its last hook or in the
`NEWCHANNEL` after which `handlejoinmsg()` looks the channel up again. In the other hooks the channel must survive every kick, because
the handler goes on with the pointer: `ServiceStays` says that one of our services is on it, if anybody can be kicked at all, and a service is never kicked or killed.
`StackShape` (with `FrameShape` and `Nested`) says which handlers can run inside which hooks, and that kicks wait only behind a hook of a join;
`KickShape` that every kick that waits is for the channel of the outermost handler and for a nick that is there: `checkpendingkickchannels()` and `checkpendingkicknicks()` see to it
when a channel or a nick goes. `Mirrored` is the mirror itself, but for memberships that end (`Ending`); for a nick that leaves all its
channels, `Walked` says how far the walk of its array has come, which is what makes the array end up empty just when no user hash names the nick any more.

There is one lemma per action (`...Inv`), with `GotoInv` and `PopInv` for the steps that only move the innermost handler on. `HookChannelAlive` speaks of a step; it
follows because no step makes a frame stale that comes to a new hook (`StaleWaits`).

The inductive invariant was model-checked on instances of `Membership` before it was proved. Two of its parts came from there and from failed proofs: that a quitting frame has no channel, and the last
conjunct of `Walked`.

### 5.7 The modes of a channel

The first part of `TablesProofs` is about `ChannelModes`, as `MCTables` and with it the run `structures` instantiate it, for any users, keys, limits, timestamps and modes without parameter:

| theorem | statement | assumes |
|---|---|---|
| `KeyAndLimit` | `Modes!Spec => [](Modes!ValuesExact /\ ValuesExact)` | `Modes!ModesAssumption` |
| `OrderOfBursts` | `Modes!Spec => [](Modes!BurstsCommute /\ BurstsCommute)` | `Modes!ModesAssumption` |

(`Modes!ValuesExact` is the component's property; `ValuesExact`, of `MCTables`, is the same in a run of several components.)
`ModesAssumption`: keys, limits and timestamps are naturals, limits positive (a limit of 0 is none in the code), and `NULL` is
none of them. `ValuesExact` is inductive with the types (`Sound`). `BurstsCommute` is about an operator: it is proved field by field of the channel, each by the order of the two timestamps
and of the channel's own; keys are merged by the smaller string and limits by the smaller number, both of which are commutative only
because `IsKey` and `IsLimit` go with the values, so it needs the invariant.

### 5.8 The records of accounts

`AccountsProofs` proves about `AuthRecords`, as `MCAccounts` and with it the run `network` instantiate it, for any number of accounts, nicks and structures:

| theorem | statement | assumes |
|---|---|---|
| `AccountsShared` | `Accounts!Spec => []RecordsExact` | `Accounts!AuthAssumption` |

The inductive invariant `AccountsInv` says it from all sides. From the record (`RecordOK`): it lists and counts the nicks that are logged in, its structures are of this account and alive, and something holds it, unless a
service was unloaded: `releaseauthnameext()` clears the extensions without releasing records. From the structures (`ReguserOK`, `AutheduserOK`): a structure that is in use, and not of a deleted account, is the one its record
names, so that two structures never claim one account. And `IDsTaken`: no structure has an ID above `lastuserID`. The invariant `RecordsExact` does not mention the last; it is needed because `csa_createaccount()` takes
`lastuserID + 1` and hangs its structure on whatever record it finds, without looking whether the record has one. It has none, because a structure there would have an ID that was not given yet. A record there may well be, of an account
that the channel service does not know. That `lastuserID` starts as the largest ID of a database of any size (`LargestID`) is an induction over numbers.

A structure marked dead is in no record, in the invariant as in the code: `cs_removeuser()` takes it out before the mark, so the last nick that leaves does not lead to it. The proof for `deletenick`
shows that it frees no structure of the channel service at all; what that comes to is the run `auth_dead`.

### 5.9 The queues of queries

`QueriesProofs` proves about `PqQueue` and `SqliteQueue`, as the run `links` instantiates them, for any queries and any number of modules:

| theorem | statement | assumes |
|---|---|---|
| `PqQueueImplementsQueries` | `Pq!Spec => PqImplementsQueries` | `Pq!QueueAssumption` |
| `SqliteQueueImplementsQueries` | `Sqlite!Spec => SqliteImplementsQueries` | `Sqlite!QueueAssumption` |

`QueueAssumption`: `QH_ALREADYFIRED` and `DB_NULLIDENTIFIER` are different and no module's identifiers, and `NULL` is nothing else; the run evaluates both. The instances have
`BareNamed` and `Unnamed` false, which is about who asks: a query without a callback carries no module's identifier (`pqfreeid()` calls through the handler without looking whether there is one), and a query with a callback carries
that of its callback's module (another is not called back when the module goes). Where modules of the repository do the second, `sqlite_unload` shows what comes of it in the other database.

*PostgreSQL.* `Queries` answers the *oldest* query that waits, while the code answers the one at the head of its list, and the two lists differ: a query that `pqfreeid()` has called
with NULL may still be in the code's. So `QueueInv` says of every query in the list that was called that it is marked `QH_ALREADYFIRED`, except for those a frame is
about (`StackOK`): the head while `dbhandler()` is in its callback, and the query `pqfreeid()` is at. With `KindsOK`, which says that the identifiers tell whose callback is called, `dbhandler()` calls
the head exactly if it waits, and then it is the oldest. That `pqfreeid(m)` leaves no query of m behind is said by place: none of m's is *before* the one it is at (`Firing`), whatever callbacks ask
meanwhile, because they ask behind it; when nothing matches any more, none is left (`WalkEnds`). `dbhandler()`'s own head is not called a second time from inside of its callback, for the module that is
unloaded is not the one the callback is in. `EndsOK` says that `querytail` is the last of the list and the server has the first, on which both the next question and the next answer depend.

`Only` has no recursive definition to reason by: `OnlyIs` shows that a list with the right elements in the right order *is* `Only(s, S)`, by counting places up to each of them (`Counting`), and
`OnlyLess`, `OnlySame`, `OnlyFirst` say what happens to it when a query is called, or leaves the list called. There is one lemma for each action.

*SQLite.* A query that is asked while nothing is queued may be run at once and its callback called before the list knows of it; callbacks then ask and run further queries, nested to any depth, and
unload modules, whose `sqlitefreeid()` calls callbacks in turn. `SqliteInv` says what may be on that stack: a statement that is being run is alone on it, nothing is queued, and its module is still loaded
(`SRun`); `sqlitequeueprocessor()` is the outermost, and whatever happens inside of its callback, the query it will take off the list and free is still the head (`SProcess`); `sqlitefreeid()` runs
once at a time (`SOneFree`), has left no query of its module at or before its place (`SFree`), and that place is behind the head while the head is in its callback, so it neither frees nor calls that one
a second time. `SKinds` says that every query of the list still has its module loaded, which is what lets `Queries` answer it; `STail`, that the next question goes behind the last one.
The refinement is then the list as it is, less the head in its callback.

### 5.10 The server list

The second part of `TablesProofs` is about `ServerTree`, as `MCTables` and with it the run `structures` instantiate it, for any number of servers, any
number of events on the network and any number of lines on their way (the bounds `MaxWire` and `MaxEvents` are without an assumption):

| theorem | statement | assumes |
|---|---|---|
| `ListRooted` | `Tree!Spec => [](Tree!Rooted /\ Rooted)` | `Tree!TreeAssumption` |
| `ListMirrorsHub` | `Tree!Spec => [](Tree!Mirror /\ Mirror)` | `Tree!TreeAssumption` |

The difficulty is the delay: the hub's network is ahead of our list by the lines on the wire, and neither `Rooted` nor `Mirror` says anything about a list that is behind. The inductive
invariant `ServersInv` does, by what the hub knew in between: there are *views* of the network (`View`), the last of which is what the hub knows now, each the one before changed
by one line of the wire (`Replay`, `Changes`), and the first is what the list stands for (`Matches`). The hub's actions make the sequence longer by one (`LineSent`), our handlers shorter (`LineTaken`),
and linking gives a whole one at once, one view for each prefix of the hub's announcements (`LinkUpInv`, where `Part` is what has been announced so far). `Rooted` is read off `Matches`; `Mirror` is the state in which the wire is
empty and the first view is the last.

Of a view the invariant says (`ViewOK`) that it is a tree with one hub at most, that no set of servers holds the parents of all its members (`Founded`: no server is above itself, without a word about paths), and
that who waits for a burst is a child of the server that bursts or of one that waits for the same. Every line of a good hub keeps it (`ChangesKeep`).

Between two calls of the recursion the list is between two views. `completelink()` (`Completing`): the calls on the stack lead down the tree (`Path`), the servers whose entries
are not yet those of the view (`Late`) are the one the burst was of and those that wait for it, and each has its parent among them; so when nothing that waits is left below the first call, `Founded`
leaves nothing late at all, which is why the recursion over children, by their link states alone, completes the whole burst and nothing else. `deleteserver()` (`Deleting`): the servers that
are in the list and not in the view (`Doomed`) are a branch whose root is the first call; one that is LS_SQUIT is the innermost call and has no children left. When the connection is lost the root is our hub and the view empty.

What the theorems take from the hub is in the external actions (3.5): one that announced a server before its parent would break them. And they are of names of which none begins with another.

### 5.11 The scanner's queue

The third part of `TablesProofs` is about `ProxyScan`, for any addresses, any list of scans and any limit:

| theorem | statement | assumes |
|---|---|---|
| `ScansBalance` | `Scanner!Spec => [](Scanner!ScansExact /\ ScansExact)` | `Scanner!ScanAssumption` |

`ScanAssumption`: the list of scans is a list, `maxscans` and `PassDelay` are naturals, and `NULL` is neither a scan nor a cached host. Nothing is assumed of the intervals, of the bounds, of what the network answers or of
which sockets cannot be had.

The functions call each other, so the proof has one lemma for each function, not for each action, about two parts of the invariant `ScanInv`. `Balanced(st, held)` says that the books of a state `st` in the
middle of a handler are right *if* the functions at work hold `held` references besides: `queuescan()` takes one before it knows whether the scan runs or waits, `startscan()` hands it to the scan or gives it back,
`killsock()` holds that of the scan it has just freed until its retry is queued. At the end of a handler nicks alone are held for. `Full` says that nobody waits in the normal queue while a scan could run; it is false inside of
`killsock()`, between the place that is freed and `startqueuedscans()`, whose rounds are counted: each is the last that changes anything (`Settled`), or leaves one scan less waiting (`StartNextKeeps`). An alarm that
fires has already left the heap, and a read deletes one that is there; both come out as `Unwatched`, after which `deleteschedule()` has nothing to do or did it.

The loops are written as functions of the number of rounds done; that there are such functions is proved as in 5.3, by induction over a set of numbers (`Rounds`, `Queueings`).

### 5.12 The heap of timers and the hash of a channel's users

The next parts of `TablesProofs` are about the two tables that are indexed by the code itself, for any number of timers, any times, any numerics, any depth of the search and any `MaxGrowth`:

| theorem | statement | assumes |
|---|---|---|
| `HeapKeepsTimers` | `Heap!Spec => [](Heap!HeapExact /\ HeapExact)` | `Heap!HeapAssumption` |
| `HashFindsUsers` | `Hash!Spec => [](Hash!HashExact /\ HashExact)` | `Hash!HashAssumption` |

`HeapAssumption`: times are integers. `HashAssumption`: numerics are naturals, `CUHASH_DEPTH` is at least one, `nouser` is no word.

*Loops*. In both modules a loop is a function of its rounds. That there is such a function is `Iterates` (from a function for one step, by `NumberByNumber`), and what holds of the last round is shown by `NumberByNumber`, so that
what remains is one lemma for one round.

*The heap*. `HeapInv`: the array holds the queued structures without gaps, the index fields are the places (`Holding`), and no element is above an earlier one (`InOrder`). Inside of a repair the order is broken at one place: `DownReady` and `UpReady` say that
everything else is in order, and `Bridged` that the children of that place are not before its *parent*, without which a swap would break the order one level further. A call of `schedule_heapify()` either ends, and
then the element there is before its children (`DownDone`), or swaps and is ready one level lower (`DownOrder`); there are fewer calls than places since the place grows with each. `schedule_remove()` pushes down and then floats up from the *same* place: if the element went down, the place
already has an element that was below the parent, and the loop ends at once; if it did not, it may have to go up, as the last element of the array need not belong to this branch. `HeapifyRight` says both in one: what comes out is ready to go up.

*The hash*. `HashInv`: the table is good (`GoodTables`), i.e. every word is at one of the places at which its numeric is looked for (`InPlace`) and no numeric has two words (`OnceEach`); its words are `members`; and the word that
`delnickfromchannel()` holds is that of the user who leaves, in the table that is in use (`Held`). The search does not stop at a free place, so places that became free do not hide anybody: that is what `FoundIs` needs of it, and its mutant fails there. A copy of `rehashchannel()` is good, and has all words if all
fit (`CopyGood`): a word that finds no place is dropped by `Added`, which is why the code starts again. `Held` needs that nobody joins during the hook: `MCTables` instantiates the module with `JoinInHook = FALSE`, as the
callbacks of the repository are. A join that needs more than `MaxGrowth` rehashes or sizes has no step, and the theorem says nothing of it; that some size is always enough is not proved.

### 5.13 The bans shared with the hub

The last part of `TablesProofs` is about `Glines`, for any masks, durations and bursts, and any `MaxTime` and `MaxWire`:

| theorem | statement | assumes |
|---|---|---|
| `BansAgreed` | `Gline!Spec => [](Gline!Agree /\ BansAgree)` | `Gline!GlineAssumption` |

`MCTables` instantiates the module with `Crossing = FALSE`; with `TRUE` the statement is false (`glines_cross`). The other restrictions of 3.17, `Early` and `Remembered`, are guards of the actions.

`Agree` speaks of the moments when nothing is on its way. The invariant says what is true while something is. Bans that are over stay in the list until a search passes them, at different times for different masks, so
the proof looks at `Standing(l, m, t)`, the bans of mask `m` in the list `l` that are not over at `t`: none or one, as a list has one ban for a mask (`BanLists`). `findgline()` leaves them as they are whatever it sweeps (`FoundList`), and each
operation of the list is a change of those of one mask (`Becomes`). What a line makes of them is `Heard`; `ActivatedList` and `DeactivatedList` show that the handler does just that. There are two cases (`Tied`):

* *The hub has spoken*. `Hearing`: for each mask, the lines on their way, taken one after the other, make our ban what the hub knows (`Learns`). A line of the hub is one more step at the end (`LearnsLine`), a line handled one less at the
  start (`LearnsHead`), and no line at all means that both know the same. That the hub's next line is understood needs that what we have by then is of the same length as the hub's ban and not later (`Behind`, `ToldBehind`): a *later* ban of ours would
  stay as it is but become active. A burst makes every ban that is behind the hub's the hub's, also if it was named before (`BurstLearns`), which is what `Remembered` is for. A ban is only destroyed by `%-` if it is not U-lined (`Hears`): otherwise it
  would stay in the list, destroyed.
* *We have spoken*. `Saying`: the line is about a ban of ours whose last change is later than that of the hub's, or is that one (`Follows`). `Lastmod` makes it later whatever our clock says: its mutant takes the clock, and the hub, which has seen a later change, would answer instead of following.

`lastmod <= expire` for every ban of the hub (`HubBans`) is where the assumption on clocks is needed: `handleglinemsg()` takes the later of the two as the ban's lifetime.

### 5.14 What is only model-checked

The liveness properties `DueTimerRuns`, `LinkedInTheEnd` and `NoneForgotten` (fairness and `ENABLED` are beyond the prover). `CommandTree`,
`ModeChanges`, `Modules` and `Patricia` are recursive as the code is: a module that declares a RECURSIVE operator is out of the prover's reach. `Trusts` folds over sequences;
what a fold computes needs induction over data, which works for sets of numbers (5.3, 5.11 to 5.13) but has no theorem to cite for folds.

## 6. What is not modelled, and why

* **Operating system and files**: event handlers, configuration, logging, signals, pools. They have no protocol
  of their own; what matters of them (an allocator that re-uses memory, an event loop, a rehash) is in the modules above.
* **Wording**: formats of lines and replies, splitting of long lines, statistics.
* **In the modelled parts**: bans that replace bans, topics, OPMODE; messages of local users, their numerics and bursts;
  realnames; tables loaded by a cursor and the lost connection of `pqsql`; limits of trust groups and their enforcement, expiry; the replacement of `modules.dep` by a rehash; G-lines by realname or
  user, and buffers of several; what the scanner sends and recognises, its files and commands.
* **JOIN with several channels** in a line, and callbacks that kick from *another* channel than that of their hook: listed as hazards
  (`channelhandlers.c:255`), planned as a widening of `Membership`.
* **Generated and vendored code**: the parser of newsearch, `lib/` ciphers, and the SQLite amalgamation, which is two thirds of the lines of the repository and of which
  the models only say that a statement is run, refused, or finds the database busy.
* **Services and bots**: chanserv, jupes, chanfix, request, nterfacer, trackers, helpmod2 and others: planned as in
  steps 12 and 13, or, for the commands that only print, not worth a model. They appear as the callbacks of `Membership`, `PendingKills` and `Queries`.

## 7. Running

    tlc -workers 2 -config MCSchedule.cfg MCSchedule
    tlc -workers 2 -config ModeChanges_limit.cfg ModeChanges
    tlapm ScheduleProofs.tla        # and IrcLinkProofs, CallbacksProofs, NickTableProofs, TablesProofs, AccountsProofs, QueriesProofs
    tlapm MembershipProofs.tla      # about seven minutes from nothing, TablesProofs about ten

A configuration `MCX.cfg` or `MCX_y.cfg` belongs to the module `MCX`, which extends or instantiates the modules of the components with the symmetry sets and
definitions of that instance; `X_y.cfg` belongs to the module `X` itself. `MCTables` and `MCAccounts` are the parts of `MCStructures` and `MCNetwork` that reach no recursive operator: the instances are
made there, so that the proofs are about the properties the runs check.
