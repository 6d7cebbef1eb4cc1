# Verification of the game server

TLA+ models of the server in `src/` (a C++ game server of the TFS/TVP family), checked with TLC,
with theorems checked by TLAPS.

The server is one process. One thread, the *dispatcher*, owns the whole game state and runs tasks
one after the other. The network thread, the scheduler thread and the database thread hand it
those tasks. There is one MySQL session for everything that is synchronous and one for the
asynchronous queries. There are no automated tests of the C++ code in the repository. The properties
below come from what the code, its comments and its callers rely on.

1. [Components](#1-components)
2. [Modules, and what they stand for](#2-modules-and-what-they-stand-for)
3. [Runs: what is checked, and with which bounds](#3-runs)
4. [Fairness](#4-fairness)
5. [Theorems](#5-theorems)
6. [Disagreements found](#6-disagreements-found)
7. [What is not modelled](#7-what-is-not-modelled)
8. [Plan](#8-plan)

## 1. Components

| component | state | operations | interacts with | what is hard | correct when |
|---|---|---|---|---|---|
| Dispatcher (`tasks.*`) | `taskList`, the batch, `threadState` | `addTask`, `threadMain`, `shutdown` | every other thread calls `addTask` | notify after unlock, two lists, shutdown tasks among ordinary ones | a serial FIFO executor; no lost wakeup; nothing left behind |
| Scheduler (`scheduler.*`) | timers by event id, posted handlers | `addEvent`, `stopEvent`, `shutdown` | posts to the dispatcher; called from all threads | cancel against expiry, ids that wrap, shutdown against a completion | a task comes once, not early, and can be stopped |
| Asynchronous queries (`databasetasks.*`) | list of queries, worker | `addTask`, `flush`, `shutdown` | answers are dispatcher tasks; `saveGameState` flushes | two threads execute one list | each query once, in order but for the one in hand; the thread ends |
| Database session and saves (`database.*`, `iologindata.cpp`) | session, recursive lock, transaction, data file | `executeQuery`, `storeQuery`, `begin`/`commit`/`rollback`, `savePlayer` | dispatcher and network threads share the session | lost connections, retries, commit whose answer is lost | what is stored is one whole save |
| Connection (`connection.*`) | socket, queue of messages, timers | `accept`, `parse*`, `send`, `close`, `handleTimeout` | releases its protocol through the dispatcher | handlers in any order, timers that cannot be cancelled, throws | one release; messages in order; the socket is returned |
| Game sessions (`protocolgame.cpp`, `game.cpp`, `player.cpp`, `creature.cpp`) | session and player pointers, reference counts, removal lists | login, take-over, logout, kick, death, release, the periodic clean-up | dispatcher queue, scheduler, output pool | raw pointers, deferred removal, a take-over that waits a second | no dangling pointer; the character is in the game once |
| Output buffers (`outputmessage.*`, `protocol.*`) | protocols with a buffer, chain of events | `addProtocolToAutosend`, `sendAll`, `getOutputBuffer` | sessions, scheduler | the list empties while an event is under way; a buffer that gets too long | in order, nothing left in a buffer |
| Start and shutdown (`otserv.cpp`, `server.*`, `signals.*`) | services, acceptors, `running` | load, run, stop, accept, retry, signals | starts and joins all threads | a signal during the loading, a late retry | every port is served, and the process ends |
| Login gate (`ban.*`, `protocollogin.cpp`, waiting list) | attempts per address, waiting players | `acceptConnection`, `clientLogin` | network threads and dispatcher | time windows | one place per client |
| Party (`party.*`) | leader, members, invitations, ticks | invite, join, leave, pass, revoke, logout, shared experience | players, game handlers | every fact is kept twice, the object deletes itself | both sides agree |
| Trade and house documents (`game.cpp`, `house.cpp`, `player.cpp`) | offers of both, map of items, references | request, accept, close, move, remove | items, containers, houses | an offered item may be moved in a dozen ways | what is shown is what changes hands |
| Creatures (`creature.*`) | to-do queue, lists of the game, damage map | `startToDo`, `executeToDoEntries`, `stopToDo`, `onThink`, `onDeath` | scheduler, map | entries that change the queue they are in; removal in several stages | one event per creature; nobody freed while referred to |
| Decay (`game.cpp`) | four buckets, items to enter | `startDecay`, `checkDecay`, `cleanup` | items, references | bucket arithmetic, transforms during the sweep | no item decays early, late or never |
| Items, containers, tiles | tree of things, cached weights and flags | `internalMoveItem`, `internalAddItem`, `removeMoney`, `addThing`, ... | everybody, clients | limits, stacking, caches | nothing is lost or doubled |
| Game packets (`protocolgame.cpp`) | what each client knows | `send...` | everything seen | the client has a copy of everything | the copy is right |
| Players | experience, skills, skulls, frags | gain, loss, death, fight | everybody | tables of arithmetic; facts kept on one side | levels follow the tables; a skull has a reason |
| Monsters (`monster.cpp`) | target list, idleness | notices of appearing, moving, leaving | map, list of thinkers | an idle monster is woken by notices only | the list is who is there |
| Npcs (`npc*.cpp`) | focus, queue | talk, think | to-do list | a customer who leaves during a pause | one customer at a time, nobody shut out |
| Combat and conditions | conditions, sums of their effects | add, tick, end, dispel | creatures, items | nothing recomputes the sums | the sums are those of the list |
| Houses, beds | owner, lists, rent, sleepers | buy, leave, rent, sleep | map, mail, saves of offline players | owners who are online, stale owners | one owner; wealth is kept |
| Spawns, raids, global events | counts, timers | start, spawn, stop, reload | scheduler, monsters | counts that are off by one for ever | population within bounds; one raid |
| Chat (`chat.*`) | channels, users, invitations | join, leave, invite, close | parties, guilds, clients | raw pointers; a channel found by an address | who hears may hear |
| Map, mail, battle pass, Lua, configuration, logging | | | | | |

`PROJECT.json` lists each of them with its sources and status, and the hazards at their lines.

## 2. Modules, and what they stand for

In all modules a critical section, or a handler that runs on one thread without giving it up, is
one step. A comment over each definition says what it stands for; `map` in `PROJECT.json` has the
lines. Definitions that no other refers to and that differ little from the one after them
(`SwapKeeps`, `JoinWhileMember`, ...) are wrong variants: `mutants` in
`PROJECT.json` says which definition each would replace and which property notices it.

### The runtime

**`SerialExecutor`** is what the rest of the server believes of the dispatcher: a FIFO queue, one
task at a time, each once, expired ones possibly discarded. No threads, locks or batches.

**`Dispatcher`** (`tasks.cpp`, the shutdown paths of `game.cpp` and `otserv.cpp`). State:
`taskList`, the swapped batch `tmpTaskList`, `threadState`, where the thread is (`pc`), and the
threads that have unlocked and not yet notified (`signalling`). `AddTask` is the critical section
of `addTask`, `NotifyOne` the signal after it; `TestState`, `Wait`, `SpuriousWakeup`, `TakeBatch`,
`NextTask`, `BatchDone` are `threadMain`; `RunTask`, `CloseGame`, `Stop`, `RunShutdown`,
`RunTerminate` execute a task, told apart by what it does to the dispatcher. `MainShutdown` is the
path of `main` on which no service runs. `Dispatcher` implements `SerialExecutor` under the mapping
`queue <- tmpTaskList \o taskList`.

**`DatabaseTasks`** (`databasetasks.cpp`, `saveGameState`, `Game::shutdown`). Queries are numbered
in the order they are accepted. The worker and the dispatcher's `flush` pop the same list. `hand`
is the query an executor has popped and is executing without the lock.

**`Scheduler`** (`scheduler.cpp`). `addEvent`, `stopEvent` and `shutdown` post a handler to the
`io_context`; `ready` is its queue and its one thread runs them in order (`RunAdd`, `RunStop`,
`RunFire`, `Dispatch`, `RunDown`). `Expire` moves a due timer's completion into `ready`, after which it cannot
be cancelled. Ids are modulo `IdMod`, for 2^32.

**`ServerLife`** (`otserv.cpp`, `server.cpp`, `signals.cpp`, the end of `game.cpp`). The main
thread, the loader that is a task of the dispatcher, the acceptors with their retries, the signals
and the other threads as three states each. A loader that notifies before `main` waits, and a
shutdown before the services run, are states of the model; `ServerEnds` names them as its
exceptions.

### Network and sessions

**`Connection`** (`connection.cpp`, `Protocol::release` being posted by `close`). One object.
Methods are operators from the object to the objects they may leave, because a set-up may throw.
`ReadCompletes`, `WriteCompletes`, `PeerResets`, `TimerExpires` are the environment.

**`OutputPool`** (`outputmessage.cpp`, `Protocol::getOutputBuffer`). One buffer per protocol, the
list of those that are served and the chains of `sendAll` events, of which there can be two. A
message is its number and its length; the lengths are the code's.

**`WaitList`** (`protocolgame.cpp`). Two lists of clients with the time each has, `clientLogin` and
the clean-up that runs only when somebody logs in.

**`GameSession`** (`protocolgame.cpp` login, connect, logout, release; `game.cpp` removal and
clean-up; reference counts of `creature.h`). Sessions of one character, the `Player` objects made
for it, and the dispatcher's queue. Pointers that the code keeps raw are kept as they are, and
`refs` is the counter, so that a pointer to a deleted object is a state that an invariant
excludes. `Timer` is the scheduled `connect` one second later; `CheckCreatures` and
`ProcessRemovedCreatures` are the periodic events. This module composes what it needs of the
others: the dispatcher as a FIFO queue (justified by `SerialExecutor`), a connection as its four
visible states, the output pool as the set of the sessions it shares.

**`PlayerSave`** (`iologindata.cpp` savePlayer, `database.cpp`, `DBTransaction`). What a table or
the data file holds is the number of the save that wrote it. `open` is the server's transaction,
`inTrans` what the client library believes of it. `Script` is the order of the calls, from the query that asks
whether the character is to be saved at all to the commit.

### What a client shows

**`KnownCreatures`**: which creatures the server takes a client to know, which the client was
described, and who is on its map; the set of the known has a limit and forgets.
**`TileStack`**: a tile as the server keeps it (ground, top items, creatures, down items, cached
flags, the limit of items; fields make way for each other and for what replaces them) and the client's
one list of at most ten things, which is told of changes by position.
**`Windows`**: the containers a player has open, as raw pointers, and what his client shows in
each; moving, destroying and walking away must close or update them.
**`Spectators`** (`map.cpp`): the leafs of the map with their links, the creatures they list, and the
two caches of `getSpectators`, against what clients with a range of their own show (`canSee`).

### Creatures

**`ToDo`**: the list of entries of one creature, the events that will call `executeToDoEntries`,
and what an entry may do to the list it runs in. Times are remaining times.
**`Lives`**: the pointers that the tile, the list of thinkers, the sets of the killed and of the
leaving hold, the references they count, and the two periodic events that follow them.
**`Targets`**: a monster's list and idleness as the notices of the map make them, beside who is
really in sight. **`NpcFocus`**: the customer an npc attends, the queue, and the pause after which
one who may have gone is addressed.
**`Kills`**: the ring of damage entries, summons that count for their masters, and what a death
hands out. **`Conditions`**: the list of a player's conditions, a ring that works like some, and
the sums they leave on speed, skills, outfit and locks.
**`Skulls`**: who attacked whom, fights, white and red skulls, murders.
**`Levels`**: experience, level, health, mana, magic level and one skill, with gains, deaths, the
fall back to a rookie, vocations and promotions. The tables are small but have the shape of
the code's: the needs of experience grow strictly, as the code's formula does (so that its tests for
a greatest level never hold, and are left out), those of mana and tries up to the greatest level
modelled, and the gains differ from vocation to vocation.

### Things and places

**`Items`**: the ground, the slots and nested bags; adding, moving, splitting, stacking, paying
and giving change, with the limits and a bag's cached weight. **`Decay`**: the four buckets in units of
125 ms, an item's remaining duration, and transformations within the sweep.
**`Houses`**: owner, lists, presence, bed, rent and transfers, for players online (in memory) and
offline (in the database). **`Spawns`**: the count of a spawn against its living monsters, the
check event, vetoes of scripts. **`Raids`**: the chain of checks, the chain of a raid's events,
reloads and scripts.

### What players do together

**`Party`** (`party.cpp` and its handlers in `game.cpp`). One step per handler; `Go` is leaving,
revoking and logging out in one, because the code's handlers call each other and any of
them may disband the party.

**`Trade`** (trade handlers of `game.cpp`, hooks of `player.cpp`, `house.cpp`). Things form a
forest of containers (`inside`, `holder`); `MoveThing` and `MoveAway` are the ways in which
anybody may touch a thing, and `Touched` what closes a trade.

**`Chat`** (`chat.cpp`): channels with their raw pointers to users, parties by address, private
channels with their invitations, and the windows of the clients.

## 3. Runs

The modules of the runtime and of the sessions have runs of their own. The others share four runs:
`MCPlayers`, `MCServices`, `MCWorld` and `MCCharacter` are *sums* of modules. Their variable
`part` names one module, chosen in the initial state; a step is a step of that module, and
everything else stays as it is. So the behaviours of a sum are those of its modules, one after the
other, and a property of a sum says `part = "x" => P` for a `P` of that module. Where only one of
the modules moves, the values of the others do not matter, so all of them use the same variables
`u1`, `u2`, ... in turn: `X == INSTANCE M WITH v <- u1, ...`. Nothing is composed by a sum. A
component that interacts with another has what it needs of it in its own module.

| run | question | bounds, and why they are enough |
|---|---|---|
| `dispatcher` | Is a wakeup lost, a task stranded, the order or the "once" violated? Does every accepted task end, and the thread after a shutdown? | Two ordinary tasks (one expiring), two shutdown requests, two other threads: a task can arrive at each point of the loop, and after each step of the shutdown. The theorems cover the safety part for any number. |
| `scheduler` | Can every waiting event be found by its id? Is a task handed on once, never early, at most one after the shutdown, and each one that nobody stops? | Three events, two ids, clock up to 1: an id is given again while its first event still waits, and a shorter delay overtakes a longer. |
| `database_tasks_end` | Does the worker end after `shutdown`? It need not: [6](#6-disagreements-found). | One query. |
| `game_session` | Do sessions and players agree, is no pointer dangling, is the character in the game once, and does a session lose its player only by its own release? | Three sessions (one plays, one waits for the take-over, one more logs in), two objects. References that deaths and pings add are capped at 5. The theorems cover any number. |
| `game_session_live` | Do queued packets find their session? Is a login answered, and does a logout complete? | Two sessions, one packet each. |
| `game_session_released` | Does `connect` keep the player from a released session? It does not: [6](#6-disagreements-found). | Two sessions. |
| `player_save_lost` | Is what a successful save reported stored? Not if the connection was lost on the way: [6](#6-disagreements-found). | Two versions, one login, two lost connections. |
| `house_rent` | Is rent that was paid gone from what the players have? Not if the owner was online: [6](#6-disagreements-found). | Two players, one house. |
| `players` | `Party`, `Trade`, `Chat`, `Kills`, `Conditions`, `WaitList` | Four players and two parties: a leader may leave two behind with one outside, and be invited elsewhere. Three traders with three things nested up to depth three and a house. Two who chat, with the address of a party used again; a damage map with room for two of three hitters; seven conditions that merge, replace and cancel each other; two clients for a full server of two places. |
| `services` | `ToDo`, `Connection`, `ServerLife`, `OutputPool`, `PlayerSave`, `DatabaseTasks` | Lists with each kind of entry, with a wait longer than the shortest event; two messages (one in flight, one behind it), every set-up may throw; two ports and two threads; messages that just fit and do not; two saves beside a login's query, with two lost connections (one within a transaction, one during the retry or at the commit); four queries and two flushes. |
| `world` | `Targets`, `Decay`, `Spawns`, `Houses`, `Lives`, `Raids`, `NpcFocus` | Two monsters and a player in three places of which the outer two do not see each other; an item that lives for some rounds of the buckets and then less than one; a spawn of two with three monsters; a house and two players, one with money, one with furniture; a player and a monster with up to five references; a raid of two events that repeats and one that does not, with two loads; an npc with three customers. |
| `character` | `Skulls`, `TileStack`, `KnownCreatures`, `Windows`, `Spectators`, `Items`, `Levels` | Two who fight, with times of two steps and two murders for a red skull; a tile with more things than the client keeps (four); four creatures for a client that may know two; two players, two bags, two windows each; a player and a monster on five tiles, on three floors and in four leafs, some pairs just in range, and a client as wide as it may be; three stacks, two bags, one of which weighs less than what is in it; levels on both sides of the rookies' bound and of promotion. |

Each module that a sum contains was also run alone, with the same constants, to see that all of
its actions and disjuncts are taken. `Inv`, `...Inv` of a module bundle its type invariant with the
agreements it needs, one named definition each.
`CHECK_DEADLOCK FALSE` is set where the system may really stop: after the threads have ended,
after a connection is gone, or when the bounds are used up.
Bounds are constants named in the modules (`MaxMessages`, `MaxQueries`, `MaxSaves`, `MaxTime`, `MaxLosses`, `MaxPackets`,
`MaxRefs`, `MaxLoads`, `MaxRuns`, `MaxPending`, `MaxEntries`, `MaxLost`, ...) and occur only in guards of the environment or of bounded histories.
`SYMMETRY` is used in runs without liveness only; the permuted constants are those that no property tells
apart (`NoTakeover`, `CompanyStays` and `OfferIntact` are action
properties, which a permutation of the players leaves alone).

## 4. Fairness

* `Dispatcher`, `DatabaseTasks`, `Scheduler`: weak fairness of each thread (the operating system
  runs it) and of a thread that is about to notify. Nobody is forced to call `addTask` or
  `stopEvent`. Weak fairness is enough because the mutexes are held within a step only.
* `Scheduler`: time passes, and a due timer expires.
* `Connection`: handlers that are ready run, timers expire, a failed operation completes with its
  error, and an outstanding write completes, as long as the peer reads (`ReadingPeerSpec`); without that a closed
  connection with a full queue is never shut.
* `ToDo`: the scheduler delivers its events, the dispatcher goes on with the list it executes, time
  passes. `OutputPool`: a scheduled `sendAll` comes. The game is not forced to write, and
  `Flushed` is about what has been written.
* `ServerLife`: the main thread, the dispatcher and the threads to be joined run, a handler of a
  signal that has arrived and the timer of `die` run. No signal is forced to come.
* `GameSession`: each task at the head of the queue runs, the one-second timer expires, and the
  periodic clean-up runs. No player is forced to do anything.
* `PlayerSave`: the dispatcher and the network threads run, and a query is answered in the end.
  A mutex gives no turn, but logins and saves are bounded here, so weak fairness is enough; that
  an unbounded stream of logins cannot starve the dispatcher is not claimed.
* The modules of `players`, `world` and `character`: none; their properties are invariants and
  action properties.

In a sum, fairness of a part's action is fairness of `part = "x" /\ A`, which is never enabled in
the behaviours of the other parts.

## 5. Theorems

`DispatcherProofs` proves, for every set of tasks and every set of threads that
satisfies `TaskAssumption`:

* `TypeCorrect`: the type invariant.
* `Invariance`: the inductive invariant `IInv`. The invariants that matter are not inductive by
  themselves. The argument is about `Pending`, the batch followed by the list. Every step leaves it
  alone, appends a task that was never in it, or removes its first one (`PendingSwap`,
  `PendingAppend`, `PendingTail`). `PcInv` says what the thread holds at each place, `OnceInv`
  that a task is in one place, `PillInv` that the two tasks of a shutdown come once and in order,
  `CloseInv` that nothing is queued behind the last one while the services run.
* `WakeupsArrive` (`NoLostWakeup`): inductive as it stands; the proof goes through the steps of the
  condition variable.
* `NothingLeft` (`NothingStranded`): from `CloseInv`, because the thread ends only with an empty
  `Pending`.
* `ImplementsSerialExecutor` (`IsSerialExecutor`): every step is a step of `SerialExecutor` or
  leaves its variables alone; the swap of the two lists is invisible because the batch is
  empty when it happens.

`PlayersProofs` proves of `Party`, for every set of players and every set of addresses with
`PartyAssumption`:

* `Agreement` (`Inv`): the two sides of membership and of invitations agree. The conjuncts are
  inductive only together: that a logout leaves no dangling pointer (`NoDeadPlayers`) needs that the
  player's own lists name every party that has him (`MembershipAgrees`, `InvitationsAgree`), that
  the leader's successor is somebody else needs `Ranks`, and that disbanding a party whose
  last invitation goes touches no other party needs `NotInvitedInside`.
  The lemmas on `Append`, `Tail`, a prepended leader and `Erase` reduce the member list to the set of its
  members; `GoStep` is the case of `leaveParty`, `removeInvite` and the logout, which may
  delete several parties in one step.
* `Sharing` (`SharedByActive`): inductive with `Inv`; every handler that changes members, leader
  or ticks of a party re-evaluates the bonus.
* `Company` (`CompanyStays`): a deleted party had no more than one member besides the leader.

`GameSessionProofs` proves, for every number of sessions, objects and packets that satisfies
`SessionAssumption`:

* `SessionsAgree` (`Inv`): sessions and players point to each other, the character is in the game
  once, and no object is deleted under a pointer. The last is a counting argument: `Own` is the
  number of places that count a reference to an object, `Pointers` those that point to it. Each
  step changes both in the same way (`Fine`), so that a counter that reaches zero means that no
  pointer is left. It needs that a session has at most one task of each kind queued
  (`OneTaskEach`), because two of them would drop the same reference twice.
* `OnlyReleaseTakes` (`NoTakeover`): a session loses its player by its own release only.
* `PacketsFindTheirSession` (`PacketsFindSession`): inductive with `Ordered`: of each queued packet,
  the connection is open or the release of its session is queued behind it.

`SchedulerProofs` proves `TimersAreServedOnce` (`Inv`) for any number of events, delays and ids. `Inv`
does not say that the handler of `addEvent` runs once (`AddsOnce`), on which it rests that nothing is
armed twice, that a timer is due only after its delay (`InTime`), and that nothing more is handed on
once a task was late (`LateIsLast`). `FiresOnce` says `OneCompletion` without counting.

`ServicesProofs` is about the parts of `MCServices`; `StepOfOne` says that a step of one
leaves the others alone, and each part has an inductive invariant of its own:

* `ListsAreServed` (`Inv`, of `ToDo`): `ToDoIInv` adds that an event is on its way to a list, too,
  whose loop has found an entry that is not due (`ArmedAlways`).
* `NetworkKeepsOrder` (`NetworkInv`): `ConnIInv` numbers the messages of a connection (`Numbered`)
  and says when one of them is being written (`Writing`); `OutputIInv` says that what was handed to a
  connection and what is in the buffer are together what was written, in order.
* `PortsAreServed` (`LifeInv`): `LifeIInv` says which tasks can be queued in which state of the game and of
  the loader, and of each port that one thing at most is on its way for it (`OneWay`).
* `StorageIsConsistent` (`StorageInv`): `SaveIInv` says what the tables hold at each statement of a
  save, `TasksIInv` that a query of the database thread is in one place.

`WorldProofs` does the same for `MCWorld`:

* `SpawnIsLookedAfter` (`SpawnInv`), for every set of monsters and every size of a spawn; it needs
  `BeforeStart`, that nothing is counted before the start.
* `CreaturesDieOnce` (`LivesInv`): the references of a creature are counted as those of a session are.
* `RaidsRunAlone` (`RaidsAndNpcsInv`): raids and the queue of an npc.
* `HousesKeepOrder` (`HouseInv`): the accounts are sums over all players, and each transfer changes
  two of the addends; the lemmas on sums are proved from the definition of the fold by way of a
  smallest counterexample.
* `ItemsDecayInTime` (`DecayInv`): `DecayIInv` bounds the time of each item by the turn of the
  list it is in. An earlier form of the bound held for the durations in the configuration
  of the run only; the proof is for all.
* `TargetsAreWhoIsSeen` (`TargetsInv`): `TargetsIInv` says of each list what `TargetsInv` says of all, and that
  a list names only who is or was in the game.

`PlayersProofs` is about `MCPlayers`:

* `ChannelsAgree` (`ChannelsInv`): `ChatInv` is inductive as it stands.
* `TradesAgree` (`TradeInv`): `TradeIInv` adds that who is in no trade offers nothing, that nobody
  trades with himself, and that no container lies in itself. `EndSides` and `StartSides` are what
  closing and starting do to the two sides; every handler is one of them and a move of things.
* `OffersStayIntact` (`TradesAreIntact`). What lies in what (`Trade!Above`) is defined by a
  recursive function. `UpsExist` shows that there is one, `ChainRepeats`, by the pigeonhole principle,
  that a chain of containers longer than the number of things repeats itself, and `AboveCloses`
  that `Above` is therefore the least closed set. The rest argues about that set: things that move
  without touching an offer change neither what is around it nor what is in it, because
  what is around a thing lies in a line (`AboveLine`).
* `ClientsWaitOnce` (`WaitInv`): `WaitIInv` says that a client is once at most in a list and in one of
  them only, and that who plays, who may always come, or anybody on a server without limit is in none;
  the count of places (`OnePlaceEach`) follows. Cleaning up goes over a list by a
  recursive function; the lemmas on it say that each entry that stays comes from a place of its own.
* `KillsArePaidOnce` (`KillsInv`): `KillsIInv` adds that a row of the map of damage that is somebody's is
  not empty, so that a victim that has received nothing pays nobody. The sums over the rows are
  dealt with one member at a time (`OneByOne`); `SharesOf` says that the rounded shares of all rows are
  worth no more than the victim, `SumOfParts` that paying row by row and paying each hitter for his rows
  is the same.
* `BodyAgrees` (`ConditionsInv`): `CondIInv` is `ConditionsInv` with types. It is argued about the set of
  the conditions, of which no two have one key (`ListWith`, `ListWithout`, `ListSwapped`: what
  the list is after one more, one less, one for another), and about three changes of the body that go with
  it (`GainedFine`, `LostFine`, `TradedFine`). The loops over a list (`Conditions!ForEach`) are a function
  that the prover has to be given (`LoopExists`); what every turn keeps the loop keeps (`LoopFit`).

`TileProofs` and `CharacterProofs` are about `MCCharacter`; the first holds the parts about
the things on a tile and about items.

* `SkullsAgree` (`SkullsInv`), for every set of players and all times that satisfy `SkullsAssumption`:
  the invariant is inductive, and the case that needs care is a death, which forgets, ends a fight
  and counts a murder in one step.
* `ClientsSeeWhatIsThere` (`ClientsAgree`), from one inductive invariant per part. `TileIInv`: the client's
  list is the beginning of the server's, and nothing is in it twice, so that a position in the
  message means the same thing on both sides. `KnownIInv`: an id the client knows is one the server
  believes it knows. `WindowsIInv`: what is open lies near its player, and the loops that close
  the windows of all players go over one player at a time. `SpecIInv`: each leaf is reached from its
  neighbours by the links (`Walk`), so that the walk of `getSpectators` visits every leaf
  in range, and a cache names who the walk would find.
* `LevelsFollow` (`LevelsInv`). `LevelsIInv` adds that who has a vocation chose it at level 8 or later
  (`Chose`), that he is at level 6 or higher unless a script took experience (`Risen`), and what a
  rookie's mana is. The loops that raise and lower a level end because something shrinks (`LoopEnds`); sums of gains
  are unfolded one level at a time (`SumTake`, `SumUpTo`). `SmallMana` is the case that needs an
  argument: below level 8 the loss of a level may want more mana than there is, and
  what could not be taken then is what makes good the gain of the level that follows.
  A death (`DeathIs`) leaves him poorer or makes him a rookie again.
* `ThingsAddUp` (`ItemsInv`). `ItemsIInv` says of the world that it is `Sound`: what exists lies in the
  list of the place it names, once, where there is room, and no bag is in itself. Moving, adding and
  paying are followed through the worlds they make, in which at most one thing is in the hand
  and lies nowhere (`Sound(w, hand)`). What there is of money (`Rich`) is a sum over the stacks, of which
  each step changes one addend or two. What a bag remembers is the sum of what its things
  tell it, modulo `Wrap` (`Weighed`); a bag of reduced weight tells more than it weighs. Each bag therefore
  gets an offset between what it tells and what it remembers, which no change outside of it touches:
  `Weighed` is kept for every such offset (`Follows`), and for those that tell the true weights (`Own`)
  it is `WeightKnown`. A change of the weight goes outward through all bags around (`Outward`,
  `WeighFine`); as no bag is in itself, each of them has one child that changed (`OneChild`).

The proofs assume only the `ASSUME`s of the modules, which TLC evaluates in the runs. (A module
that a sum instantiates has its assumption as a definition, and the sum assumes it:
`ServicesAssumption`, `WorldAssumption`, `PlayersAssumption`, `CharacterAssumption`.) `LevelsAssumption`
says of the tables that they end within the bounds, of the gains how those of
`data/XML/vocations.xml` relate to a rookie's, and that a death at level 6 or below makes a rookie
(`rookingLevel` in `config.lua`). `ItemsAssumption` says that the names of places and things differ,
that there are finitely many of them, and that the bound `MaxWorth` of the money is below
`Full * (Full + 1)`, so that what is added at once makes no more than one stack of platinum.

Only model-checked, and not proved:

* All liveness properties: the prover has no rules for fairness and `ENABLED`.

## 6. Disagreements found

* **`WorkerEnds`** (`database_tasks_end`). `DatabaseTasks::shutdown` sets the state and notifies
  once, without the lock that the worker holds between its test of the state and its wait. A
  worker in between sleeps for ever, and `main` hangs in `join`.
* **`NoReleasedClient`** (`game_session_released`). The comment at `protocolgame.cpp:290` says that
  the test prevents a leak of the player to a released session. It tests for an expired
  connection only; a closed connection that still has an operation pending is not expired, the
  released session gets the player, and nothing takes him from it again.
* **`SuccessIsStored`** (`player_save_lost`). `executeQuery` repeats a statement until the server
  answers. The client library refuses to reconnect within a transaction, but only once; the
  repeated statement runs on a new session without a transaction. The rest of the save is stored
  statement by statement, what came before the loss is gone, and `commit` returns true.
  `StoredWhole` says that this is the only way in which the tables can become a mixture.
* **`PaidIsPaid`** (`house_rent`). `payHouses` takes the rent from a copy of the owner that it
  loads and saves. When the owner is online, his own next save writes the old balance back.
  `Accounts`, a part of `HouseInv`, says that this is the only way in which money can come back.

Seen while reading, not part of a run. Most of these are states that the models reach, and an
invariant names them as its exception:

* Network: `Connection::close` does nothing the second time, so a peer
  that stops reading keeps a closed connection's socket for ever, in spite of the comment at `connection.cpp:70`.
  Two chains of `sendAll` can run side by side (`outputmessage.cpp:51`), and a lone message of 24575
  bytes gets no padding. The reads of a proxy's identification are not inside a `try` (`connection.cpp:151`), unlike
  those around them. A connect that fails leaves `isConnecting` set and keeps its reference (`protocolgame.cpp:282`).
* Start and end: the loader notifies `main` without lock or predicate (`otserv.cpp:64`); a shutdown before
  `ServiceManager::run` makes `stop` return early (`server.cpp:48`), and the services then run for ever; the loop at `game.cpp:172` never ends
  with a player of the kind of `player.cpp:2282`, whom no kick removes.
* Waiting list: the comment at `protocolgame.cpp:126` means to let a client wait longer, but what is
  overwritten is its number in place of its time, so it loses its place; `findClient` counts the place from
  the end of the list; the first in the list needs two free places.
* Saves: `DBTransaction::begin` lets its destructor unlock a mutex that is not locked when `BEGIN` fails;
  the data file of a player is outside of the transaction; `onlinetime` grows by the whole session
  at every save of an online player (`iologindata.cpp:913`).
* Trade and houses: a player who accepts before the partner answers stays in the accepting state
  (`game.cpp:2884`); `executeTransfer` does not look at the owner again (`house.cpp:434`); a transfer keeps
  `paidUntil` and the warnings of the former owner; a change of a guild rank throws nobody out.
  A kick whose teleport fails leaves the player inside (`house.cpp:221`); `BedItem::canUse` asks for no invitation,
  and sleeping moves the player onto the bed (`bed.cpp:94`), so that only the walls keep outsiders from it.
* Chat: a party's pointer is cleared before the clients are told to close its window (`party.cpp:47`, `60`, `113`),
  so these messages do not find the channel; who may no longer join a channel cannot be taken from it by
  closing its window.
* Creatures: the clock stepping back strands a creature (`creature.cpp:1449`); nobody is told of a player who becomes a
  ghost or of a monster that changes sides (`luascript.cpp:10112`, `creature.cpp:831`), so lists of targets keep or
  miss them. A player killed in a PvP zone keeps his damage map. A script error in
  `onHealthChange` turns a hit into healing (`creatureevent.cpp:511`).
* Npcs: the pause of four seconds binds a plain pointer to a player who may log out (`npcbehavior.cpp:1464`).
* Skulls: `onlyOneFragPerKill` is not honoured when the last hit was a summon's (`creature.cpp:340`); the branch for
  yellow skulls at `player.cpp:3803` cannot be reached. A player of a group with access never is in a fight
  (`player.cpp:2252`), but may get a white skull without one.
* Raids: `hasExecuted` is never reset, so that a raid with an interval happens once per load (a raid of no events
  started by a script blocks all others). A task of a raid that a reload has deleted may still be on its way.
* Spawns: a script that removes a monster in `onAppear`, or vetoes its removal, leaves the count too high for
  good; the delay of a respawn is applied twice; the comment at `spawn.cpp:52` speaks of 40 s where the code has 20.
* Decay: an item can be in two buckets (`item.cpp:236`, `game.cpp:4666`), and then decays early; `game.cpp:1620` removes an item from
  the first bucket only.
* Items: a bag of reduced weight inside another makes the outer one's cached weight drift (`container.cpp:132`); change
  that finds no room is lost (`game.cpp:1902`).
* Levels: a mage's gain of mana at a level is not what the same level takes back (`player.cpp:1755`, `1835`, `2122`).
* Client: after a rename the variable `removedKnown` is sent without having been assigned (`protocolgame.cpp:1945`).

## 7. What is not modelled

* Bytes: parsing, encryption, checksums, SQL text, the map format, XML, and logging. A packet is
  the handler it leads to.
* Formulas of combat, skills and experience: floating point and random numbers. Areas, spells,
  weapons.
* Lua: scripts are the calls of handlers that they may make. The party events are disabled in
  `data/events/events.xml` and never veto.
* In `Party`, levels, distances and times decide whether experience may be shared: left open
  (`CanShare` is what is necessary). In `Trade`, capacity, distance and free slots are left open.
  In `Spawns`, `Targets` and `Houses`, the map is left open but for what the properties tell apart.
* In `PlayerSave`, the tables `player_murders` and, without the data files, the item tables behave
  like the ones modelled; `BEGIN` failing with an error that is not a lost connection leads to
  undefined behaviour and is left out.
* In `GameSession`, the other players, the waiting list and the checks before a login (bans, world
  closed): they refuse it, like `Refuse`.
* In `Skulls`, players of a group with access. In `Houses`, a kick finds the entry tile free, and who is not invited
  does not come to a bed. In `PlayerSave`, characters whose column `save` is 0: nothing of them is stored.
* In `Levels`, the tests for a greatest level, which the program's table does not have.
* Guild channels and the reload of the chat channels; guild wars but for their effect on skulls; VIP
  lists, outfits, storage values, the battle pass.
* Most of `luascript.cpp` (18041 lines) are bindings that read arguments and call a method; those that
  change what a model has are mapped, the others are data.
* The other rows of the table in [1](#1-components).

## 8. Plan

Done: the runtime (`Dispatcher`, `DatabaseTasks`, `Scheduler`, `ServerLife`), network and
persistence (`Connection`, `OutputPool`, `WaitList`, `GameSession`, `PlayerSave`), clients
(`KnownCreatures`, `TileStack`, `Windows`, `Spectators`), creatures (`ToDo`, `Lives`, `Targets`, `NpcFocus`,
`Kills`, `Conditions`, `Skulls`, `Levels`), things (`Items`, `Decay`, `Houses`, `Spawns`, `Raids`)
and company (`Party`, `Trade`, `Chat`). Next:

1. `LoginGate`: the attempts per address. `GlobalEvents`: timers and the record.
2. Spells and weapons: cooldowns, charges and costs. Combat: who may harm whom, against a
   reference definition.
3. Path finding and lines of sight against reference definitions.
4. House items on disk and the order of the saves: what a crash between them may double or lose.
