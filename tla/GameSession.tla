----------------------------- MODULE GameSession -----------------------------
(***************************************************************************)
(* The sessions of one character: ProtocolGame's login, connect, logout     *)
(* and release, and the Game's deferred removal of creatures.  The network  *)
(* threads only queue tasks; the dispatcher runs them, and the periodic     *)
(* checkCreatures and processRemovedCreatures, one at a time.  A Player     *)
(* object is deleted when its references are gone, and what the code keeps  *)
(* as raw pointers is kept here as the object itself, so that a use after   *)
(* the deletion can be seen.  Connection.tla has the connection itself.     *)
(***************************************************************************)
EXTENDS Naturals, Sequences, FiniteSets

CONSTANTS
  Sessions,    \* ProtocolGame objects, one per TCP connection
  Objects,     \* the Player objects the heap has room for
  MaxPackets,  \* bound: packets of a session in the dispatcher's queue
  MaxRefs,     \* bound: the references of an object that its deaths and pings may reach
  None

ASSUME SessionAssumption ==
  /\ None \notin Sessions \cup Objects /\ IsFiniteSet(Sessions)
  /\ MaxPackets \in Nat /\ MaxRefs \in Nat

VARIABLES
  conn,              \* of the connection: "none", "open", "closed" or (expired) "gone"
  player,            \* ProtocolGame::player, a raw pointer
  eventConnect,      \* whom the scheduled connect is for
  acceptPackets,
  bufferedProtocols, \* OutputMessagePool: the sessions flushed every 10 ms
  object,            \* the Player objects
  removedCreatures, killedCreatures,
  queue,             \* the dispatcher's tasks, <<what, session>>
  released           \* history: the sessions whose release has run

session == <<conn, player, eventConnect, acceptPackets, bufferedProtocols>>
vars == <<session, object, removedCreatures, killedCreatures, queue, released>>

\* status: "loading" until it is placed; client: Player::client; check: is it in
\* a checkCreatures list, and with creatureCheck; toRelease: how often it is in
\* ToReleaseCreatures.
Free == [status |-> "free", client |-> None, refs |-> 0, check |-> "none", toRelease |-> 0,
         isLoggingOut |-> FALSE, isConnecting |-> FALSE]

\* getPlayerByName and getPlayerByID know the players between addList and removeList.
InGame(o) == object[o].status = "inGame"

\* The lists, events and sessions that point to a player.
Holders(o) ==
  LET One(b) == IF b THEN 1 ELSE 0 IN
  Cardinality({s \in Sessions : player[s] = o}) + Cardinality({s \in Sessions : eventConnect[s] = o})
  + One(o \in removedCreatures) + One(o \in killedCreatures)
  + One(InGame(o)) + One(object[o].check # "none") + object[o].toRelease

-----------------------------------------------------------------------------
(* What the handlers do to a Player object.                                *)

\* incrementReferenceCounter, decrementReferenceCounter
Held(r) == [r EXCEPT !.refs = @ + 1]
Dropped(r, n) == IF r.refs = n THEN Free ELSE [r EXCEPT !.refs = @ - n]

\* placeCreature: addList and addCreatureCheck
Placed(r) == [r EXCEPT !.status = "inGame", !.refs = @ + 2, !.check = "listed"]

\* removeCreature: removeList, ReleaseCreature and removeCreatureCheck
Removed(r) == [r EXCEPT !.status = "removed", !.toRelease = @ + 1,
                        !.check = IF @ = "listed" THEN "unlisted" ELSE @]

\* isLoggingOut and executeRemoveCreature
Leaving(r) == [Held(r) EXCEPT !.isLoggingOut = TRUE]

Taken(r, s) == [r EXCEPT !.client = s, !.isConnecting = FALSE]

\* cleanup
Cleaned(r) == IF r.toRelease = 0 THEN r ELSE Dropped([r EXCEPT !.toRelease = 0], r.toRelease)

\* checkCreatures' loop: one whose creatureCheck is off leaves the list
Swept(r) == IF r.check = "unlisted"
              THEN [r EXCEPT !.check = "none", !.toRelease = @ + 1] ELSE r

-----------------------------------------------------------------------------
(* The network threads.                                                    *)

CloseOnly(s, tasks) ==
  /\ queue' = tasks
  /\ conn' = IF s # None /\ conn[s] = "open" THEN [conn EXCEPT ![s] = "closed"] ELSE conn

\* Connection::close of an open connection queues the release of its protocol.
Close(s, tasks) ==
  IF s # None /\ conn[s] = "open"
    THEN /\ conn' = [conn EXCEPT ![s] = "closed"]
         /\ queue' = Append(tasks, <<"release", s>>)
    ELSE queue' = tasks /\ UNCHANGED conn

rest == <<player, eventConnect, acceptPackets, bufferedProtocols, object,
          removedCreatures, killedCreatures, released>>

\* onRecvFirstMessage: the authentication refuses the client or a login is queued.
FirstMessage(s) ==
  /\ conn[s] = "none"
  /\ \/ conn' = [conn EXCEPT ![s] = "open"] /\ queue' = Append(queue, <<"login", s>>)
     \/ conn' = [conn EXCEPT ![s] = "closed"] /\ queue' = Append(queue, <<"release", s>>)
  /\ UNCHANGED rest

\* parsePacket binds the session as a raw pointer.
ParsePacket(s) ==
  /\ conn[s] = "open"
  /\ Cardinality({i \in 1 .. Len(queue) : queue[i] = <<"packet", s>>}) < MaxPackets
  /\ queue' = Append(queue, <<"packet", s>>)
  /\ UNCHANGED <<conn, rest>>

\* The peer hangs up, or a read fails or takes too long.
HangUp(s) == conn[s] = "open" /\ Close(s, queue) /\ UNCHANGED rest

\* The last handler that refers to the closed connection returns.
Expire(s) ==
  /\ conn[s] = "closed" /\ conn' = [conn EXCEPT ![s] = "gone"]
  /\ UNCHANGED <<queue, rest>>

\* The scheduler hands the connect over after its second.
Timer(s) ==
  /\ eventConnect[s] # None /\ <<"connect", s>> \notin {queue[i] : i \in 1 .. Len(queue)}
  /\ queue' = Append(queue, <<"connect", s>>)
  /\ UNCHANGED <<conn, rest>>

-----------------------------------------------------------------------------
(* The dispatcher's tasks.                                                 *)

Runs(what, s) == queue # <<>> /\ Head(queue) = <<what, s>>
games == <<removedCreatures, killedCreatures>>

\* A new Player for a character nobody plays, up to the checks that may refuse it.
Refuse(s, o) ==
  /\ object' = [object EXCEPT ![o] = [Free EXCEPT !.status = "loading", !.client = s, !.refs = 1]]
  /\ player' = [player EXCEPT ![s] = o]
  /\ Close(s, Tail(queue))
  /\ UNCHANGED <<eventConnect, acceptPackets, bufferedProtocols>>

\* ... and when they do not; the script of onLogin may kick it at once.
Enter(s, o) ==
  LET new == Placed([Free EXCEPT !.client = s, !.refs = 1]) IN
  /\ player' = [player EXCEPT ![s] = o]
  /\ acceptPackets' = [acceptPackets EXCEPT ![s] = TRUE]
  /\ bufferedProtocols' = bufferedProtocols \cup {s}
  /\ UNCHANGED eventConnect
  /\ \/ object' = [object EXCEPT ![o] = new] /\ queue' = Tail(queue) /\ UNCHANGED conn
     \/ object' = [object EXCEPT ![o] = Removed(new)] /\ Close(s, Tail(queue))

AlreadyKeepsOpen(s, o) ==
  /\ queue' = Tail(queue)
  /\ UNCHANGED <<conn, player, eventConnect, acceptPackets, bufferedProtocols, object>>

\* REPLACE_KICK_ON_LOGIN is off, or the player is about to leave.
AlreadyLoggedIn(s, o) ==
  /\ Close(s, Tail(queue))
  /\ UNCHANGED <<player, eventConnect, acceptPackets, bufferedProtocols, object>>

\* The session that plays it is disconnected; one second later this one connects.
Replace(s, o) ==
  /\ object[o].client # None
  /\ object' = [object EXCEPT ![o] = [Held(@) EXCEPT !.isConnecting = TRUE]]
  /\ eventConnect' = [eventConnect EXCEPT ![s] = o]
  /\ bufferedProtocols' = bufferedProtocols \cup {s}
  /\ Close(object[o].client, Tail(queue))
  /\ UNCHANGED <<player, acceptPackets>>

\* connect, once the player has been found free: the reference that login took
\* is given back, and a session whose connection has expired gets no player.
Attach(s, o) ==
  IF conn[s] = "gone"
    THEN /\ object' = [object EXCEPT ![o] = Dropped(@, 1)]
         /\ UNCHANGED <<player, acceptPackets>>
    ELSE /\ object' = [object EXCEPT ![o] = Taken(@, s)]
         /\ player' = [player EXCEPT ![s] = o]
         /\ acceptPackets' = [acceptPackets EXCEPT ![s] = TRUE]

\* Nobody plays it: connect follows at once.
Reconnect(s, o) ==
  /\ object[o].client = None
  /\ LET held == [object EXCEPT ![o] = Held(@)] IN
     IF conn[s] = "gone"
       THEN UNCHANGED <<object, player, acceptPackets>>
       ELSE /\ object' = [held EXCEPT ![o] = Taken(@, s)]
            /\ player' = [player EXCEPT ![s] = o]
            /\ acceptPackets' = [acceptPackets EXCEPT ![s] = TRUE]
  /\ bufferedProtocols' = bufferedProtocols \cup {s}
  /\ queue' = Tail(queue) /\ UNCHANGED <<conn, eventConnect>>

MayReplace(s, o) == eventConnect[s] = None /\ ~object[o].isLoggingOut

Login(s) ==
  /\ Runs("login", s)
  /\ \/ /\ \A o \in Objects : ~InGame(o)
        /\ \E o \in Objects : object[o] = Free /\ (Refuse(s, o) \/ Enter(s, o))
     \/ \E o \in Objects :
          /\ InGame(o)
          /\ \/ AlreadyLoggedIn(s, o)
             \/ MayReplace(s, o) /\ (Replace(s, o) \/ Reconnect(s, o))
  /\ UNCHANGED <<games, released>>

MayConnectAnyway(o) == InGame(o) /\ ~object[o].isLoggingOut

\* getPlayerByID finds it, no other session has it, and it is not leaving.
MayConnect(o) == InGame(o) /\ object[o].client = None /\ ~object[o].isLoggingOut

Connect(s) ==
  LET o == eventConnect[s] IN
  /\ Runs("connect", s)
  /\ eventConnect' = [eventConnect EXCEPT ![s] = None]
  /\ IF MayConnect(o)
       THEN Attach(s, o) /\ queue' = Tail(queue) /\ UNCHANGED conn
       ELSE Close(s, Tail(queue)) /\ UNCHANGED <<object, player, acceptPackets>>
  /\ UNCHANGED <<bufferedProtocols, games, released>>

LogoutMarksFirst(s, o) ==
  /\ queue' = Tail(queue) /\ UNCHANGED <<conn, removedCreatures>>
  /\ object' = [object EXCEPT ![o].isLoggingOut = TRUE]

\* logout of a player who is not leaving yet: refused by the place, a fight or a
\* script, deferred, or a removed one's connection is closed.
Logout(s, o) ==
  IF object[o].status = "removed"
    THEN Close(s, Tail(queue)) /\ UNCHANGED <<object, removedCreatures>>
    ELSE /\ queue' = Tail(queue) /\ UNCHANGED conn
         /\ \/ UNCHANGED <<object, removedCreatures>>
            \/ /\ object[o].refs < MaxRefs
               /\ object' = [object EXCEPT ![o] = Leaving(@)]
               /\ removedCreatures' = removedCreatures \cup {o}

\* parsePacketOnDispatcher; the other packets do not concern the session.
Packet(s) ==
  LET o == player[s]
      Ignore == queue' = Tail(queue) /\ UNCHANGED <<conn, object, removedCreatures>> IN
  /\ Runs("packet", s)
  /\ \/ Ignore
     \/ /\ acceptPackets[s] /\ o # None /\ ~object[o].isLoggingOut
        /\ Logout(s, o)
     \/ /\ acceptPackets[s]   \* 0x0F
        /\ o = None \/ object[o].status = "removed" \/ o \in killedCreatures
        /\ Close(s, Tail(queue)) /\ UNCHANGED <<object, removedCreatures>>
  /\ UNCHANGED <<player, eventConnect, acceptPackets, bufferedProtocols, killedCreatures, released>>

\* release: the player is let go if it is still this session's.
LetsGo(s) == player[s] # None /\ object[player[s]].client = s

Release(s) ==
  /\ Runs("release", s)
  /\ IF LetsGo(s)
       THEN /\ object' = [object EXCEPT ![player[s]] = Dropped([@ EXCEPT !.client = None], 1)]
            /\ player' = [player EXCEPT ![s] = None]
       ELSE UNCHANGED <<object, player>>
  /\ bufferedProtocols' = bufferedProtocols \ {s}
  /\ released' = released \cup {s} /\ queue' = Tail(queue)
  /\ UNCHANGED <<conn, eventConnect, acceptPackets, games>>

-----------------------------------------------------------------------------
(* The game's own steps, on the dispatcher thread too.                     *)

others == <<player, eventConnect, acceptPackets, bufferedProtocols, released>>

\* changeHealth to zero: executeDeath, as often as it is hit
Die(o) ==
  /\ InGame(o) /\ object[o].refs < MaxRefs
  /\ object' = [object EXCEPT ![o] = Held(@)]
  /\ killedCreatures' = killedCreatures \cup {o}
  /\ UNCHANGED <<conn, queue, removedCreatures, others>>

KickLetsGo(o) ==
  /\ InGame(o)
  /\ LET c == object[o].client IN
     /\ object' = [object EXCEPT ![o] = Removed([@ EXCEPT !.client = None])]
     /\ player' = [s \in Sessions |-> IF s = c THEN None ELSE player[s]]
     /\ Close(c, queue)
  /\ UNCHANGED <<eventConnect, acceptPackets, bufferedProtocols, released, games>>

\* kickPlayer by a script, a gamemaster or a house owner
Kick(o) ==
  /\ InGame(o)
  /\ object' = [object EXCEPT ![o] = Removed(@)]
  /\ Close(object[o].client, queue)
  /\ UNCHANGED <<games, others>>

\* onThink of a living player in the list: sendPing logs him out when his client
\* does not answer, unless a session is connecting to him; checkIdleTime kicks him.
Thinks(o) == object[o].check = "listed" /\ InGame(o) /\ o \notin killedCreatures
PingTimesOut(o) == Thinks(o) /\ ~object[o].isConnecting /\ object[o].refs < MaxRefs

CheckCreatures(list) ==
  \E out, idle \in SUBSET list :
    LET after(o) == IF o \in idle THEN Removed(object[o])
                    ELSE IF o \in out THEN Leaving(object[o])
                    ELSE IF o \in list THEN Swept(object[o]) ELSE object[o] IN
    /\ out \cap idle = {} /\ Cardinality(idle) <= 1
    /\ \A o \in out : PingTimesOut(o)
    /\ \A o \in idle : Thinks(o)
    /\ object' = [o \in Objects |-> Cleaned(after(o))]
    /\ object' # object
    /\ removedCreatures' = removedCreatures \cup out
    /\ Close(IF idle = {} THEN None ELSE object[CHOOSE o \in idle : TRUE].client, queue)
    /\ UNCHANGED <<killedCreatures, others>>

\* processRemovedCreatures: the dead first; who was removed meanwhile is skipped,
\* and keeps the reference that was taken for him.
ProcessRemovedCreatures ==
  LET gone == {o \in removedCreatures \cup killedCreatures : InGame(o)}
      logsOut == gone \ killedCreatures IN
  /\ removedCreatures \cup killedCreatures # {}
  /\ object' = [o \in Objects |-> IF o \in gone THEN Dropped(Removed(object[o]), 1) ELSE object[o]]
  /\ Close(IF logsOut = {} THEN None ELSE object[CHOOSE o \in logsOut : TRUE].client, queue)
  /\ removedCreatures' = {} /\ killedCreatures' = {}
  /\ UNCHANGED others

-----------------------------------------------------------------------------
Init ==
  /\ conn = [s \in Sessions |-> "none"] /\ player = [s \in Sessions |-> None]
  /\ eventConnect = [s \in Sessions |-> None]
  /\ acceptPackets = [s \in Sessions |-> FALSE] /\ bufferedProtocols = {}
  /\ object = [o \in Objects |-> Free]
  /\ removedCreatures = {} /\ killedCreatures = {} /\ queue = <<>> /\ released = {}

Task(s) == Login(s) \/ Connect(s) \/ Packet(s) \/ Release(s)
Network(s) == FirstMessage(s) \/ ParsePacket(s) \/ HangUp(s) \/ Expire(s)

Next ==
  \/ \E s \in Sessions : Task(s) \/ Network(s) \/ Timer(s)
  \/ \E o \in Objects : Die(o) \/ Kick(o)
  \/ \E list \in SUBSET Objects : CheckCreatures(list)
  \/ ProcessRemovedCreatures

\* The dispatcher thread runs what is queued, the scheduler's timers expire; the
\* peers and the world are under no obligation.
Fairness ==
  /\ \A s \in Sessions : WF_vars(Task(s)) /\ WF_vars(Timer(s))
  /\ WF_vars(ProcessRemovedCreatures)

Spec == Init /\ [][Next]_vars /\ Fairness

-----------------------------------------------------------------------------
TypeOK ==
  /\ conn \in [Sessions -> {"none", "open", "closed", "gone"}]
  /\ player \in [Sessions -> Objects \cup {None}]
  /\ eventConnect \in [Sessions -> Objects \cup {None}]
  /\ acceptPackets \in [Sessions -> BOOLEAN] /\ bufferedProtocols \subseteq Sessions
  /\ object \in [Objects -> [status : {"free", "loading", "inGame", "removed"},
                             client : Sessions \cup {None}, refs : Nat,
                             check : {"none", "listed", "unlisted"}, toRelease : Nat,
                             isLoggingOut : BOOLEAN, isConnecting : BOOLEAN]]
  /\ removedCreatures \subseteq Objects /\ killedCreatures \subseteq Objects
  /\ queue \in Seq({"login", "connect", "packet", "release"} \X Sessions)
  /\ released \subseteq Sessions

\* A session and its player always point to each other: nobody is played from
\* two clients, and no session keeps a pointer to a player it has lost.
PointersAgree ==
  \A s \in Sessions, o \in Objects : player[s] = o <=> object[o].client = s

\* The character is in the game once, whatever becomes of its earlier objects.
OnceInGame == \A o, p \in Objects : InGame(o) /\ InGame(p) => o = p

\* Every pointer to a player is counted: no object is deleted under one of them.
HeldWhileUsed ==
  \A o \in Objects : Holders(o) <= object[o].refs /\ (object[o].refs = 0 => object[o] = Free)

\* No pointer outlives what it points to, and the two sides agree.
Inv == TypeOK /\ PointersAgree /\ OnceInGame /\ HeldWhileUsed

\* Who shares the ProtocolGame object; parsePacket's tasks do not.
Alive(s) ==
  \/ conn[s] \in {"open", "closed"} \/ s \in bufferedProtocols \/ eventConnect[s] # None
  \/ \E o \in Objects : object[o].client = s
  \/ \E i \in 1 .. Len(queue) : queue[i][2] = s /\ queue[i][1] # "packet"
\* Somebody holds the session while its packets, bound as raw pointers, wait.
PacketsFindSession == \A i \in 1 .. Len(queue) : Alive(queue[i][2])

\* A session loses its player by its own release and in no other way: a newer
\* one waits for that.
NoTakeover ==
  [][\A s \in Sessions :
       player[s] # None /\ player'[s] # player[s] =>
         /\ player'[s] = None
         /\ queue # <<>> /\ Head(queue) = <<"release", s>>]_vars

\* Every login is answered: the client plays, or its connection is closed.
LoginAnswered ==
  \A s \in Sessions :
    (conn[s] = "open" /\ <<"login", s>> \in {queue[i] : i \in 1 .. Len(queue)})
      ~> (acceptPackets[s] \/ conn[s] # "open")

\* Who is logging out leaves the game, and his client is disconnected.
LogoutCompletes ==
  \A o \in Objects :
    (object[o].isLoggingOut /\ InGame(o)) ~> ~InGame(o)

\* connect does not leak the player to a session whose release has been called
\* (protocolgame.cpp:290).
NoReleasedClient == \A s \in released : player[s] = None
=============================================================================
