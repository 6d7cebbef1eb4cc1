----------------------------- MODULE PlayerSave -----------------------------
(***************************************************************************)
(* IOLoginData::savePlayer over the Database singleton: one MySQL session,  *)
(* one recursive lock, and a transaction that the dispatcher begins before  *)
(* it takes the lock, while the network threads run queries on the same     *)
(* session.  A query whose connection is lost is tried again until the      *)
(* server answers; the inventory goes to a file, outside the transaction    *)
(* (ENABLE_PLAYER_DATA_FILES, the default).  A character is its version:    *)
(* what a table or the file holds of him is the number of the save that     *)
(* wrote it.                                                                *)
(***************************************************************************)
EXTENDS Naturals, Sequences, FiniteSets

CONSTANTS
  Clients,   \* logins on the network threads, each with one query
  Game,      \* the dispatcher thread
  MaxSaves,  \* bound: versions of the character that are saved
  MaxLosses, \* bound: how often the connection to the server is lost
  None

SaveAssumption ==
  /\ Game \notin Clients /\ None \notin Clients \cup {Game}
  /\ MaxSaves \in Nat /\ MaxLosses \in Nat

VARIABLES
  databaseLock, \* the recursive_mutex: owner and how often it is locked
  step,         \* of savePlayer: 0 when there is none, else the index in Script
  tries,        \* how often it may still be called for this version
  version,      \* of the character in memory
  success,      \* the last version whose save returned true
  query,        \* per client: "none", "locking", "running", "done"
  up,           \* is the session established?
  open,         \* has it an open transaction?
  inTrans,      \* what the client library believes of that, from the last answer
  work,         \* what the tables hold as the session sees them
  stored,       \* what they hold for everybody else, and after a restart
  file,         \* the version in the character's .tvpi file
  losses,
  outside       \* history: a statement of a save ran outside its transaction

game == <<step, tries, version, success>>
vars == <<databaseLock, game, query, up, open, inTrans, work, stored, file, losses, outside>>

Tables == {"players", "player_spells", "player_storage"}
Gone == 0  \* no rows, between a DELETE and the INSERT that follows

\* The calls of savePlayer, in their order.  player_murders is like player_spells,
\* and, without the data files, the item tables are like player_storage.
Script == <<
  <<"select">>, <<"begin">>, <<"lock">>,
  <<"write", "players">>,
  <<"delete", "player_spells">>, <<"write", "player_spells">>,
  <<"truncate">>, <<"file">>,
  <<"delete", "player_storage">>, <<"write", "player_storage">>,
  <<"commit">> >>

Call(what) == step > 0 /\ Script[step] = what
Free == [owner |-> None, count |-> 0]

-----------------------------------------------------------------------------
(* The lock and the session.                                               *)

MayLock(t) == databaseLock.owner \in {t, None}
Lock(t) == MayLock(t) /\ databaseLock' = [owner |-> t, count |-> databaseLock.count + 1]
Unlocked == IF databaseLock.count = 1 THEN Free ELSE [databaseLock EXCEPT !.count = @ - 1]

\* A statement makes new out of what the session sees; outside a transaction that
\* is stored at once.  executeQuery and storeQuery call mysql_real_query again
\* after a loss: the library refuses to connect again within a transaction, but only
\* the first time, and the new session has none.
Execute(new) ==
  /\ up' = TRUE /\ inTrans' = open /\ work' = new
  /\ stored' = IF open THEN stored ELSE new
  /\ UNCHANGED open

\* The server goes away, and rolls back what was open.
Lose ==
  /\ up /\ losses < MaxLosses
  /\ up' = FALSE /\ open' = FALSE /\ work' = stored /\ losses' = losses + 1
  /\ UNCHANGED <<databaseLock, game, query, inTrans, stored, file, outside>>

-----------------------------------------------------------------------------
(* The dispatcher: savePlayer.                                             *)

\* The character has changed; a logout may try three times, a global save once.
Save(n) ==
  /\ step = 0 /\ version <= MaxSaves
  /\ version' = version + 1 /\ tries' = n /\ step' = 1
  /\ UNCHANGED <<databaseLock, success, query, up, open, inTrans, work, stored, file, losses, outside>>

Advance == step' = step + 1 /\ UNCHANGED <<tries, version, success>>

GiveUpNever ==
  /\ step' = 1 /\ UNCHANGED <<tries, version, success>>

\* savePlayer returns false; the caller may call it again.
GiveUp ==
  /\ tries' = tries - 1 /\ step' = IF tries > 1 THEN 1 ELSE 0
  /\ UNCHANGED <<version, success>>

\* Is he to be saved at all?  Those of whom `save` is 0 are left out.
Select ==
  /\ Call(<<"select">>) /\ MayLock(Game) /\ Execute(work) /\ (Advance \/ GiveUp)
  /\ UNCHANGED <<databaseLock, query, file, losses, outside>>

Begin ==
  /\ Call(<<"begin">>) /\ MayLock(Game)
  /\ up' = TRUE /\ open' = TRUE /\ inTrans' = TRUE
  /\ Advance
  /\ UNCHANGED <<databaseLock, query, work, stored, file, losses, outside>>

LockNothing ==
  /\ Call(<<"lock">>) /\ Advance
  /\ UNCHANGED <<databaseLock, query, up, open, inTrans, work, stored, file, losses, outside>>

LockTransaction ==
  /\ Call(<<"lock">>) /\ Lock(Game)
  /\ Advance
  /\ UNCHANGED <<query, up, open, inTrans, work, stored, file, losses, outside>>

\* One of the statements: an UPDATE or the INSERT of all rows writes the version,
\* a DELETE leaves none.
Statement(t) ==
  /\ \/ Call(<<"write", t>>) /\ Execute([work EXCEPT ![t] = version])
     \/ Call(<<"delete", t>>) /\ Execute([work EXCEPT ![t] = Gone])
  /\ MayLock(Game) /\ Advance
  /\ outside' = (outside \/ ~open)
  /\ UNCHANGED <<databaseLock, query, file, losses>>

WriteFile ==
  /\ \/ Call(<<"truncate">>) /\ file' = Gone
     \/ Call(<<"file">>) /\ file' = version
  /\ Advance
  /\ UNCHANGED <<databaseLock, query, up, open, inTrans, work, stored, losses, outside>>

\* An error of a statement, or of opening the file: ~DBTransaction rolls back.
Rollback ==
  /\ step \in 4 .. Len(Script) - 1 /\ ~Call(<<"file">>)
  /\ open' = FALSE /\ inTrans' = FALSE /\ work' = stored
  /\ databaseLock' = Unlocked /\ GiveUp
  /\ UNCHANGED <<query, up, stored, file, losses, outside>>

\* mysql_commit is called once: it fails when the library finds that the session of
\* a transaction is gone, but not when it knows of no transaction.
Commit ==
  /\ Call(<<"commit">>) /\ (up \/ ~inTrans)
  /\ up' = TRUE /\ stored' = work /\ open' = FALSE /\ inTrans' = FALSE
  /\ databaseLock' = Unlocked
  /\ step' = 0 /\ success' = version /\ tries' = 0
  /\ UNCHANGED <<version, query, work, file, losses, outside>>

\* ... also when the server has committed and only its answer is lost.
CommitFails ==
  /\ Call(<<"commit">>)
  /\ \/ ~up /\ inTrans /\ UNCHANGED <<up, open, stored, losses>>
     \/ /\ up /\ losses < MaxLosses /\ losses' = losses + 1
        /\ up' = FALSE /\ stored' = work /\ open' = FALSE
  /\ inTrans' = FALSE /\ databaseLock' = Unlocked /\ GiveUp
  /\ UNCHANGED <<query, work, file, outside>>

-----------------------------------------------------------------------------
(* The network threads: storeQuery of a login.                             *)

others == <<game, open, file, losses, outside>>

Ask(c) ==
  /\ query[c] = "none" /\ query' = [query EXCEPT ![c] = "locking"]
  /\ UNCHANGED <<databaseLock, up, inTrans, work, stored, others>>

LockQuery(c) ==
  /\ query[c] = "locking" /\ Lock(c)
  /\ query' = [query EXCEPT ![c] = "running"]
  /\ UNCHANGED <<up, inTrans, work, stored, others>>

RunForever(c) ==
  /\ query[c] = "running" /\ Execute(work)
  /\ UNCHANGED <<databaseLock, query, game, file, losses, outside>>

RunQuery(c) ==
  /\ query[c] = "running" /\ Execute(work)
  /\ query' = [query EXCEPT ![c] = "done"] /\ databaseLock' = Unlocked
  /\ UNCHANGED <<game, file, losses, outside>>

-----------------------------------------------------------------------------
Init ==
  /\ databaseLock = Free /\ step = 0 /\ tries = 0 /\ version = 1 /\ success = 1
  /\ query = [c \in Clients |-> "none"]
  /\ up = TRUE /\ open = FALSE /\ inTrans = FALSE
  /\ work = [t \in Tables |-> 1] /\ stored = work /\ file = 1
  /\ losses = 0 /\ outside = FALSE

Saving ==
  \/ Select \/ Begin \/ LockTransaction \/ (\E t \in Tables : Statement(t)) \/ WriteFile
  \/ Rollback \/ Commit \/ CommitFails
Asking(c) == LockQuery(c) \/ RunQuery(c)

Next ==
  \/ \E n \in {1, 3} : Save(n)
  \/ Saving \/ (\E c \in Clients : Ask(c) \/ Asking(c)) \/ Lose

\* Both threads run, and the server answers in the end.
Fairness == WF_vars(Saving) /\ \A c \in Clients : WF_vars(Asking(c))

Spec == Init /\ [][Next]_vars /\ Fairness

-----------------------------------------------------------------------------
Versions == 0 .. MaxSaves + 1
TypeOK ==
  /\ databaseLock \in [owner : Clients \cup {Game, None}, count : 0 .. 1]
  /\ step \in 0 .. Len(Script) /\ tries \in 0 .. 3
  /\ version \in Versions /\ success \in Versions /\ file \in Versions
  /\ query \in [Clients -> {"none", "locking", "running", "done"}]
  /\ up \in BOOLEAN /\ open \in BOOLEAN /\ inTrans \in BOOLEAN /\ outside \in BOOLEAN /\ losses \in 0 .. MaxLosses
  /\ work \in [Tables -> Versions] /\ stored \in [Tables -> Versions]

\* Nobody else uses the session once the save has written to it, and what an open
\* transaction has changed is the work of a save.
WritesAlone ==
  /\ step > 3 => databaseLock = [owner |-> Game, count |-> 1]
  /\ work # stored => open /\ \A c \in Clients : query[c] # "running"
  /\ \A c \in Clients : query[c] = "running" => databaseLock.owner = c

\* As long as no statement was executed outside its transaction, what a restart
\* would find in the tables is one save, and no older than the last success.
StoredWhole ==
  ~outside => \E v \in success .. version : \A t \in Tables : stored[t] = v

\* Nobody reads or overwrites half a save, and none is found after a restart.
Inv == TypeOK /\ WritesAlone /\ StoredWhole

\* A save ends, and so does every login that waits for the lock.
SaveEnds == (step > 0) ~> (step = 0)
QueryEnds == \A c \in Clients : (query[c] = "locking") ~> (query[c] = "done")

\* commit returns true on success (database.h:126): what it reported is stored.
SuccessIsStored == [][success' # success => \A t \in Tables : stored'[t] = success']_vars
=============================================================================
