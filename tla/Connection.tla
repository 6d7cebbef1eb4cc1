----------------------------- MODULE Connection -----------------------------
(***************************************************************************)
(* One TCP connection (connection.h, connection.cpp): what the network     *)
(* thread does when a read, a write or a timer completes, and what other   *)
(* threads do to it, send and close.  Every one of these holds             *)
(* connectionLock from start to end, so each is one step.                  *)
(*                                                                         *)
(* conn is the Connection object.  Its operators return the object that a  *)
(* method leaves, or the set of those it may leave: a system_error thrown  *)
(* while an operation is set up closes the connection.                     *)
(*                                                                         *)
(* Reads and writes hold a reference to the object, and so does the        *)
(* ConnectionManager; the timers hold a weak one.  Handlers that are ready *)
(* may run in any order.                                                   *)
(***************************************************************************)
EXTENDS Naturals, Sequences

CONSTANTS
  MaxMessages,  \* bound: messages accepted by send
  SetUpFails    \* asio may throw when a timer or an operation is set up

\* What the constants may be; modules that take this one assume it.
ConnectionAssumption == MaxMessages \in Nat

VARIABLES
  conn,
  alive,        \* the object has not been destroyed
  accepted,     \* messages send has queued so far, numbered from 1
  written,      \* the numbers of those written to the socket
  releases,     \* Protocol::release tasks the dispatcher accepted
  dispatching,  \* the dispatcher is RUNNING
  reset         \* the peer reset the TCP connection

vars == <<conn, alive, accepted, written, releases, dispatching, reset>>

\* read: what is being read; rop, wop: the operation is outstanding, or its
\* handler is ready to run with that result; late: a timer expired and its
\* handler is ready to run, it cannot be cancelled any more.
Fresh == [closed |-> FALSE, open |-> TRUE, registered |-> TRUE,
          protocol |-> FALSE, receivedFirst |-> FALSE, receivedFirstHeader |-> FALSE,
          read |-> "none", rop |-> "none", wop |-> "none", queue |-> <<>>,
          readTimer |-> FALSE, writeTimer |-> FALSE, late |-> FALSE]

Init ==
  /\ conn = Fresh /\ alive = TRUE
  /\ accepted = 0 /\ written = {}
  /\ releases = 0 /\ dispatching = TRUE /\ reset = FALSE

-----------------------------------------------------------------------------
(* The methods, as functions of the object.                                *)

\* closeSocket
Shut(c) ==
  IF c.open
    THEN [c EXCEPT !.open = FALSE, !.readTimer = FALSE, !.writeTimer = FALSE]
    ELSE c

Close(c, force) ==
  LET d == [c EXCEPT !.registered = FALSE, !.closed = TRUE] IN
  IF ~c.closed /\ (c.queue = <<>> \/ force) THEN Shut(d) ELSE d

\* close() posts Protocol::release the first time it is called.
ReleasedUnchecked(c, d) == IF ~c.closed /\ d.closed /\ dispatching THEN 1 ELSE 0
Released(c, d) ==
  IF ~c.closed /\ d.closed /\ d.protocol /\ dispatching THEN 1 ELSE 0

\* The catch clause of every set-up.
Thrown(c) == IF SetUpFails THEN {Close(c, TRUE)} ELSE {}

\* The timer is set, then the read is started.
StartReadUntimed(c, what) == {[c EXCEPT !.read = what, !.rop = "pending"]}
Reading(c, what) == [c EXCEPT !.readTimer = TRUE, !.read = what, !.rop = "pending"]
StartRead(c, what) == {Reading(c, what)} \cup Thrown([c EXCEPT !.readTimer = TRUE])

\* internalSend
StartWrite(c) ==
  LET d == [c EXCEPT !.writeTimer = TRUE] IN
  {[d EXCEPT !.wop = "pending"]} \cup Thrown(d)

Send(c, m) ==
  LET d == [c EXCEPT !.queue = Append(@, m)] IN
  IF c.closed THEN {c} ELSE IF c.queue = <<>> THEN StartWrite(d) ELSE {d}

\* The end of onWriteOperation: the next message, or the end of a closing connection.
AfterWriteStops(c) == IF c.closed THEN {Shut(c)} ELSE {c}
AfterWriteLeavesOpen(c) == IF c.queue # <<>> THEN StartWrite(c) ELSE {c}
AfterWrite(c) ==
  IF c.queue # <<>> THEN StartWrite(c) ELSE IF c.closed THEN {Shut(c)} ELSE {c}

\* What a protocol does with a packet, on the network thread: nothing (the
\* packet becomes a task), or disconnect, or disconnectClient.
React(c, m) ==
  {c, Close(c, FALSE)} \cup {Close(d, FALSE) : d \in Send(c, m)}

\* A handler ends with the object d.
Becomes(d) ==
  /\ conn' = d
  /\ releases' = releases + Released(conn, d)
  /\ UNCHANGED <<dispatching, reset>>

-----------------------------------------------------------------------------
(* The network thread.                                                     *)

\* ServicePort::onAccept: too many attempts or no address; a service that
\* speaks second; or one that speaks first, which has its protocol at once.
OnAccept ==
  /\ alive /\ conn = Fresh
  /\ \E d \in {Close(conn, TRUE)} \cup StartRead(conn, "header")
              \cup StartRead([conn EXCEPT !.protocol = TRUE], "header") : Becomes(d)
  /\ UNCHANGED <<alive, accepted, written>>

ReadOver == [conn EXCEPT !.rop = "none", !.readTimer = FALSE]

\* parseHeader: the first header may announce a proxy, or the address is banned;
\* too many packets close the connection, a bad size does too.  The proxy is read outside
\* of the try: a set-up that throws there ends the program.
ParseHeader ==
  /\ conn.read = "header" /\ conn.rop \in {"ok", "err"}
  /\ LET c == ReadOver
         d == [c EXCEPT !.receivedFirstHeader = TRUE] IN
     \E e \in IF conn.rop = "err" THEN {Close(c, TRUE)}
              ELSE IF c.closed THEN {c}
              ELSE {Close(c, FALSE), Close(d, TRUE)} \cup StartRead(d, "body")
                   \cup IF c.receivedFirstHeader THEN {} ELSE {Reading(d, "proxy")} :
        Becomes(e)
  /\ UNCHANGED <<alive, accepted, written>>

\* The address the proxy sends is banned, or accept() is called again.
ParseProxy ==
  /\ conn.read = "proxy" /\ conn.rop \in {"ok", "err"}
  /\ LET c == ReadOver IN
     \E e \in IF conn.rop = "err" THEN {Close(c, TRUE)}
              ELSE {Close(c, TRUE)} \cup StartRead(c, "header") : Becomes(e)
  /\ UNCHANGED <<alive, accepted, written>>

ParsePacket ==
  /\ conn.read = "body" /\ conn.rop \in {"ok", "err"}
  /\ LET c == ReadOver
         d == [c EXCEPT !.receivedFirst = TRUE, !.protocol = TRUE] IN
     \E e \in IF conn.rop = "err" THEN {Close(c, TRUE)}
              ELSE IF c.closed THEN {c}
              ELSE (IF c.protocol THEN {} ELSE {Close([c EXCEPT !.receivedFirst = TRUE], TRUE)})
                   \cup UNION {StartRead(x, "header") : x \in React(d, accepted + 1)} :
        /\ Becomes(e)
        /\ accepted' = accepted + IF Len(e.queue) > Len(conn.queue) THEN 1 ELSE 0
        /\ accepted' <= MaxMessages
  /\ UNCHANGED <<alive, written>>

OnWriteOperation ==
  /\ conn.wop \in {"ok", "err"}
  /\ LET c == [conn EXCEPT !.wop = "none", !.writeTimer = FALSE, !.queue = Tail(@)] IN
     \E e \in IF conn.wop = "err" THEN {Close([c EXCEPT !.queue = <<>>], TRUE)}
              ELSE AfterWrite(c) : Becomes(e)
  /\ written' = IF conn.wop = "ok" THEN written \cup {Head(conn.queue)} ELSE written
  /\ UNCHANGED <<alive, accepted>>

\* handleTimeout of either timer
HandleTimeout ==
  /\ alive /\ conn.late
  /\ Becomes(Close([conn EXCEPT !.late = FALSE], TRUE))
  /\ UNCHANGED <<alive, accepted, written>>

-----------------------------------------------------------------------------
(* The dispatcher thread.                                                  *)

DispatcherSends ==
  /\ alive /\ conn.protocol /\ dispatching /\ accepted < MaxMessages
  /\ \E d \in Send(conn, accepted + 1) :
        /\ Becomes(d)
        /\ accepted' = accepted + IF conn.closed THEN 0 ELSE 1
  /\ UNCHANGED <<alive, written>>

Disconnect ==
  /\ alive /\ conn.protocol /\ dispatching
  /\ Becomes(Close(conn, FALSE))
  /\ UNCHANGED <<alive, accepted, written>>

\* The server stops: ConnectionManager::closeAll closes the registered sockets.
CloseAll ==
  /\ dispatching /\ dispatching' = FALSE
  /\ conn' = IF conn.registered THEN [conn EXCEPT !.registered = FALSE, !.open = FALSE] ELSE conn
  /\ UNCHANGED <<alive, accepted, written, releases, reset>>

Destructor ==
  /\ alive /\ ~conn.registered /\ conn.rop = "none" /\ conn.wop = "none"
  /\ alive' = FALSE
  /\ conn' = Shut(conn)
  /\ UNCHANGED <<accepted, written, releases, dispatching, reset>>

-----------------------------------------------------------------------------
(* The socket, the peer and the clock.                                     *)

\* An operation on a socket that was closed or reset fails, and only there.
Result == IF conn.open /\ ~reset THEN "ok" ELSE "err"

ReadCompletes ==
  /\ conn.rop = "pending"
  /\ conn' = [conn EXCEPT !.rop = Result]
  /\ UNCHANGED <<alive, accepted, written, releases, dispatching, reset>>

WriteCompletes ==
  /\ conn.wop = "pending"
  /\ conn' = [conn EXCEPT !.wop = Result]
  /\ UNCHANGED <<alive, accepted, written, releases, dispatching, reset>>

PeerResets ==
  /\ conn.open /\ ~reset
  /\ reset' = TRUE
  /\ UNCHANGED <<conn, alive, accepted, written, releases, dispatching>>

TimerExpires ==
  /\ alive
  /\ \/ conn.readTimer /\ conn' = [conn EXCEPT !.readTimer = FALSE, !.late = TRUE]
     \/ conn.writeTimer /\ conn' = [conn EXCEPT !.writeTimer = FALSE, !.late = TRUE]
  /\ UNCHANGED <<alive, accepted, written, releases, dispatching, reset>>

-----------------------------------------------------------------------------
NetworkThread ==
  OnAccept \/ ParseHeader \/ ParseProxy \/ ParsePacket \/ OnWriteOperation \/ HandleTimeout

Next ==
  \/ NetworkThread
  \/ DispatcherSends \/ Disconnect \/ CloseAll \/ Destructor
  \/ ReadCompletes \/ WriteCompletes \/ PeerResets \/ TimerExpires

\* Ready handlers run (asio serves them first come, first served), an object nobody refers to is destroyed, timers expire, and
\* an operation on a dead socket fails.  The peer need not send.
Fairness ==
  /\ WF_vars(ParseHeader \/ ParseProxy \/ ParsePacket)
  /\ WF_vars(OnWriteOperation) /\ WF_vars(HandleTimeout)
  /\ WF_vars(Destructor) /\ WF_vars(TimerExpires)
  /\ WF_vars(Result = "err" /\ ReadCompletes) /\ WF_vars(Result = "err" /\ WriteCompletes)

\* A peer that may stop reading for ever while its socket stays open.
Spec == Init /\ [][Next]_vars /\ Fairness

\* A peer that reads what it is sent, or resets the connection.
ReadingPeerSpec == Spec /\ WF_vars(WriteCompletes)

-----------------------------------------------------------------------------
TypeOK ==
  /\ conn \in [closed : BOOLEAN, open : BOOLEAN, registered : BOOLEAN,
               protocol : BOOLEAN, receivedFirst : BOOLEAN, receivedFirstHeader : BOOLEAN,
               read : {"none", "header", "body", "proxy"},
               rop : {"none", "pending", "ok", "err"}, wop : {"none", "pending", "ok", "err"},
               queue : Seq(1 .. MaxMessages),
               readTimer : BOOLEAN, writeTimer : BOOLEAN, late : BOOLEAN]
  /\ alive \in BOOLEAN /\ dispatching \in BOOLEAN /\ reset \in BOOLEAN
  /\ accepted \in 0 .. MaxMessages /\ written \subseteq 1 .. accepted
  /\ releases \in Nat

\* The protocol is released once: when the connection closes, whichever thread
\* or timer closes it first, and as long as the dispatcher takes the task.
ReleasedOnce ==
  /\ ~conn.closed \/ ~conn.protocol => releases = 0
  /\ releases <= 1
  /\ dispatching /\ conn.closed /\ conn.protocol => releases = 1

\* An open socket that closeAll does not know of belongs to a connection that
\* is closing, and somebody still refers to it.
OpenIsKnown ==
  conn.open => alive /\ (conn.registered \/ conn.closed)

\* One write is outstanding as long as there are messages, never two, and
\* never one for an empty queue, whose front onWriteOperation would pop; and
\* the messages go out in the order in which they were sent.
WriterServesQueue ==
  /\ conn.wop # "none" => conn.queue # <<>>
  /\ conn.queue # <<>> /\ ~conn.closed => conn.wop # "none"
  /\ \A i, j \in 1 .. Len(conn.queue) : i < j => conn.queue[i] < conn.queue[j]
  /\ \A m \in written : 1 .. m \subseteq written

\* What every state of a connection obeys, open, closing or closed.
Inv == TypeOK /\ ReleasedOnce /\ OpenIsKnown /\ WriterServesQueue

\* A peer that falls silent is not waited for.
ReadEnds == (conn.rop = "pending" /\ ~conn.closed) ~> (conn.rop # "pending" \/ conn.closed)

\* The write that follows on a closed connection could not be started: the catch
\* clause closes it once more, which does nothing.
WriteFailed == SetUpFails /\ conn.closed /\ conn.queue # <<>> /\ conn.wop = "none"

\* A closed connection gives its socket back.
ClosedIsShut == conn.closed ~> ~conn.open \/ WriteFailed
=============================================================================
