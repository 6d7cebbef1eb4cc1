----------------------------- MODULE OutputPool -----------------------------
(***************************************************************************)
(* Messages to the clients (outputmessage.cpp, Protocol::getOutputBuffer). *)
(* What the game writes is collected in a buffer per protocol; an event of *)
(* the scheduler, sendAll, hands all buffers to their connections and sets *)
(* up its successor, as long as there is a protocol to serve.  A buffer    *)
(* that would get too long is handed over at once.                         *)
(*                                                                         *)
(* All of it runs on the dispatcher.  A message is its number and length;  *)
(* the lengths are the code's.                                             *)
(***************************************************************************)
EXTENDS Integers, Sequences, FiniteSets

CONSTANTS
  Protocols,    \* ProtocolGame objects
  Sizes,        \* lengths of messages
  MaxMessages   \* bound: messages written per protocol

BufferSize == 24590                             \* NETWORKMESSAGE_MAXSIZE
MaxBodyLength == BufferSize - 2 - 8
MaxProtocolBodyLength == MaxBodyLength - 8
InitialPosition == 4

\* What the constants may be; modules that take this one assume it.
OutputAssumption ==
  IsFiniteSet(Protocols) /\ Sizes \subseteq Nat /\ MaxMessages \in Nat \ {0}

VARIABLES
  bufferedProtocols,
  events,       \* the sendAll events that are pending
  outputBuffer, \* of a protocol: the numbers of the messages in it, and its length
  state,        \* of a protocol: "new", "in", "closed" (its connection is), "released"
  written,      \* how many messages were written
  handed,       \* the numbers handed to the connection
  odd           \* history: a block that could not be padded was handed over

vars == <<bufferedProtocols, events, outputBuffer, state, written, handed, odd>>

NoBuffer == [msgs |-> <<>>, length |-> 0]

Init ==
  /\ bufferedProtocols = {} /\ events = 0
  /\ outputBuffer = [p \in Protocols |-> NoBuffer]
  /\ state = [p \in Protocols |-> "new"]
  /\ written = [p \in Protocols |-> 0]
  /\ handed = [p \in Protocols |-> <<>>]
  /\ odd = {}

-----------------------------------------------------------------------------
\* onSendMessage: the length is written before the message, and the whole is
\* padded to a multiple of 8, when canAdd finds room for that.
Padding(b) == -(b.length + 2) % 8
Padded(b) == Padding(b) = 0 \/ InitialPosition + b.length + Padding(b) < MaxBodyLength

\* Protocol::send does nothing when the connection is gone.
Sent(p, b) == IF state[p] = "closed" THEN <<>> ELSE b.msgs

\* getOutputBuffer, as the condition under which a new buffer is begun
TooLongForOne(b, size) == b.length + size > MaxBodyLength
TooLong(b, size) == b.length + size > MaxProtocolBodyLength

\* writeToOutputBuffer.  canAdd has kept the message itself below its limit.
Write(p, size) ==
  LET b    == outputBuffer[p]
      full == b # NoBuffer /\ TooLong(b, size)
      old  == IF full THEN NoBuffer ELSE b IN
  /\ InitialPosition + size < MaxBodyLength
  /\ written' = [written EXCEPT ![p] = @ + 1]
  /\ outputBuffer' = [outputBuffer EXCEPT ![p] =
                        [msgs |-> Append(old.msgs, written'[p]), length |-> old.length + size]]
  /\ handed' = IF full THEN [handed EXCEPT ![p] = @ \o Sent(p, b)] ELSE handed
  /\ odd' = IF full /\ ~Padded(b) THEN odd \cup {b} ELSE odd

\* ProtocolGame::login: the screen of the world is written, then the protocol
\* is added to those that are served (addProtocolToAutosend).
Login(p) ==
  /\ state[p] = "new" /\ state' = [state EXCEPT ![p] = "in"]
  /\ \E size \in Sizes : Write(p, size)
  /\ events' = IF bufferedProtocols = {} THEN events + 1 ELSE events
  /\ bufferedProtocols' = bufferedProtocols \cup {p}

\* The game tells a player something; he is told until the release.
Tell(p) ==
  /\ state[p] \in {"in", "closed"} /\ written[p] < MaxMessages
  /\ \E size \in Sizes : Write(p, size)
  /\ UNCHANGED <<bufferedProtocols, events, state>>

Close(p) ==
  /\ state[p] = "in" /\ state' = [state EXCEPT ![p] = "closed"]
  /\ UNCHANGED <<bufferedProtocols, events, outputBuffer, written, handed, odd>>

\* ProtocolGame::release, removeProtocolFromAutosend
Release(p) ==
  /\ state[p] = "closed" /\ state' = [state EXCEPT ![p] = "released"]
  /\ bufferedProtocols' = bufferedProtocols \ {p}
  /\ UNCHANGED <<events, outputBuffer, written, handed, odd>>

EndsWhenQuiet(full) == full = {}
Ends(full) == bufferedProtocols = {}

\* sendAll, and scheduleSendAll for the next one
SendAll ==
  /\ events > 0
  /\ LET full == {p \in bufferedProtocols : outputBuffer[p] # NoBuffer} IN
     /\ outputBuffer' = [p \in Protocols |-> IF p \in full THEN NoBuffer ELSE outputBuffer[p]]
     /\ handed' = [p \in Protocols |-> IF p \in full THEN handed[p] \o Sent(p, outputBuffer[p])
                                                     ELSE handed[p]]
     /\ odd' = odd \cup {outputBuffer[p] : p \in {q \in full : ~Padded(outputBuffer[q])}}
     /\ events' = IF Ends(full) THEN events - 1 ELSE events
  /\ UNCHANGED <<bufferedProtocols, state, written>>

Next ==
  \/ \E p \in Protocols : Login(p) \/ Tell(p) \/ Close(p) \/ Release(p)
  \/ SendAll

\* The scheduler hands its events over.
Spec == Init /\ [][Next]_vars /\ WF_vars(SendAll)

-----------------------------------------------------------------------------
OutTypeOK ==
  /\ bufferedProtocols \subseteq Protocols
  /\ events \in 0 .. Cardinality(Protocols)
  /\ \A p \in Protocols : outputBuffer[p].length \in Nat /\ written[p] \in 0 .. MaxMessages
  /\ state \in [Protocols -> {"new", "in", "closed", "released"}]

\* While there is a protocol to serve there is an event to serve it.  The
\* reverse does not hold, nor is there only one: a pool that empties and fills
\* again within 10 ms has a second chain of events, which never ends before it
\* is empty again.
Served == bufferedProtocols # {} => events > 0

\* Nothing an open connection is to be told is lost, doubled or out of order,
\* although buffers are handed over by two different ways.
InOrder ==
  \A p \in Protocols : state[p] = "in" =>
    handed[p] \o outputBuffer[p].msgs = [i \in 1 .. written[p] |-> i]

\* No buffer grows beyond its array, its padding included, and all that is
\* handed over is a multiple of the cipher's block, except for a lone message
\* of the greatest length canAdd admits, which gets no padding.
Fits ==
  /\ \A p \in Protocols : InitialPosition + outputBuffer[p].length + 7 < BufferSize
  /\ \A b \in odd : Len(b.msgs) = 1 /\ b.length = MaxBodyLength - InitialPosition - 1

\* What the buffers obey.
OutputInv == OutTypeOK /\ Served /\ InOrder /\ Fits

\* What is written reaches the connection, when the game writes no more, unless
\* the connection is closed first.
Flushed ==
  \A p \in Protocols :
    (outputBuffer[p] # NoBuffer) ~> (outputBuffer[p] = NoBuffer \/ state[p] \in {"closed", "released"})

=============================================================================
