---------------------------- MODULE EventStream ----------------------------
(***************************************************************************)
(* The stream of events (events.py, event_store.py, server.py).  An event  *)
(* is stored under the next sequence number and put into the queue of      *)
(* every console that is connected; both happen under one lock.  A console *)
(* keeps the last number it was told and names it when it connects again.  *)
(*                                                                         *)
(* An emitter may be cancelled, or the store may fail, at either of the    *)
(* two awaits of append_event; aiosqlite does what it was asked anyway, in *)
(* order.  A crash loses what was not committed and every connection.      *)
(***************************************************************************)
EXTENDS Naturals, FiniteSets, Sequences, SequencesExt

CONSTANTS Events, Consoles,
          MaxSubscribers,  \* MAX_WS_SUBSCRIBERS
          QueueSize,       \* the size of a subscriber's queue
          EvMaxConnects, EvMaxFaults  \* bounds of the model

ASSUME EventStreamAssumption ==
  MaxSubscribers \in Nat \ {0} /\ QueueSize \in Nat \ {0} /\ EvMaxConnects \in Nat /\ EvMaxFaults \in Nat

VARIABLES
  emitting,   \* each event: new, waits, inserting, committing, announced, lost
  holders,    \* _event_sequence_lock: who holds it, and who waits, in order
  rows,       \* the inserted rows; a row's number is its sequence_id
  committed,  \* how many of them are committed
  sequence,   \* _event_sequence
  socket,     \* each console's connection: off, open, closed by the console
  queue,      \* its queue, while it is one of _event_subscribers
  leaked,     \* queues that no handler serves any more
  sent,       \* the numbers sent on this connection, the one of "ready" first
  known,      \* lastSequenceIdRef of each console
  announced,  \* history: [number -> the event it was announced for]
  dropped,    \* history: numbers a full queue did not take, on this connection
  connects, evFaults

streamVars == <<emitting, holders, rows, committed, sequence, socket, queue, leaked, sent,
                known, announced, dropped, connects, evFaults>>
storeVars == <<emitting, holders, rows, committed, sequence, announced>>
socketVars == <<socket, queue, leaked, sent, known, dropped, connects>>

StreamInit ==
  /\ emitting = [e \in Events |-> "new"] /\ holders = << >>
  /\ rows = << >> /\ committed = 0 /\ sequence = 0
  /\ socket = [c \in Consoles |-> "off"] /\ queue = [c \in Consoles |-> << >>]
  /\ leaked = 0 /\ sent = [c \in Consoles |-> << >>] /\ known = [c \in Consoles |-> 0]
  /\ announced = << >> /\ dropped = [c \in Consoles |-> {}]
  /\ connects = [c \in Consoles |-> 0] /\ evFaults = 0

EvFault == evFaults < EvMaxFaults /\ evFaults' = evFaults + 1

Subscribed == {c \in Consoles : socket[c] # "off"}

----------------------------------------------------------------------------
(* Emitters. *)

\* Whoever is first in the line holds the lock and inserts.
Lead(steps, line) ==
  IF line = << >> THEN steps ELSE [steps EXCEPT ![Head(line)] = IF @ = "waits" THEN "inserting" ELSE @]

\* EventBus.emit, or a handler, calls _broadcast_event.
Broadcast(e) ==
  /\ emitting[e] = "new"
  /\ holders' = Append(holders, e)
  /\ emitting' = Lead([emitting EXCEPT ![e] = "waits"], holders')
  /\ UNCHANGED <<rows, committed, sequence, announced, socketVars, evFaults>>

Inserted(e) ==
  /\ emitting[e] = "inserting"
  /\ rows' = Append(rows, e)
  /\ emitting' = [emitting EXCEPT ![e] = "committing"]
  /\ UNCHANGED <<holders, committed, sequence, announced, socketVars, evFaults>>

\* A bug: the numbers are counted, not taken from the store.
BadNumberOf(e) == sequence + 1
\* cursor.lastrowid.
NumberOf(e) == CHOOSE i \in DOMAIN rows : rows[i] = e

\* The commit, the announcement and the queues: a full queue goes without.
Announce(e) ==
  LET n == NumberOf(e)
      room == {c \in Subscribed : Len(queue[c]) < QueueSize} IN
  /\ emitting[e] = "committing"
  /\ committed' = Len(rows)
  /\ sequence' = n
  /\ announced' = [i \in DOMAIN announced \cup {n} |-> IF i = n THEN e ELSE announced[i]]
  /\ queue' = [c \in Consoles |-> IF c \in room THEN Append(queue[c], n) ELSE queue[c]]
  /\ dropped' = [c \in Consoles |-> IF c \in Subscribed \ room THEN dropped[c] \cup {n} ELSE dropped[c]]
  /\ holders' = Tail(holders)
  /\ emitting' = Lead([emitting EXCEPT ![e] = "announced"], holders')
  /\ UNCHANGED <<rows, socket, leaked, sent, known, connects, evFaults>>

\* The emitter is cancelled, in the line or at either await: what it asked of
\* the store is done, and nobody is told.
Abandon(e) ==
  /\ EvFault
  /\ emitting[e] \in {"waits", "inserting", "committing"}
  /\ rows' = IF emitting[e] = "inserting" THEN Append(rows, e) ELSE rows
  /\ committed' = IF emitting[e] = "committing" THEN Len(rows) ELSE committed
  /\ \E i \in DOMAIN holders : holders[i] = e /\ holders' = RemoveAt(holders, i)
  /\ emitting' = Lead([emitting EXCEPT ![e] = "lost"], holders')
  /\ UNCHANGED <<sequence, announced, socketVars>>

\* The store raises at either await: a row may stay for the next commit.  A bus
\* logs it; a handler answers with an error though its work is done.
StoreFails(e) ==
  /\ EvFault
  /\ emitting[e] \in {"inserting", "committing"}
  /\ holders' = Tail(holders)
  /\ emitting' = Lead([emitting EXCEPT ![e] = "lost"], holders')
  /\ UNCHANGED <<rows, committed, sequence, announced, socketVars>>

----------------------------------------------------------------------------
(* Consoles. *)

\* websocket_events up to ready: the queue is there before the number is read,
\* with no await in between.
ConsoleConnects(c) ==
  /\ socket[c] = "off" /\ connects[c] < EvMaxConnects
  /\ Cardinality(Subscribed) + leaked < MaxSubscribers
  /\ connects' = [connects EXCEPT ![c] = @ + 1]
  /\ socket' = [socket EXCEPT ![c] = "open"]
  /\ queue' = [queue EXCEPT ![c] = << >>]
  /\ sent' = [sent EXCEPT ![c] = <<sequence>>]
  /\ known' = [known EXCEPT ![c] = sequence]
  /\ dropped' = [dropped EXCEPT ![c] = {}]
  /\ UNCHANGED <<storeVars, leaked, evFaults>>

\* Ready is sent outside the try that removes the queue: if the console is gone
\* by then, its queue stays.
ReadyFails(c) ==
  /\ EvFault
  /\ socket[c] = "off" /\ connects[c] < EvMaxConnects
  /\ Cardinality(Subscribed) + leaked < MaxSubscribers
  /\ connects' = [connects EXCEPT ![c] = @ + 1]
  /\ leaked' = leaked + 1
  /\ UNCHANGED <<storeVars, socket, queue, sent, known, dropped>>

\* The next event of the queue is sent, or a ping when there was none for long.
Send(c) ==
  /\ socket[c] = "open"
  /\ \/ /\ queue[c] # << >>
        /\ queue' = [queue EXCEPT ![c] = Tail(@)]
        /\ sent' = [sent EXCEPT ![c] = Append(@, Head(queue[c]))]
        /\ known' = [known EXCEPT ![c] = Head(queue[c])]
     \/ /\ queue[c] = << >> /\ known[c] # sequence
        /\ known' = [known EXCEPT ![c] = sequence]
        /\ UNCHANGED <<queue, sent>>
  /\ UNCHANGED <<storeVars, socket, leaked, dropped, connects, evFaults>>

\* The console goes; the handler notices when it sends something.
Close(c) ==
  /\ socket[c] = "open"
  /\ socket' = [socket EXCEPT ![c] = "closed"]
  /\ UNCHANGED <<storeVars, queue, leaked, sent, known, dropped, connects, evFaults>>

SendFails(c) ==
  /\ socket[c] = "closed"
  /\ socket' = [socket EXCEPT ![c] = "off"]
  /\ UNCHANGED <<storeVars, queue, leaked, sent, known, dropped, connects, evFaults>>

\* GET /api/events: the response carries the number as it is then.
ListEvents(c) ==
  /\ known' = [known EXCEPT ![c] = sequence]
  /\ UNCHANGED <<storeVars, socket, queue, leaked, sent, dropped, connects, evFaults>>

\* The process ends and another one starts: what was not committed is gone, and
\* the sequence is the largest number in the store.
StreamRestart ==
  /\ EvFault
  /\ rows' = SubSeq(rows, 1, committed) /\ sequence' = committed
  /\ emitting' = [e \in Events |->
       IF emitting[e] \in {"waits", "inserting", "committing"} THEN "lost" ELSE emitting[e]]
  /\ holders' = << >>
  /\ socket' = [c \in Consoles |-> "off"] /\ queue' = [c \in Consoles |-> << >>] /\ leaked' = 0
  /\ UNCHANGED <<committed, announced, sent, known, dropped, connects>>

StreamNext ==
  \/ \E e \in Events : Broadcast(e) \/ Inserted(e) \/ Announce(e) \/ Abandon(e) \/ StoreFails(e)
  \/ \E c \in Consoles :
       ConsoleConnects(c) \/ ReadyFails(c) \/ Send(c) \/ Close(c) \/ SendFails(c) \/ ListEvents(c)
  \/ StreamRestart

StreamSpec == StreamInit /\ [][StreamNext]_streamVars

----------------------------------------------------------------------------
(* Properties. *)

Increasing(s) == \A i \in 1..(Len(s) - 1) : s[i] < s[i + 1]

\* "Queue fanout stays inside the same critical section as sequence assignment
\* so subscribers observe monotonic ordering under concurrent emits": what a
\* connection was sent and will be sent has rising numbers, begins after
\* ready's, and leaves out no event but what its full queue did not take.
StreamInOrder ==
  \A c \in Subscribed :
    LET seen == sent[c] \o queue[c] IN
    /\ Increasing(seen)
    /\ \A n \in DOMAIN announced : n > sent[c][1] => n \in ToSet(seen) \cup dropped[c]

\* A number names the same event in the stream and in the store for good, over
\* cancelled emitters, failures and restarts; and no console has been told a
\* number the server does not know, so that its reconnection finds out what it
\* missed.
NumbersAgree ==
  /\ \A n \in DOMAIN announced : n <= committed /\ rows[n] = announced[n]
  /\ \A c \in Consoles : known[c] <= sequence

EventsKeepTheirNumbers == StreamInOrder /\ NumbersAgree
=============================================================================
