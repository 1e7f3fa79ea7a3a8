---------------------------- MODULE GatewayClient ----------------------------
(***************************************************************************)
(* The WebSocket client (client.py): connect, the receive loop, the loop   *)
(* that reconnects after an error, disconnect, and the calls that wait for *)
(* a response.  All run on one event loop and interleave at every await;   *)
(* the network and the peer end a connection at any moment.                *)
(*                                                                         *)
(* A connection is a number, drawn in the order they are opened.  A peer   *)
(* that closes cleanly ends the receive loop without an error, and then    *)
(* nothing reconnects; neither does a client that is told not to.          *)
(***************************************************************************)
EXTENDS Naturals, Sequences, FiniteSets

CONSTANTS Calls,          \* requests sent to the gateway
          AgentCalls,     \* those of agent_task, which go on to wait for events
          EventCap,       \* maxsize of _event_queue
          MaxAttempts,    \* max_reconnect_attempts
          MaxConns        \* bound of the model

ASSUME GatewayClientAssumption ==
  AgentCalls \subseteq Calls /\ EventCap \in Nat \ {0} /\ MaxAttempts \in Nat /\ MaxConns \in Nat \ {0}

VARIABLES
  cstate,   \* _state
  ws,       \* _ws, 0 if None
  opened,   \* how many connections were opened
  alive,    \* those that neither end has closed and the network has not cut
  conn,     \* the call of connect: "off", "dials", "auth", "done", "failed"
  reader,   \* the connection _receive_loop reads, 0 if it has ended
  recon,    \* _reconnect_loop: "off", "sleeps", "dials", "auth"
  attempt,
  closing,  \* the call of disconnect: "off", "reader", "socket", "done"
  calls,    \* [call -> "new", "sends", "waits", "listens" to events, or how it ended]
  pending,  \* _pending
  evq,      \* _event_queue: the runs whose end was received
  reconnect, \* the parameter of that name, which config.master gives
  clean,    \* the connections the peer closed cleanly
  raced     \* history: disconnect was called while connect was opening

clientVars == <<cstate, ws, opened, alive, conn, reader, recon, attempt, closing, calls, pending, evq, reconnect, clean, raced>>
linkVars == <<cstate, ws, opened, alive, conn, reader, recon, attempt, closing, reconnect, clean, raced>>

ClientInit ==
  /\ cstate = "disconnected" /\ ws = 0 /\ opened = 0 /\ alive = {}
  /\ conn = "off" /\ reader = 0 /\ recon = "off" /\ attempt = 0 /\ closing = "off"
  /\ calls = [c \in Calls |-> "new"] /\ pending = {} /\ evq = <<>>
  /\ reconnect \in BOOLEAN /\ clean = {} /\ raced = FALSE

\* A new connection.
Opens ==
  /\ opened < MaxConns
  /\ opened' = opened + 1 /\ ws' = opened + 1 /\ alive' = alive \cup {opened + 1}

\* connect.
Connect ==
  /\ conn = "off" /\ closing = "off"
  /\ conn' = "dials" /\ cstate' = "connecting"
  /\ UNCHANGED <<ws, opened, alive, reader, recon, attempt, closing, calls, pending, evq, reconnect, clean, raced>>

ConnectDials ==
  /\ conn = "dials"
  /\ \/ Opens /\ conn' = "auth" /\ cstate' = "authenticating"
     \/ conn' = "failed" /\ cstate' = "disconnected" /\ UNCHANGED <<ws, opened, alive>>
  /\ UNCHANGED <<reader, recon, attempt, closing, calls, pending, evq, reconnect, clean, raced>>

\* _authenticate, of connect: a challenge or none, the request, the response.
ConnectAuth ==
  /\ conn = "auth"
  /\ \/ /\ ws \in alive
        /\ conn' = "done" /\ cstate' = "connected" /\ reader' = ws
        /\ UNCHANGED <<ws, alive>>
     \/ /\ conn' = "failed" /\ cstate' = "disconnected"
        /\ ws' = 0 /\ alive' = alive \ {ws} /\ UNCHANGED reader
  /\ UNCHANGED <<opened, recon, attempt, closing, calls, pending, evq, reconnect, clean, raced>>

\* The network cuts a connection, or the peer closes it.
ConnectionEnds(s) ==
  /\ s \in alive
  /\ alive' = alive \ {s}
  /\ clean' \in {clean, clean \cup {s}}
  /\ UNCHANGED <<cstate, ws, opened, conn, reader, recon, attempt, closing, calls, pending, evq, reconnect, raced>>

\* _receive_loop ends: after an error, and if the client is in use and may, it
\* reconnects.
ReaderEnds ==
  /\ reader # 0 /\ reader \notin alive
  /\ reader' = 0
  /\ IF reader \notin clean /\ cstate = "connected" /\ reconnect
     THEN cstate' = "reconnecting" /\ recon' = "sleeps" /\ attempt' = 0
     ELSE UNCHANGED <<cstate, recon, attempt>>
  /\ UNCHANGED <<ws, opened, alive, conn, closing, calls, pending, evq, reconnect, clean, raced>>

\* Who waits for a response is told that there will be none.
FailPending ==
  /\ calls' = [c \in Calls |-> IF c \in pending /\ calls[c] \in {"sends", "waits"} THEN "failed" ELSE calls[c]]
  /\ pending' = {}

\* The end of an attempt of _reconnect_loop: what it opened stays open.
AttemptFails ==
  /\ attempt' = attempt + 1
  /\ \/ /\ cstate = "reconnecting" /\ attempt + 1 < MaxAttempts
        /\ recon' = "sleeps" /\ UNCHANGED <<cstate, calls, pending>>
     \/ /\ cstate = "reconnecting" /\ attempt + 1 >= MaxAttempts
        /\ recon' = "off" /\ cstate' = "disconnected" /\ FailPending
     \/ cstate # "reconnecting" /\ recon' = "off" /\ UNCHANGED <<cstate, calls, pending>>
  /\ UNCHANGED reader

ReconnectWakes ==
  /\ recon = "sleeps" /\ recon' = "dials"
  /\ UNCHANGED <<cstate, ws, opened, alive, conn, reader, attempt, closing, calls, pending, evq, reconnect, clean, raced>>

ReconnectDials ==
  /\ recon = "dials"
  /\ \/ Opens /\ recon' = "auth" /\ UNCHANGED <<cstate, attempt, reader, calls, pending>>
     \/ AttemptFails /\ UNCHANGED <<ws, opened, alive>>
  /\ UNCHANGED <<conn, closing, evq, reconnect, clean, raced>>

ReconnectAuth ==
  /\ recon = "auth"
  /\ \/ /\ ws \in alive
        /\ recon' = "off" /\ cstate' = "connected" /\ reader' = ws
        /\ UNCHANGED <<attempt, calls, pending>>
     \/ AttemptFails
  /\ UNCHANGED <<ws, opened, alive, conn, closing, evq, reconnect, clean, raced>>

\* A bug: the loop that reconnects is left to itself.
BadDisconnect ==
  /\ closing = "off" /\ cstate' = "closed"
  /\ closing' = "reader"
  /\ raced' = (conn \in {"dials", "auth"})
  /\ UNCHANGED <<ws, opened, alive, conn, reader, recon, attempt, calls, pending, evq, reconnect, clean>>

\* disconnect, up to the cancellation of _reconnect_loop, ...
Disconnect ==
  /\ closing = "off" /\ cstate' = "closed"
  /\ closing' = "reader" /\ recon' = "off"
  /\ raced' = (conn \in {"dials", "auth"})
  /\ UNCHANGED <<ws, opened, alive, conn, reader, attempt, calls, pending, evq, reconnect, clean>>

\* ... of _receive_loop, ...
DisconnectReader ==
  /\ closing = "reader" /\ closing' = "socket"
  /\ reader' = 0
  /\ UNCHANGED <<cstate, ws, opened, alive, conn, recon, attempt, calls, pending, evq, reconnect, clean, raced>>

\* ... and the close of the connection.
DisconnectEnds ==
  /\ closing = "socket" /\ closing' = "done"
  /\ alive' = alive \ {ws} /\ ws' = 0
  /\ FailPending
  /\ UNCHANGED <<cstate, opened, conn, reader, recon, attempt, evq, reconnect, clean, raced>>

\* send_request, up to the send.
SendRequest(c) ==
  /\ calls[c] = "new" /\ cstate = "connected"
  /\ calls' = [calls EXCEPT ![c] = "sends"] /\ pending' = pending \cup {c}
  /\ UNCHANGED <<linkVars, evq>>

\* _send_frame: it may succeed on a connection that is cut already.
FrameSent(c) ==
  /\ calls[c] = "sends"
  /\ \/ ws # 0 /\ calls' = [calls EXCEPT ![c] = "waits"] /\ UNCHANGED pending
     \/ calls' = [calls EXCEPT ![c] = "failed"] /\ pending' = pending \ {c}
  /\ UNCHANGED <<linkVars, evq>>

\* _handle_response; it may come before the send has returned.
ResponseReceived(c) ==
  /\ reader # 0 /\ c \in pending
  /\ pending' = pending \ {c}
  /\ \E answer \in {"answered", "failed"} :
       calls' = [calls EXCEPT ![c] = IF @ = "cancelled" THEN @
                                     ELSE IF answer = "answered" /\ c \in AgentCalls THEN "listens" ELSE answer]
  /\ UNCHANGED <<linkVars, evq>>

CallEnds(c) == pending' = pending \ {c}

\* wait_for is over, or the caller was cancelled: then the entry stays.
CallTimesOut(c) ==
  /\ calls[c] = "waits"
  /\ calls' = [calls EXCEPT ![c] = "timed out"] /\ CallEnds(c)
  /\ UNCHANGED <<linkVars, evq>>

CallCancelled(c) ==
  /\ calls[c] \in {"sends", "waits"}
  /\ calls' = [calls EXCEPT ![c] = "cancelled"]
  /\ UNCHANGED <<linkVars, pending, evq>>

\* _handle_event, of the end of a run: a full queue drops it.
EventReceived(c) ==
  /\ reader # 0 /\ calls[c] = "listens" /\ \A i \in DOMAIN evq : evq[i] # c
  /\ evq' = IF Len(evq) < EventCap THEN Append(evq, c) ELSE evq
  /\ UNCHANGED <<linkVars, calls, pending>>

\* agent_task takes an event; one of another run it drops.
TakeEvent(c) ==
  /\ calls[c] = "listens" /\ evq # <<>>
  /\ evq' = Tail(evq)
  /\ calls' = IF Head(evq) = c THEN [calls EXCEPT ![c] = "answered"] ELSE calls
  /\ UNCHANGED <<linkVars, pending>>

\* Its deadline has passed.
AgentGivesUp(c) ==
  /\ calls[c] = "listens"
  /\ calls' = [calls EXCEPT ![c] = "no result"]
  /\ UNCHANGED <<linkVars, pending, evq>>

LinkNext ==
  \/ ConnectDials \/ ConnectAuth \/ ReaderEnds
  \/ ReconnectWakes \/ ReconnectDials \/ ReconnectAuth
  \/ DisconnectReader \/ DisconnectEnds
  \/ \E s \in alive : ConnectionEnds(s)

ClientNext ==
  \/ Connect \/ Disconnect \/ LinkNext
  \/ \E c \in Calls :
       \/ SendRequest(c) \/ FrameSent(c) \/ ResponseReceived(c) \/ CallTimesOut(c) \/ CallCancelled(c)
       \/ EventReceived(c) \/ TakeEvent(c) \/ AgentGivesUp(c)

ClientSpec == ClientInit /\ [][ClientNext]_clientVars

----------------------------------------------------------------------------
\* A client that was told to disconnect stays disconnected, holds no connection
\* and leaves no caller waiting, also when it was about to reconnect (but not
\* when connect was still opening); a client that says it is connected is
\* reading its connection, unless the peer closed that cleanly or it is gone and
\* the client may not reconnect; one that says it reconnects is trying to; and
\* who waits for a response is the only one that is listed for it, but for
\* callers that were cancelled.
ClientInHand ==
  /\ closing = "done" /\ ~raced =>
       cstate \in {"closed", "disconnected"} /\ ws = 0 /\ reader = 0 /\ recon = "off" /\ pending = {}
  /\ cstate = "connected" =>
       (reader # 0 /\ reader = ws) \/ ws \in clean \/ (ws \notin alive /\ ~reconnect) \/ raced
  /\ cstate = "reconnecting" => reconnect /\ recon # "off"
  /\ \A c \in Calls : /\ calls[c] \in {"sends", "waits"} => c \in pending
                      /\ c \in pending => calls[c] \in {"sends", "waits", "cancelled"}
=============================================================================
