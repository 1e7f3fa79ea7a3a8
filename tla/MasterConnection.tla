-------------------------- MODULE MasterConnection --------------------------
(***************************************************************************)
(* The connection to the master gateway (master.py), over its client, and  *)
(* the gateway at the other end (scripts/master_gateway.py, channel.py):   *)
(* a user's message becomes a request frame, the master checks the user's  *)
(* rate and whether it is a repetition, waits for one of its permits, runs *)
(* the task, and sends the response back over whatever connection there    *)
(* is by then.  The gateway shows the user the response, or that there is  *)
(* none.                                                                   *)
(*                                                                         *)
(* A message is a model value and names its request too (ids are unique).  *)
(* What the text is checked for, redacted and cut to is left out.          *)
(***************************************************************************)
EXTENDS GatewayClient

CONSTANTS Messages, UserOf, TaskOf,   \* what users send: the user, what is asked
          NoUser, Ping,               \* no user id; the task of a ping or status frame
          Permits,                    \* max_concurrent_tasks
          Rpm, RateWindow,            \* rate_limit_rpm, per so many ticks
          DedupWindow, RecentCap,     \* _DEDUP_WINDOW and the size above which it is pruned
          MaxTime                     \* bound of the model

ASSUME MasterAssumption ==
  /\ UserOf \in [Messages -> STRING \cup {NoUser}]
  /\ Permits \in Nat \ {0} /\ Rpm \in Nat \ {0} /\ RateWindow \in Nat /\ DedupWindow \in 0..RateWindow
  /\ RecentCap \in Nat /\ MaxTime \in Nat

VARIABLES
  starter,  \* the call of start: "off", "connects", "serves", "returned"
  stopper,  \* the call of stop: "off", "cancels", "disconnects", "done"
  snapshot, \* the tasks stop has still to cancel
  req,      \* [message -> where _handle_inbound_request is with it]
  active,   \* the keys of _active_tasks
  permits,  \* those of the semaphore
  now,
  when,     \* [message -> when its user's rate was checked]
  counted,  \* _user_requests: the messages whose times it holds
  recent,   \* _recent_requests: the messages whose times it holds
  late      \* history: the messages that arrived during stop

masterVars == <<starter, stopper, snapshot, req, active, permits, now, when, counted, recent, late>>

Ended == {"answered", "declined", "lost", "cancelled"}
Holders == {m \in Messages : req[m] \in {"runs", "answers", "apologizes"}}
InFlight == {m \in Messages : req[m] \notin Ended \cup {"new"}}

MasterInit ==
  /\ starter = "off" /\ stopper = "off" /\ snapshot = {}
  /\ req = [m \in Messages |-> "new"] /\ active = {}
  /\ permits = Permits
  /\ now = 0 /\ when = [m \in Messages |-> 0] /\ counted = {} /\ recent = {}
  /\ late = {}

\* start: _client.connect, ...
StartMaster ==
  /\ starter = "off" /\ starter' = "connects"
  /\ Connect
  /\ UNCHANGED <<stopper, snapshot, req, active, permits, now, when, counted, recent, late>>

\* ... and every second the look whether it is still connected.
StartLooks ==
  /\ \/ starter = "connects" /\ conn = "done" /\ starter' = "serves"
     \/ starter = "connects" /\ conn = "failed" /\ starter' = "returned"
     \/ starter = "serves" /\ (stopper # "off" \/ cstate # "connected") /\ starter' = "returned"
  /\ UNCHANGED <<stopper, snapshot, req, active, permits, now, when, counted, recent, late, clientVars>>

\* _on_inbound_request: called by the receive loop.
Arrives(m) ==
  /\ reader # 0 /\ req[m] = "new"
  /\ req' = [req EXCEPT ![m] = "spawned"]
  /\ active' = active \cup {m}
  /\ late' = IF stopper = "off" THEN late ELSE late \cup {m}
  /\ UNCHANGED <<starter, stopper, snapshot, permits, now, when, counted, recent, clientVars>>

\* A bug: what is older than the shorter window is pruned.
BadPruned(set, window) == {x \in set : now - when[x] < DedupWindow}
Pruned(set, window) == {x \in set : now - when[x] < window}

\* _check_rate_limit, with what it leaves in _user_requests.
OfUser(m) == {x \in counted : UserOf[x] = UserOf[m]}
InRate(m) == UserOf[m] = NoUser \/ Cardinality(Pruned(OfUser(m), RateWindow)) < Rpm
RateChecked(m) ==
  IF UserOf[m] = NoUser THEN counted
  ELSE (counted \ OfUser(m)) \cup Pruned(OfUser(m), RateWindow) \cup (IF InRate(m) THEN {m} ELSE {})

\* _check_dedup, with what it leaves in _recent_requests.
Same(x, m) == UserOf[x] = UserOf[m] /\ TaskOf[x] = TaskOf[m]
Repeats(m) ==
  UserOf[m] # NoUser /\ \E x \in recent : Same(x, m) /\ now - when[x] < DedupWindow
DedupChecked(m) ==
  LET kept == IF Cardinality(recent) > RecentCap THEN Pruned(recent, DedupWindow) ELSE recent
  IN  IF UserOf[m] = NoUser THEN recent
      ELSE IF Repeats(m) THEN kept
      ELSE {x \in kept : ~Same(x, m)} \cup {m}

\* _handle_inbound_request up to its first await: a ping, a status or what is not
\* valid is answered at once, and the message that is not admitted is told so.
Handle(m) ==
  /\ req[m] = "spawned"
  /\ \/ /\ TaskOf[m] = Ping
        /\ req' = [req EXCEPT ![m] = "declines"] /\ UNCHANGED <<when, counted, recent>>
     \/ /\ TaskOf[m] # Ping
        /\ when' = [when EXCEPT ![m] = now]
        /\ counted' = RateChecked(m)
        /\ recent' = IF InRate(m) THEN DedupChecked(m) ELSE recent
        /\ req' = [req EXCEPT ![m] = IF InRate(m) /\ ~Repeats(m) THEN "queued" ELSE "declines"]
  /\ UNCHANGED <<starter, stopper, snapshot, active, permits, now, late, clientVars>>

\* _handle_task_team, _handle_task_auto: a permit.
Acquire(m) ==
  /\ req[m] = "queued" /\ permits > 0
  /\ permits' = permits - 1
  /\ req' = [req EXCEPT ![m] = "runs"]
  /\ UNCHANGED <<starter, stopper, snapshot, active, now, when, counted, recent, late, clientVars>>

\* The orchestrator has a result, declines, fails or is out of time (wait_for).
TaskEnds(m) ==
  /\ req[m] = "runs"
  /\ req' = [req EXCEPT ![m] = "answers"]
  /\ UNCHANGED <<starter, stopper, snapshot, active, permits, now, when, counted, recent, late, clientVars>>

\* A bug: only a response that was sent gives the permit back.
BadReleased(m, end) == IF m \in Holders /\ end = "answered" THEN permits + 1 ELSE permits
Released(m, end) == IF m \in Holders THEN permits + 1 ELSE permits

Leaves(m, end) ==
  /\ req' = [req EXCEPT ![m] = end]
  /\ permits' = Released(m, end)
  /\ active' = active \ {m}

\* _send_response, and _send_frame under it.
CanSend == stopper # "done" /\ cstate = "connected" /\ ws # 0

\* The response is sent; when that fails the error is sent in its place, once.
Answer(m) ==
  /\ req[m] \in {"answers", "apologizes", "declines"}
  /\ \/ CanSend /\ Leaves(m, IF req[m] = "declines" THEN "declined" ELSE "answered")
     \/ /\ CanSend /\ req[m] = "answers"
        /\ req' = [req EXCEPT ![m] = "apologizes"] /\ UNCHANGED <<permits, active>>
     \/ CanSend /\ req[m] # "answers" /\ Leaves(m, "lost")
     \/ ~CanSend /\ Leaves(m, "lost")
  /\ UNCHANGED <<starter, stopper, snapshot, now, when, counted, recent, late, clientVars>>

\* stop: the tasks there are, ...
StopMaster ==
  /\ stopper = "off" /\ starter # "off"
  /\ stopper' = "cancels" /\ snapshot' = active
  /\ UNCHANGED <<starter, req, active, permits, now, when, counted, recent, late, clientVars>>

\* ... each cancelled and awaited, ...
StopCancels(m) ==
  /\ stopper = "cancels" /\ m \in snapshot
  /\ snapshot' = snapshot \ {m}
  /\ IF m \in InFlight THEN Leaves(m, "cancelled") ELSE UNCHANGED <<req, permits, active>>
  /\ UNCHANGED <<starter, stopper, now, when, counted, recent, late, clientVars>>

\* ... the rest forgotten, and the client disconnected.
StopDisconnects ==
  /\ stopper = "cancels" /\ snapshot = {}
  /\ stopper' = "disconnects" /\ active' = {}
  /\ Disconnect
  /\ UNCHANGED <<starter, snapshot, req, permits, now, when, counted, recent, late>>

StopEnds ==
  /\ stopper = "disconnects" /\ closing = "done"
  /\ stopper' = "done"
  /\ UNCHANGED <<starter, snapshot, req, active, permits, now, when, counted, recent, late, clientVars>>

MasterTick ==
  /\ now < MaxTime /\ now' = now + 1
  /\ UNCHANGED <<starter, stopper, snapshot, req, active, permits, when, counted, recent, late, clientVars>>

----------------------------------------------------------------------------
(* The gateway's end.                                                      *)

VARIABLES
  controller, \* _controller_ws, 0 if None
  handlers,   \* the connections whose _handle_connection has accepted them
  user,       \* [message -> what handle_incoming does: "new", "waits", or what it showed]
  wire        \* the frames in transit: [conn, kind, msg]

gatewayVars == <<controller, handlers, user, wire>>
allGatewayVars == <<clientVars, masterVars, gatewayVars>>

GatewayInit ==
  /\ controller = 0 /\ handlers = {} /\ user = [m \in Messages |-> "new"] /\ wire = {}

Frame(s, kind, m) == [conn |-> s, kind |-> kind, msg |-> m]

\* _handle_connection, up to the response to the connect frame: it comes before
\* the client can be sure of it, and a client that gave up is found out later.
Accepts ==
  /\ ws \in alive \ handlers /\ (conn = "auth" \/ recon = "auth")
  /\ handlers' = handlers \cup {ws} /\ controller' = ws
  /\ UNCHANGED <<user, wire>>

\* Its end, whenever it notices: all requests fail, also those of another connection.
HandlerEnds(s) ==
  /\ s \in handlers \ alive
  /\ handlers' = handlers \ {s} /\ controller' = 0
  /\ user' = [m \in Messages |-> IF user[m] = "waits" THEN "error" ELSE user[m]]
  /\ UNCHANGED wire

\* handle_incoming and send_request.
MessageComes(m) ==
  /\ user[m] = "new"
  /\ \/ controller = 0 /\ user' = [user EXCEPT ![m] = "not connected"] /\ UNCHANGED wire
     \/ /\ controller # 0 /\ user' = [user EXCEPT ![m] = "waits"]
        /\ wire' = wire \cup {Frame(controller, "req", m)}
     \/ controller \notin alive /\ controller # 0 /\ user' = [user EXCEPT ![m] = "error"] /\ UNCHANGED wire
  /\ UNCHANGED <<controller, handlers>>

MessageTimesOut(m) ==
  /\ user[m] = "waits" /\ user' = [user EXCEPT ![m] = "timed out"]
  /\ UNCHANGED <<controller, handlers, wire>>

\* A response frame reaches the handler: a late one finds nobody.
ResponseShown(m) ==
  \E f \in wire :
    /\ f.msg = m /\ f.kind = "res" /\ f.conn \in handlers
    /\ wire' = wire \ {f}
    /\ user' = [user EXCEPT ![m] = IF @ = "waits" THEN "shown" ELSE @]
    /\ UNCHANGED <<controller, handlers>>

\* A frame of a connection that has ended is gone.
FrameLost(f) ==
  /\ f \in wire /\ f.conn \notin alive
  /\ wire' = wire \ {f}
  /\ UNCHANGED <<controller, handlers, user>>

\* A request frame reaches the client.
Delivered(m) ==
  /\ Frame(reader, "req", m) \in wire /\ Arrives(m)
  /\ wire' = wire \ {Frame(reader, "req", m)}
  /\ UNCHANGED <<controller, handlers, user>>

Sends(m) ==
  /\ Answer(m)
  /\ wire' = IF req'[m] \in {"answered", "declined"} THEN wire \cup {Frame(ws, "res", m)} ELSE wire
  /\ UNCHANGED <<controller, handlers, user>>

\* The client's link, which the gateway has to have accepted.
LinkSteps ==
  /\ LinkNext
  /\ cstate' = "connected" /\ cstate # "connected" => ws \in handlers
  /\ UNCHANGED <<masterVars, gatewayVars>>

HandlerSteps(m) == (Handle(m) \/ Acquire(m) \/ TaskEnds(m)) /\ UNCHANGED gatewayVars

MasterNext ==
  \/ (StartMaster \/ StartLooks \/ StopMaster \/ StopDisconnects \/ StopEnds \/ MasterTick) /\ UNCHANGED gatewayVars
  \/ LinkSteps
  \/ Accepts /\ UNCHANGED <<clientVars, masterVars>>
  \/ \E s \in handlers : HandlerEnds(s) /\ UNCHANGED <<clientVars, masterVars>>
  \/ \E f \in wire : FrameLost(f) /\ UNCHANGED <<clientVars, masterVars>>
  \/ \E m \in Messages :
       \/ (MessageComes(m) \/ MessageTimesOut(m) \/ ResponseShown(m)) /\ UNCHANGED <<clientVars, masterVars>>
       \/ Delivered(m) \/ Sends(m) \/ HandlerSteps(m)
       \/ StopCancels(m) /\ UNCHANGED gatewayVars

MasterSpec == ClientInit /\ MasterInit /\ GatewayInit /\ [][MasterNext]_allGatewayVars

\* Tasks end (wait_for), sends return, and a permit that is free again and again
\* is given to who waits for it (the semaphore is first come, first served).
MasterFairness ==
  \A m \in Messages :
    /\ WF_allGatewayVars(Handle(m) /\ UNCHANGED gatewayVars)
    /\ SF_allGatewayVars(Acquire(m) /\ UNCHANGED gatewayVars)
    /\ WF_allGatewayVars(TaskEnds(m) /\ UNCHANGED gatewayVars)
    /\ WF_allGatewayVars(Sends(m))

----------------------------------------------------------------------------

Admitted == {m \in Messages : UserOf[m] # NoUser /\ req[m] \in {"queued", "runs", "answers", "apologizes", "answered"}}

\* However requests arrive, repeat and are pruned, a user never has more than Rpm
\* of them run that were made within a window, and never the same task twice
\* within the shorter one.
AdmissionBounded ==
  /\ \A m \in Admitted :
       Cardinality({x \in Admitted : UserOf[x] = UserOf[m] /\ when[x] \in when[m]..(when[m] + RateWindow - 1)}) <= Rpm
  /\ \A m, x \in Admitted : m # x /\ Same(x, m) /\ when[x] >= when[m] => when[x] - when[m] >= DedupWindow

\* Every permit is free or held by a task that runs, and once stop has ended no
\* request is being handled but those that arrived while it was cancelling; the
\* client under it keeps what ClientInHand says.
MasterInHand ==
  /\ permits + Cardinality(Holders) = Permits
  /\ stopper \in {"off", "cancels"} => active = InFlight
  /\ stopper = "done" => InFlight \subseteq late
  /\ ClientInHand

\* Every request that reaches the master is answered, declined, cancelled by
\* stop, or its answer is lost with the connection: none waits for ever.
EveryInboundEnds == \A m \in Messages : req[m] = "spawned" ~> req[m] \in Ended
=============================================================================
