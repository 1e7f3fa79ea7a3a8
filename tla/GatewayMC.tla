----------------------------- MODULE GatewayMC -----------------------------
(***************************************************************************)
(* What must come to an end beside the tasks: the reload of a changed file *)
(* and the requests that come from the gateway.  They share no state, so a *)
(* behaviour exercises one of them, which focus names; the connection is   *)
(* looked at twice: the limits a message has to pass while the connection  *)
(* stands, and one message through every way a connection may go.          *)
(***************************************************************************)
EXTENDS TLC, ConfigWatcher, MasterConnection

CONSTANTS m1, m2, m3

VARIABLE focus
vars == <<focus, watcherVars, allGatewayVars>>

MCMessages == {m1, m2, m3}
MCUserOf == [m \in MCMessages |-> "u"]
MCTaskOf == [m \in MCMessages |-> IF m = m3 THEN "w" ELSE "t"]

\* The watcher in the behaviours that are not about it: all is loaded.
WatcherRests ==
  /\ polling = TRUE /\ file = [text |-> 1, mtime |-> 1] /\ current = 1 /\ noted = file
  /\ debouncing = FALSE /\ events = 0 /\ reload = "off"
  /\ orch = 1 /\ boot = [step |-> "done", text |-> 1] /\ skipped = FALSE

Init ==
  /\ focus \in {"watcher", "admission", "gateway"}
  /\ IF focus = "watcher" THEN WatcherInit ELSE WatcherRests
  /\ ClientInit /\ MasterInit /\ GatewayInit
  /\ focus # "gateway" => reconnect

\* Messages on a connection that stands: the limits decide.
Admission ==
  \/ StartMaster /\ UNCHANGED gatewayVars
  \/ LinkSteps /\ conn' # "failed" /\ alive \subseteq alive'
  \/ Accepts /\ UNCHANGED <<clientVars, masterVars>>
  \/ MasterTick /\ UNCHANGED gatewayVars
  \/ \E m \in Messages : ((Arrives(m) \/ Answer(m)) /\ UNCHANGED gatewayVars) \/ HandlerSteps(m)

\* One message, in no time, on connections that come and go.
Gateway == MasterNext /\ now' = now /\ \A m \in {m2, m3} : user'[m] = "new"

Next ==
  /\ UNCHANGED focus
  /\ \/ focus = "watcher" /\ WatcherNext /\ UNCHANGED allGatewayVars
     \/ focus = "admission" /\ Admission /\ UNCHANGED watcherVars
     \/ focus = "gateway" /\ Gateway /\ UNCHANGED watcherVars

Spec ==
  /\ Init /\ [][Next]_vars
  /\ focus # "watcher" \/ WatcherFairness
  /\ focus = "watcher" \/ MasterFairness

\* What the gateway sends is admitted within its limits, and what was admitted is
\* in the master's hand.
InboundInHand == AdmissionBounded /\ MasterInHand
=============================================================================
