--------------------------- MODULE GatewayProofs ---------------------------
(* The client and the master's end of the connection, for any calls, users,  *)
(* messages and connections: who disconnects stays disconnected, who waits   *)
(* is listed, permits are conserved, and no user gets more than the limits   *)
(* allow, in whatever order connections break and requests arrive.           *)
EXTENDS GatewayMC, FiniteSetTheorems, TLAPS

CallStates ==
  {"new", "sends", "waits", "listens", "answered", "failed", "timed out", "cancelled", "no result"}

ClientTypes ==
  /\ ws \in Nat /\ opened \in Nat /\ alive \subseteq Nat \ {0} /\ raced \in BOOLEAN
  /\ calls \in [Calls -> CallStates] /\ pending \subseteq Calls

\* Only who has connected reconnects, and only a client that reconnects tries to.
Reconnecting ==
  /\ cstate = "connected" => conn = "done"
  /\ recon # "off" <=> cstate = "reconnecting"
  /\ recon # "off" => conn = "done" /\ reconnect

\* How far disconnect is, unless connect was opening when it was called.
Disconnecting ==
  /\ closing = "off" => ~raced
  /\ closing # "off" /\ ~raced => cstate = "closed" /\ conn \notin {"dials", "auth"}
  /\ closing \in {"socket", "done"} /\ ~raced => reader = 0
  /\ closing = "done" /\ ~raced => ws = 0 /\ pending = {}

\* What a client that says it is connected reads.
ReadsOwn ==
  cstate = "connected" =>
    (reader # 0 /\ reader = ws) \/ ws \in clean \/ (ws \notin alive /\ ~reconnect) \/ raced

Listed ==
  \A c \in Calls : /\ calls[c] \in {"sends", "waits"} => c \in pending
                   /\ c \in pending => calls[c] \in {"sends", "waits", "cancelled"}

\* The inductive invariant of the client: its link and its calls.
LinkHolds == ClientTypes /\ Reconnecting /\ Disconnecting /\ ReadsOwn
ClientHolds == LinkHolds /\ Listed

-----------------------------------------------------------------------------
(* The client. *)

LEMMA ClientStarts == ClientInit => ClientHolds
<1> SUFFICES ASSUME ClientInit PROVE ClientHolds
  OBVIOUS
<1>1. ClientTypes
  BY DEF ClientInit, ClientTypes, CallStates
<1>2. Reconnecting /\ ReadsOwn
  BY DEF ClientInit, Reconnecting, ReadsOwn
<1>3. Disconnecting
  BY DEF ClientInit, Disconnecting
<1>4. Listed
  BY DEF ClientInit, Listed
<1> QED BY <1>1, <1>2, <1>3, <1>4 DEF ClientHolds, LinkHolds

\* Those who wait are told, and nobody is listed any more.
LEMMA FailPendingKept ==
  ASSUME ClientHolds, FailPending
  PROVE  Listed' /\ pending' = {} /\ calls' \in [Calls -> CallStates]
BY DEF ClientHolds, LinkHolds, ClientTypes, Listed, FailPending, CallStates

LEMMA ConnectKept == ASSUME ClientHolds, Connect PROVE ClientHolds'
BY DEF Connect, ClientHolds, LinkHolds, ClientTypes, Reconnecting, Disconnecting, ReadsOwn, Listed

LEMMA ConnectDialsKept == ASSUME ClientHolds, ConnectDials PROVE ClientHolds'
<1> USE DEF ConnectDials, Opens
<1>1. ClientTypes'
  <2>1. ClientTypes /\ calls' = calls /\ pending' = pending /\ raced' = raced
    BY DEF ClientHolds, LinkHolds
  <2>2. ws \in Nat /\ opened \in Nat /\ alive \subseteq Nat \ {0}
    BY <2>1 DEF ClientTypes
  <2>3. CASE ws' = ws /\ opened' = opened /\ alive' = alive
    BY <2>1, <2>2, <2>3 DEF ClientTypes
  <2>4. CASE ws' = opened + 1 /\ opened' = opened + 1 /\ alive' = alive \cup {opened + 1}
    BY <2>1, <2>2, <2>4 DEF ClientTypes
  <2> QED BY <2>3, <2>4
<1>2. Reconnecting'
  BY DEF ClientHolds, LinkHolds, Reconnecting
<1>3. Disconnecting'
  BY DEF ClientHolds, LinkHolds, Disconnecting, ClientTypes
<1>4. ReadsOwn'
  BY DEF ClientHolds, LinkHolds, ReadsOwn, ClientTypes, Reconnecting
<1>5. Listed'
  BY DEF ClientHolds, Listed
<1> QED BY <1>1, <1>2, <1>3, <1>4, <1>5 DEF ClientHolds, LinkHolds

LEMMA ConnectAuthKept == ASSUME ClientHolds, ConnectAuth PROVE ClientHolds'
<1> USE DEF ConnectAuth
<1>1. ClientTypes'
  <2>1. ClientTypes /\ calls' = calls /\ pending' = pending /\ raced' = raced /\ opened' = opened
    BY DEF ClientHolds, LinkHolds
  <2>2. ws \in Nat /\ opened \in Nat /\ alive \subseteq Nat \ {0}
    BY <2>1 DEF ClientTypes
  <2>3. CASE ws' = ws /\ alive' = alive
    BY <2>1, <2>2, <2>3 DEF ClientTypes
  <2>4. CASE ws' = 0 /\ alive' = alive \ {ws}
    BY <2>1, <2>2, <2>4 DEF ClientTypes
  <2> QED BY <2>3, <2>4
<1>2. Reconnecting'
  BY DEF ClientHolds, LinkHolds, Reconnecting
<1>3. Disconnecting'
  BY DEF ClientHolds, LinkHolds, Disconnecting, ClientTypes
<1>4. ReadsOwn'
  BY DEF ClientHolds, LinkHolds, ReadsOwn, ClientTypes, Reconnecting
<1>5. Listed'
  BY DEF ClientHolds, Listed
<1> QED BY <1>1, <1>2, <1>3, <1>4, <1>5 DEF ClientHolds, LinkHolds

LEMMA ConnectionEndsKept == ASSUME ClientHolds, NEW s \in alive, ConnectionEnds(s) PROVE ClientHolds'
BY DEF ConnectionEnds, ClientHolds, LinkHolds, ClientTypes, Reconnecting, Disconnecting, ReadsOwn, Listed

LEMMA ReaderEndsKept == ASSUME ClientHolds, ReaderEnds PROVE ClientHolds'
BY DEF ReaderEnds, ClientHolds, LinkHolds, ClientTypes, Reconnecting, Disconnecting, ReadsOwn, Listed

LEMMA ReconnectWakesKept == ASSUME ClientHolds, ReconnectWakes PROVE ClientHolds'
BY DEF ReconnectWakes, ClientHolds, LinkHolds, ClientTypes, Reconnecting, Disconnecting, ReadsOwn, Listed

\* An attempt that fails goes on, gives up, or had been overtaken by disconnect.
LEMMA AttemptFailsKept ==
  ASSUME ClientHolds, recon # "off", AttemptFails,
         ws' = ws, opened' = opened, alive' = alive, conn' = conn, closing' = closing,
         clean' = clean, reconnect' = reconnect, raced' = raced
  PROVE  ClientHolds'
<1>1. cstate = "reconnecting" /\ conn = "done" /\ reader' = reader
  BY DEF ClientHolds, LinkHolds, Reconnecting, AttemptFails
<1>2. CASE recon' = "sleeps" /\ cstate' = cstate /\ calls' = calls /\ pending' = pending
  BY <1>1, <1>2
     DEF ClientHolds, LinkHolds, ClientTypes, Reconnecting, Disconnecting, ReadsOwn, Listed
<1>3. CASE recon' = "off" /\ cstate' = "disconnected" /\ FailPending
  <2>1. Listed' /\ pending' = {} /\ calls' \in [Calls -> CallStates]
    BY <1>3, FailPendingKept
  <2> QED BY <1>1, <1>3, <2>1
          DEF ClientHolds, LinkHolds, ClientTypes, Reconnecting, Disconnecting, ReadsOwn
<1> QED BY <1>1, <1>2, <1>3 DEF AttemptFails

LEMMA ReconnectDialsKept == ASSUME ClientHolds, ReconnectDials PROVE ClientHolds'
<1>1. CASE Opens /\ recon' = "auth" /\ UNCHANGED <<cstate, attempt, reader, calls, pending>>
  BY <1>1 DEF ReconnectDials, Opens, ClientHolds, LinkHolds, ClientTypes, Reconnecting, Disconnecting,
              ReadsOwn, Listed
<1>2. CASE AttemptFails /\ UNCHANGED <<ws, opened, alive>>
  BY <1>2, AttemptFailsKept DEF ReconnectDials
<1> QED BY <1>1, <1>2 DEF ReconnectDials

LEMMA ReconnectAuthKept == ASSUME ClientHolds, ReconnectAuth PROVE ClientHolds'
<1>1. CASE /\ ws \in alive /\ recon' = "off" /\ cstate' = "connected" /\ reader' = ws
           /\ UNCHANGED <<attempt, calls, pending>>
  BY <1>1 DEF ReconnectAuth, ClientHolds, LinkHolds, ClientTypes, Reconnecting, Disconnecting, ReadsOwn,
              Listed
<1>2. CASE AttemptFails
  BY <1>2, AttemptFailsKept DEF ReconnectAuth
<1> QED BY <1>1, <1>2 DEF ReconnectAuth

LEMMA DisconnectKept == ASSUME ClientHolds, Disconnect PROVE ClientHolds'
<1> USE DEF Disconnect
<1>1. ClientTypes'
  BY DEF ClientHolds, LinkHolds, ClientTypes
<1>2. Reconnecting'
  BY DEF ClientHolds, LinkHolds, Reconnecting
<1>3. Disconnecting'
  BY DEF ClientHolds, LinkHolds, Disconnecting, ClientTypes
<1>4. ReadsOwn'
  BY DEF ClientHolds, LinkHolds, ReadsOwn, ClientTypes, Reconnecting
<1>5. Listed'
  BY DEF ClientHolds, Listed
<1> QED BY <1>1, <1>2, <1>3, <1>4, <1>5 DEF ClientHolds, LinkHolds

LEMMA DisconnectReaderKept == ASSUME ClientHolds, DisconnectReader PROVE ClientHolds'
BY DEF DisconnectReader, ClientHolds, LinkHolds, ClientTypes, Reconnecting, Disconnecting, ReadsOwn, Listed

LEMMA DisconnectEndsKept == ASSUME ClientHolds, DisconnectEnds PROVE ClientHolds'
<1>1. Listed' /\ pending' = {} /\ calls' \in [Calls -> CallStates]
  BY FailPendingKept DEF DisconnectEnds
<1> QED BY <1>1 DEF DisconnectEnds, ClientHolds, LinkHolds, ClientTypes, Reconnecting, Disconnecting,
                    ReadsOwn

LEMMA LinkNextKept == ASSUME ClientHolds, LinkNext PROVE ClientHolds'
BY ConnectDialsKept, ConnectAuthKept, ReaderEndsKept, ReconnectWakesKept, ReconnectDialsKept,
   ReconnectAuthKept, DisconnectReaderKept, DisconnectEndsKept, ConnectionEndsKept DEF LinkNext

\* A step of a call leaves the link alone and lists nobody after disconnect.
LEMMA CallStepKept ==
  ASSUME ClientHolds, UNCHANGED linkVars, calls' \in [Calls -> CallStates], pending' \subseteq Calls,
         pending' \subseteq pending \/ cstate = "connected", Listed'
  PROVE  ClientHolds'
BY DEF linkVars, ClientHolds, LinkHolds, ClientTypes, Reconnecting, Disconnecting, ReadsOwn

CallSteps(c) ==
  \/ SendRequest(c) \/ FrameSent(c) \/ ResponseReceived(c) \/ CallTimesOut(c) \/ CallCancelled(c)
  \/ EventReceived(c) \/ TakeEvent(c) \/ AgentGivesUp(c)

LEMMA CallStepsKept == ASSUME ClientHolds, NEW c \in Calls, CallSteps(c) PROVE ClientHolds'
<1> USE DEF ClientHolds, LinkHolds, ClientTypes, Listed, CallStates
<1>1. CASE SendRequest(c)
  BY <1>1, CallStepKept DEF SendRequest
<1>2. CASE FrameSent(c)
  BY <1>2, CallStepKept DEF FrameSent
<1>3. CASE ResponseReceived(c)
  BY <1>3, CallStepKept DEF ResponseReceived
<1>4. CASE CallTimesOut(c)
  BY <1>4, CallStepKept DEF CallTimesOut, CallEnds
<1>5. CASE CallCancelled(c)
  BY <1>5, CallStepKept DEF CallCancelled
<1>6. CASE EventReceived(c)
  BY <1>6, CallStepKept DEF EventReceived
<1>7. CASE TakeEvent(c)
  BY <1>7, CallStepKept DEF TakeEvent
<1>8. CASE AgentGivesUp(c)
  BY <1>8, CallStepKept DEF AgentGivesUp
<1> QED BY <1>1, <1>2, <1>3, <1>4, <1>5, <1>6, <1>7, <1>8 DEF CallSteps

LEMMA ClientStutters == ASSUME ClientHolds, UNCHANGED clientVars PROVE ClientHolds'
BY DEF clientVars, ClientHolds, LinkHolds, ClientTypes, Reconnecting, Disconnecting, ReadsOwn, Listed

LEMMA ClientKept == ClientHolds /\ [ClientNext]_clientVars => ClientHolds'
<1>1. ASSUME ClientHolds, Connect \/ Disconnect \/ LinkNext \/ UNCHANGED clientVars PROVE ClientHolds'
  BY <1>1, ConnectKept, DisconnectKept, LinkNextKept, ClientStutters
<1>2. ASSUME ClientHolds, NEW c \in Calls, CallSteps(c) PROVE ClientHolds'
  BY <1>2, CallStepsKept
<1> QED BY <1>1, <1>2 DEF ClientNext, CallSteps

LEMMA ClientIsInHand == ClientHolds => ClientInHand
BY DEF ClientHolds, LinkHolds, Reconnecting, Disconnecting, ReadsOwn, Listed, ClientInHand

\* A client told to disconnect stays disconnected with nobody left waiting, one
\* that says it is connected reads its connection, and who waits for a response is
\* listed for it, in every order of connects, breaks, reconnects and calls.
THEOREM ClientStaysInHand == ClientSpec => []ClientInHand
BY ClientStarts, ClientKept, ClientIsInHand, PTL DEF ClientSpec

-----------------------------------------------------------------------------
(* The master's end. *)

Holding == {"runs", "answers", "apologizes"}
Pending == {"spawned", "queued", "runs", "answers", "apologizes", "declines"}
Granted == {"queued", "runs", "answers", "apologizes", "answered"}
Steps == {"new"} \cup Pending \cup Ended

MasterTypes ==
  /\ stopper \in {"off", "cancels", "disconnects", "done"} /\ req \in [Messages -> Steps]
  /\ now \in Nat /\ when \in [Messages -> Nat] /\ \A m \in Messages : when[m] <= now

\* Every permit is free or held by a task that runs.
PermitsKept ==
  IsFiniteSet(Holders) /\ permits \in Nat /\ permits + Cardinality(Holders) = Permits

\* Who is in flight can be cancelled by stop, or arrived too late for it.
Flights ==
  /\ stopper \in {"off", "cancels"} => active = InFlight
  /\ stopper # "off" => InFlight \subseteq snapshot \cup late
  /\ stopper \in {"disconnects", "done"} => snapshot = {}

\* What was admitted within a window is still in the table the next is held against.
Fresh ==
  /\ IsFiniteSet(counted) /\ IsFiniteSet(Admitted)
  /\ \A x \in Admitted : now - when[x] < RateWindow => x \in counted
  /\ \A x \in Admitted : now - when[x] < DedupWindow => x \in recent

\* The inductive invariant of the master's end.
MasterHolds == MasterTypes /\ PermitsKept /\ Flights /\ Fresh /\ AdmissionBounded

LEMMA MasterStarts == MasterInit => MasterHolds
<1> SUFFICES ASSUME MasterInit PROVE MasterHolds
  OBVIOUS
<1>1. MasterTypes
  BY DEF MasterInit, MasterTypes, Steps
<1>2. Holders = {} /\ InFlight = {} /\ Admitted = {}
  BY DEF MasterInit, Holders, InFlight, Admitted
<1>3. IsFiniteSet({}) /\ Cardinality({}) = 0
  BY FS_EmptySet
<1>4. PermitsKept
  BY <1>2, <1>3, MasterAssumption DEF MasterInit, PermitsKept
<1>5. Flights
  BY <1>2 DEF MasterInit, Flights
<1>6. Fresh /\ AdmissionBounded
  BY <1>2, <1>3 DEF MasterInit, Fresh, AdmissionBounded
<1> QED BY <1>1, <1>4, <1>5, <1>6 DEF MasterHolds

\* One message goes on to the step `to'.
LEMMA MoveIs ==
  ASSUME req \in [Messages -> Steps], NEW m \in Messages, NEW to \in Steps,
         req' = [req EXCEPT ![m] = to]
  PROVE  /\ req' \in [Messages -> Steps]
         /\ to \in Holding => Holders' = Holders \cup {m}
         /\ to \notin Holding => Holders' = Holders \ {m}
         /\ to \in Pending => InFlight' = InFlight \cup {m}
         /\ to \notin Pending => InFlight' = InFlight \ {m}
         /\ to \in Granted /\ UserOf[m] # NoUser => Admitted' = Admitted \cup {m}
         /\ to \notin Granted \/ UserOf[m] = NoUser => Admitted' = Admitted \ {m}
<1>1. \A x \in Messages : req'[x] = IF x = m THEN to ELSE req[x]
  OBVIOUS
<1>2. \A x \in Messages : req[x] \in Steps
  OBVIOUS
<1>3. Holders = {x \in Messages : req[x] \in Holding} /\ Holders' = {x \in Messages : req'[x] \in Holding}
  BY DEF Holders, Holding
<1>4. \A a \in Steps : a \in Pending <=> a \notin Ended \cup {"new"}
  BY DEF Steps, Pending, Ended
<1>5. InFlight = {x \in Messages : req[x] \in Pending}
  BY <1>2, <1>4 DEF InFlight
<1>6. InFlight' = {x \in Messages : req'[x] \in Pending}
  BY <1>1, <1>2, <1>4 DEF InFlight
<1>7. /\ Admitted = {x \in Messages : UserOf[x] # NoUser /\ req[x] \in Granted}
      /\ Admitted' = {x \in Messages : UserOf[x] # NoUser /\ req'[x] \in Granted}
  BY DEF Admitted, Granted
<1>8. req' \in [Messages -> Steps]
  OBVIOUS
<1>9. (to \in Holding => Holders' = Holders \cup {m}) /\ (to \notin Holding => Holders' = Holders \ {m})
  BY <1>1, <1>3
<1>10. (to \in Pending => InFlight' = InFlight \cup {m}) /\ (to \notin Pending => InFlight' = InFlight \ {m})
  BY <1>1, <1>5, <1>6
<1>11. to \in Granted /\ UserOf[m] # NoUser => Admitted' = Admitted \cup {m}
  BY <1>1, <1>7
<1>12. to \notin Granted \/ UserOf[m] = NoUser => Admitted' = Admitted \ {m}
  BY <1>1, <1>7
<1> QED BY <1>8, <1>9, <1>10, <1>11, <1>12

LEMMA PermitsSame == ASSUME PermitsKept, Holders' = Holders, permits' = permits PROVE PermitsKept'
BY DEF PermitsKept

LEMMA FlightsSame ==
  ASSUME Flights, InFlight' = InFlight, active' = active, stopper' = stopper, snapshot' = snapshot,
         late' = late
  PROVE  Flights'
BY DEF Flights

\* Nobody is admitted: what is in flight may only leave.
LEMMA AdmissionSame ==
  ASSUME MasterTypes, Fresh, AdmissionBounded, Admitted' \subseteq Admitted,
         \A x \in Admitted' : when'[x] = when[x]
  PROVE  AdmissionBounded' /\ IsFiniteSet(Admitted')
<1>1. IsFiniteSet(Admitted) /\ IsFiniteSet(Admitted')
  BY FS_Subset DEF Fresh
<1>2. ASSUME NEW m \in Admitted'
      PROVE  Cardinality({x \in Admitted' : UserOf[x] = UserOf[m]
                            /\ when'[x] \in when'[m]..(when'[m] + RateWindow - 1)}) <= Rpm
  <2> DEFINE A == {x \in Admitted : UserOf[x] = UserOf[m] /\ when[x] \in when[m]..(when[m] + RateWindow - 1)}
             B == {x \in Admitted' : UserOf[x] = UserOf[m]
                     /\ when'[x] \in when'[m]..(when'[m] + RateWindow - 1)}
  <2>1. B \subseteq A /\ A \subseteq Admitted
    OBVIOUS
  <2>2. Cardinality(A) <= Rpm
    BY DEF AdmissionBounded
  <2> HIDE DEF A, B
  <2>3. IsFiniteSet(A)
    BY <1>1, <2>1, FS_Subset
  <2>4. Cardinality(B) <= Cardinality(A) /\ Cardinality(A) \in Nat /\ Cardinality(B) \in Nat
    BY <2>1, <2>3, FS_Subset, FS_CardinalityType
  <2>5. Cardinality(B) <= Rpm
    BY <2>2, <2>4, MasterAssumption
  <2> QED BY <2>5 DEF B
<1>3. \A m, x \in Admitted' : m # x /\ Same(x, m) /\ when'[x] >= when'[m] => when'[x] - when'[m] >= DedupWindow
  BY DEF AdmissionBounded
<1> QED BY <1>1, <1>2, <1>3 DEF AdmissionBounded, Same

\* Nothing of the admission changes, but that time may pass.
LEMMA AdmissionKept ==
  ASSUME MasterTypes, Fresh, AdmissionBounded, Admitted' \subseteq Admitted,
         when' = when, counted' = counted, recent' = recent, now' \in Nat, now' >= now
  PROVE  Fresh' /\ AdmissionBounded'
<1>1. AdmissionBounded' /\ IsFiniteSet(Admitted')
  BY AdmissionSame
<1>2. \A x \in Admitted : x \in Messages
  BY DEF Admitted
<1>3. \A x \in Admitted' : when[x] \in Nat
  BY <1>2 DEF MasterTypes
<1>4. /\ \A x \in Admitted' : now' - when'[x] < RateWindow => x \in counted'
      /\ \A x \in Admitted' : now' - when'[x] < DedupWindow => x \in recent'
  BY <1>3, MasterAssumption DEF MasterTypes, Fresh
<1> QED BY <1>1, <1>4 DEF Fresh

\* What is fresh stays in the table of the rate, which takes in the message it lets pass.
LEMMA RateTableKept ==
  ASSUME Fresh, NEW m \in Messages
  PROVE  /\ IsFiniteSet(RateChecked(m))
         /\ \A x \in Admitted : now - when[x] < RateWindow => x \in RateChecked(m)
         /\ UserOf[m] # NoUser /\ InRate(m) => m \in RateChecked(m)
<1> DEFINE F == Pruned(OfUser(m), RateWindow)
<1>1. F \subseteq counted /\ IsFiniteSet(counted)
  BY DEF Fresh, Pruned, OfUser
<1>2. RateChecked(m) \subseteq counted \cup {m}
  BY <1>1 DEF RateChecked
<1>3. IsFiniteSet(counted \cup {m})
  BY <1>1, FS_AddElement
<1>4. IsFiniteSet(RateChecked(m))
  BY <1>2, <1>3, FS_Subset
<1>5. ASSUME NEW x \in Admitted, now - when[x] < RateWindow PROVE x \in RateChecked(m)
  <2>1. x \in counted
    BY <1>5 DEF Fresh
  <2>2. x \in OfUser(m) => x \in Pruned(OfUser(m), RateWindow)
    BY <1>5 DEF Pruned
  <2> QED BY <2>1, <2>2 DEF RateChecked
<1>6. UserOf[m] # NoUser /\ InRate(m) => m \in RateChecked(m)
  BY DEF RateChecked
<1> QED BY <1>4, <1>5, <1>6

\* So does that of the repetitions, but for what the message is no repetition of.
LEMMA RepetitionTableKept ==
  ASSUME Fresh, NEW m \in Messages
  PROVE  /\ \A x \in Admitted : now - when[x] < DedupWindow => x \in DedupChecked(m)
         /\ UserOf[m] # NoUser /\ ~Repeats(m) => m \in DedupChecked(m)
<1> DEFINE kept == IF Cardinality(recent) > RecentCap THEN Pruned(recent, DedupWindow) ELSE recent
<1>1. \A x \in Admitted : now - when[x] < DedupWindow => x \in recent /\ x \in kept
  BY DEF Fresh, Pruned
<1>2. DedupChecked(m) = IF UserOf[m] = NoUser THEN recent
                        ELSE IF Repeats(m) THEN kept
                        ELSE {x \in kept : ~Same(x, m)} \cup {m}
  BY DEF DedupChecked
<1> HIDE DEF kept
<1>3. ASSUME NEW x \in Admitted, now - when[x] < DedupWindow PROVE x \in DedupChecked(m)
  <2>1. UserOf[m] # NoUser /\ ~Repeats(m) => ~Same(x, m)
    BY <1>1, <1>3 DEF Repeats
  <2> QED BY <1>1, <1>2, <1>3, <2>1
<1>4. UserOf[m] # NoUser /\ ~Repeats(m) => m \in DedupChecked(m)
  BY <1>2
<1> QED BY <1>3, <1>4

\* The message that the rate and the repetitions let pass: its user has room in
\* every window it falls into.
LEMMA RoomForOne ==
  ASSUME MasterTypes, Fresh, AdmissionBounded, NEW m \in Messages, m \notin Admitted,
         UserOf[m] # NoUser, InRate(m), Admitted' = Admitted \cup {m},
         when' = [when EXCEPT ![m] = now],
         NEW c \in Admitted'
  PROVE  Cardinality({x \in Admitted' : UserOf[x] = UserOf[c]
                        /\ when'[x] \in when'[c]..(when'[c] + RateWindow - 1)}) <= Rpm
<1> DEFINE W == {x \in Admitted' : UserOf[x] = UserOf[c]
                   /\ when'[x] \in when'[c]..(when'[c] + RateWindow - 1)}
           V == {x \in Admitted : UserOf[x] = UserOf[c] /\ when[x] \in when[c]..(when[c] + RateWindow - 1)}
           F == Pruned(OfUser(m), RateWindow)
<1>0. Rpm \in Nat \ {0} /\ RateWindow \in Nat /\ now \in Nat
  BY MasterAssumption DEF MasterTypes
<1>1. \A x \in Admitted' : x \in Messages /\ when'[x] \in Nat /\ when'[x] <= now
                           /\ when'[x] = (IF x = m THEN now ELSE when[x])
  <2>1. \A x \in Admitted : x \in Messages
    BY DEF Admitted
  <2> QED BY <2>1 DEF MasterTypes
<1>2. IsFiniteSet(F) /\ Cardinality(F) < Rpm
  <2>1. F \subseteq counted
    BY DEF Pruned, OfUser
  <2> QED BY <2>1, FS_Subset DEF Fresh, InRate
<1>3. CASE m \in W
  <2>1. ASSUME NEW x \in W, x # m PROVE x \in F
    <3>1. x \in Admitted /\ UserOf[x] = UserOf[m] /\ UserOf[c] = UserOf[m]
      BY <1>3, <2>1
    <3>2. now - when[x] < RateWindow
      <4>1. when'[m] = now /\ when'[x] = when[x] /\ when'[c] \in Nat /\ when'[x] \in Nat
        BY <1>1, <1>3, <2>1
      <4>2. now <= when'[c] + RateWindow - 1 /\ when'[x] >= when'[c]
        BY <1>3, <4>1
      <4> QED BY <1>0, <4>1, <4>2
    <3>3. x \in counted
      BY <3>1, <3>2 DEF Fresh
    <3> QED BY <3>1, <3>2, <3>3 DEF Pruned, OfUser
  <2>2. W \subseteq F \cup {m}
    BY <2>1
  <2> HIDE DEF W, F
  <2>3. IsFiniteSet(F \cup {m}) /\ Cardinality(F \cup {m}) <= Rpm
    <3>1. Cardinality(F) \in Nat
      BY <1>2, FS_CardinalityType
    <3>2. IsFiniteSet(F \cup {m}) /\ (Cardinality(F \cup {m}) = Cardinality(F)
                                      \/ Cardinality(F \cup {m}) = Cardinality(F) + 1)
      BY <1>2, FS_AddElement
    <3> QED BY <1>0, <1>2, <3>1, <3>2
  <2>4. Cardinality(W) <= Cardinality(F \cup {m})
    BY <2>2, <2>3, FS_Subset
  <2>5. Cardinality(W) \in Nat /\ Cardinality(F \cup {m}) \in Nat
    BY <2>2, <2>3, FS_Subset, FS_CardinalityType
  <2>6. Cardinality(W) <= Rpm
    BY <1>0, <2>3, <2>4, <2>5
  <2> QED BY <2>6 DEF W
<1>4. CASE m \notin W /\ c # m
  <2>1. c \in Admitted /\ when'[c] = when[c] /\ \A x \in Admitted : x # m => when'[x] = when[x]
    BY <1>1, <1>4
  <2>2. W = V
    BY <1>4, <2>1
  <2>3. Cardinality(V) <= Rpm
    BY <2>1 DEF AdmissionBounded
  <2> QED BY <2>2, <2>3
<1>5. CASE m \notin W /\ c = m
  <2>1. when'[m] = now
    BY <1>1
  <2>2. RateWindow = 0
    BY <1>0, <1>5, <2>1
  <2>3. W = {}
    BY <1>0, <1>1, <1>5, <2>1, <2>2
  <2>4. Cardinality(W) = 0
    BY <2>3, FS_EmptySet
  <2> HIDE DEF W
  <2>5. Cardinality(W) <= Rpm
    BY <1>0, <2>4
  <2> QED BY <2>5 DEF W
<1> QED BY <1>3, <1>4, <1>5

\* _handle_inbound_request: the limits hold for one more message.
LEMMA AdmissionGrows ==
  ASSUME MasterTypes, Fresh, AdmissionBounded, NEW m \in Messages, m \notin Admitted,
         UserOf[m] # NoUser, InRate(m), ~Repeats(m), Admitted' = Admitted \cup {m},
         when' = [when EXCEPT ![m] = now], counted' = RateChecked(m), recent' = DedupChecked(m), now' = now
  PROVE  Fresh' /\ AdmissionBounded'
<1>0. now \in Nat /\ DedupWindow \in Nat /\ RateWindow \in Nat
  BY MasterAssumption DEF MasterTypes
<1>1. \A x \in Admitted' : x \in Messages /\ when'[x] \in Nat /\ when'[x] <= now
                           /\ when'[x] = (IF x = m THEN now ELSE when[x])
  <2>1. \A x \in Admitted : x \in Messages
    BY DEF Admitted
  <2> QED BY <2>1 DEF MasterTypes
<1>2. ASSUME NEW x \in Admitted, x # m, Same(x, m) PROVE now - when'[x] >= DedupWindow
  <2>1. ~(x \in recent /\ now - when[x] < DedupWindow)
    BY <1>2 DEF Repeats
  <2>2. ~(now - when[x] < DedupWindow)
    BY <2>1 DEF Fresh
  <2>3. when[x] \in Nat /\ when'[x] = when[x]
    BY <1>1, <1>2
  <2> QED BY <1>0, <2>2, <2>3
<1>3. ASSUME NEW a \in Admitted', NEW x \in Admitted', a # x, Same(x, a), when'[x] >= when'[a]
      PROVE  when'[x] - when'[a] >= DedupWindow
  <2>1. CASE a # m /\ x # m
    <3>1. a \in Admitted /\ x \in Admitted /\ when'[x] = when[x] /\ when'[a] = when[a]
      BY <1>1, <2>1
    <3> QED BY <1>3, <3>1 DEF AdmissionBounded
  <2>2. CASE x = m
    <3>1. a \in Admitted /\ a # m /\ Same(a, m) /\ when'[m] = now
      BY <1>1, <1>3, <2>2 DEF Same
    <3> QED BY <1>2, <2>2, <3>1
  <2>3. CASE a = m
    <3>1. x \in Admitted /\ x # m /\ Same(x, m) /\ when'[m] = now /\ when'[x] \in Nat /\ when'[x] <= now
      BY <1>1, <1>3, <2>3
    <3>2. now - when'[x] >= DedupWindow
      BY <1>2, <3>1
    <3> QED BY <1>0, <1>3, <2>3, <3>1, <3>2
  <2> QED BY <2>1, <2>2, <2>3
<1>4. \A c \in Admitted' :
        Cardinality({x \in Admitted' : UserOf[x] = UserOf[c]
                       /\ when'[x] \in when'[c]..(when'[c] + RateWindow - 1)}) <= Rpm
  BY RoomForOne
<1>5. AdmissionBounded'
  BY <1>3, <1>4 DEF AdmissionBounded, Same
<1>6. IsFiniteSet(counted') /\ IsFiniteSet(Admitted')
  BY RateTableKept, FS_AddElement DEF Fresh
<1>7. ASSUME NEW x \in Admitted', now' - when'[x] < RateWindow PROVE x \in counted'
  BY <1>1, <1>7, RateTableKept
<1>8. ASSUME NEW x \in Admitted', now' - when'[x] < DedupWindow PROVE x \in recent'
  BY <1>1, <1>8, RepetitionTableKept
<1> QED BY <1>5, <1>6, <1>7, <1>8 DEF Fresh

\* ... and for none.
LEMMA AdmissionDenied ==
  ASSUME MasterTypes, Fresh, AdmissionBounded, NEW m \in Messages, m \notin Admitted,
         Admitted' = Admitted, when' = [when EXCEPT ![m] = now], counted' = RateChecked(m),
         recent' \in {recent, DedupChecked(m)}, now' = now
  PROVE  Fresh' /\ AdmissionBounded'
<1>1. \A x \in Admitted : x # m /\ when'[x] = when[x]
  BY DEF MasterTypes, Admitted
<1>2. AdmissionBounded' /\ IsFiniteSet(Admitted')
  BY <1>1, AdmissionSame
<1>3. IsFiniteSet(counted') /\ \A x \in Admitted' : now' - when'[x] < RateWindow => x \in counted'
  BY <1>1, RateTableKept
<1>4. \A x \in Admitted' : now' - when'[x] < DedupWindow => x \in recent'
  BY <1>1, RepetitionTableKept DEF Fresh
<1> QED BY <1>2, <1>3, <1>4 DEF Fresh

LEMMA HandleKept == ASSUME MasterHolds, NEW m \in Messages, Handle(m) PROVE MasterHolds'
<1>0. MasterTypes /\ PermitsKept /\ Flights /\ Fresh /\ AdmissionBounded
  BY DEF MasterHolds
<1> DEFINE to == req'[m]
<1>1. /\ req[m] = "spawned" /\ req \in [Messages -> Steps]
      /\ UNCHANGED <<stopper, snapshot, active, permits, now, late>>
  BY <1>0 DEF Handle, MasterTypes
<1>2. to \in {"queued", "declines"} /\ req' = [req EXCEPT ![m] = to]
  BY <1>1 DEF Handle
<1>3. to \in Steps /\ to \in Pending /\ to \notin Holding
  BY <1>2 DEF Steps, Pending, Holding
<1>4. m \notin Holders /\ m \in InFlight /\ m \notin Admitted
  BY <1>1 DEF Holders, InFlight, Admitted, Ended
<1>5. req' \in [Messages -> Steps] /\ Holders' = Holders /\ InFlight' = InFlight
  <2> HIDE DEF to
  <2>1. req' \in [Messages -> Steps] /\ Holders' = Holders \ {m} /\ InFlight' = InFlight \cup {m}
    BY <1>1, <1>2, <1>3, MoveIs
  <2> QED BY <1>4, <2>1
<1>6. PermitsKept' /\ Flights'
  BY <1>0, <1>1, <1>5, PermitsSame, FlightsSame
<1>7. to = "declines" \/ UserOf[m] = NoUser => Admitted' = Admitted
  <2>1. to = "declines" => to \notin Granted
    BY DEF Granted
  <2> HIDE DEF to
  <2>2. to \notin Granted \/ UserOf[m] = NoUser => Admitted' = Admitted \ {m}
    BY <1>1, <1>2, <1>3, MoveIs
  <2> QED BY <1>4, <2>1, <2>2
<1>8. to = "queued" /\ UserOf[m] # NoUser => Admitted' = Admitted \cup {m}
  <2>1. to = "queued" => to \in Granted
    BY DEF Granted
  <2> HIDE DEF to
  <2> QED BY <1>1, <1>2, <1>3, <2>1, MoveIs
<1>9. CASE TaskOf[m] = Ping
  <2>1. UNCHANGED <<when, counted, recent>> /\ to = "declines"
    BY <1>1, <1>9 DEF Handle
  <2>2. now' \in Nat /\ now' >= now
    BY <1>0, <1>1 DEF MasterTypes
  <2>3. Fresh' /\ AdmissionBounded'
    <3> HIDE DEF to
    <3> QED BY <1>0, <1>7, <2>1, <2>2, AdmissionKept
  <2>4. MasterTypes'
    BY <1>0, <1>1, <1>5, <2>1 DEF MasterTypes
  <2> QED BY <1>6, <2>3, <2>4 DEF MasterHolds
<1>10. CASE TaskOf[m] # Ping
  <2>1. /\ when' = [when EXCEPT ![m] = now] /\ counted' = RateChecked(m)
        /\ recent' = IF InRate(m) THEN DedupChecked(m) ELSE recent
        /\ to = (IF InRate(m) /\ ~Repeats(m) THEN "queued" ELSE "declines")
    BY <1>1, <1>10 DEF Handle
  <2> HIDE DEF to
  <2>2. now' = now
    BY <1>1
  <2>3. recent' \in {recent, DedupChecked(m)}
    BY <2>1
  <2>4. Fresh' /\ AdmissionBounded'
    <3>1. CASE to = "declines" \/ UserOf[m] = NoUser
      <4>1. Admitted' = Admitted
        BY <1>7, <3>1
      <4> QED BY <1>0, <1>4, <2>1, <2>2, <2>3, <4>1, AdmissionDenied
    <3>2. CASE to = "queued" /\ UserOf[m] # NoUser
      <4>1. InRate(m) /\ ~Repeats(m) /\ recent' = DedupChecked(m)
        BY <2>1, <3>2
      <4>2. Admitted' = Admitted \cup {m}
        BY <1>8, <3>2
      <4> QED BY <1>0, <1>4, <2>1, <2>2, <3>2, <4>1, <4>2, AdmissionGrows
    <3> QED BY <1>2, <3>1, <3>2
  <2>5. MasterTypes'
    BY <1>0, <1>1, <1>5, <2>1 DEF MasterTypes
  <2> QED BY <1>6, <2>4, <2>5 DEF MasterHolds
<1> QED BY <1>9, <1>10

\* The steps that leave time and the limits' tables alone.
LEMMA RestKept ==
  ASSUME MasterHolds, req' \in [Messages -> Steps], Admitted' \subseteq Admitted,
         stopper' \in {"off", "cancels", "disconnects", "done"},
         UNCHANGED <<now, when, counted, recent>>, PermitsKept', Flights'
  PROVE  MasterHolds'
<1>1. MasterTypes /\ Fresh /\ AdmissionBounded /\ now' \in Nat /\ now' >= now
  BY DEF MasterHolds, MasterTypes
<1>2. Fresh' /\ AdmissionBounded'
  BY <1>1, AdmissionKept
<1>3. MasterTypes'
  BY <1>1 DEF MasterTypes
<1> QED BY <1>2, <1>3 DEF MasterHolds

LEMMA ArrivesKept == ASSUME MasterHolds, NEW m \in Messages, Arrives(m) PROVE MasterHolds'
<1>0. MasterTypes /\ PermitsKept /\ Flights
  BY DEF MasterHolds
<1>1. req \in [Messages -> Steps] /\ req[m] = "new" /\ req' = [req EXCEPT ![m] = "spawned"]
  BY <1>0 DEF MasterTypes, Arrives
<1>2. "spawned" \in Steps /\ "spawned" \in Pending /\ "spawned" \notin Holding /\ "spawned" \notin Granted
  BY DEF Steps, Pending, Holding, Granted
<1>3. /\ req' \in [Messages -> Steps] /\ Holders' = Holders \ {m} /\ InFlight' = InFlight \cup {m}
      /\ Admitted' = Admitted \ {m}
  BY <1>1, <1>2, MoveIs
<1>4. m \notin Holders
  BY <1>1 DEF Holders
<1>5. PermitsKept'
  BY <1>0, <1>3, <1>4, PermitsSame DEF Arrives
<1>6. Flights'
  BY <1>0, <1>3 DEF Arrives, Flights, MasterTypes
<1> QED BY <1>0, <1>3, <1>5, <1>6, RestKept DEF Arrives, MasterTypes

LEMMA AcquireKept == ASSUME MasterHolds, NEW m \in Messages, Acquire(m) PROVE MasterHolds'
<1>0. MasterTypes /\ PermitsKept /\ Flights
  BY DEF MasterHolds
<1>1. req \in [Messages -> Steps] /\ req[m] = "queued" /\ req' = [req EXCEPT ![m] = "runs"]
  BY <1>0 DEF MasterTypes, Acquire
<1>2. "runs" \in Steps /\ "runs" \in Pending /\ "runs" \in Holding /\ "runs" \in Granted
  BY DEF Steps, Pending, Holding, Granted
<1>3. /\ req' \in [Messages -> Steps] /\ Holders' = Holders \cup {m} /\ InFlight' = InFlight \cup {m}
      /\ UserOf[m] # NoUser => Admitted' = Admitted \cup {m}
      /\ UserOf[m] = NoUser => Admitted' = Admitted \ {m}
  BY <1>1, <1>2, MoveIs
<1>4. m \notin Holders /\ m \in InFlight /\ (UserOf[m] # NoUser => m \in Admitted)
  BY <1>1 DEF Holders, InFlight, Admitted, Ended
<1>5. PermitsKept'
  <2>1. IsFiniteSet(Holders \cup {m}) /\ Cardinality(Holders \cup {m}) = Cardinality(Holders) + 1
    BY <1>0, <1>4, FS_AddElement DEF PermitsKept
  <2>2. permits > 0 /\ permits' = permits - 1
    BY DEF Acquire
  <2>3. Cardinality(Holders) \in Nat
    BY <1>0, FS_CardinalityType DEF PermitsKept
  <2> QED BY <1>0, <1>3, <2>1, <2>2, <2>3 DEF PermitsKept
<1>6. InFlight' = InFlight /\ Admitted' \subseteq Admitted
  BY <1>3, <1>4
<1>7. Flights'
  BY <1>0, <1>6, FlightsSame DEF Acquire
<1> QED BY <1>0, <1>3, <1>5, <1>6, <1>7, RestKept DEF Acquire, MasterTypes

\* A task that keeps its permit.
LEMMA StaysKept ==
  ASSUME MasterHolds, NEW m \in Messages, NEW to \in {"answers", "apologizes"}, req[m] \in {"runs", "answers"},
         req' = [req EXCEPT ![m] = to],
         UNCHANGED <<stopper, snapshot, active, permits, now, when, counted, recent, late>>
  PROVE  MasterHolds'
<1>0. MasterTypes /\ PermitsKept /\ Flights
  BY DEF MasterHolds
<1>1. req \in [Messages -> Steps]
  BY <1>0 DEF MasterTypes
<1>2. to \in Steps /\ to \in Pending /\ to \in Holding /\ to \in Granted
  BY DEF Steps, Pending, Holding, Granted
<1>3. /\ req' \in [Messages -> Steps] /\ Holders' = Holders \cup {m} /\ InFlight' = InFlight \cup {m}
      /\ UserOf[m] # NoUser => Admitted' = Admitted \cup {m}
      /\ UserOf[m] = NoUser => Admitted' = Admitted \ {m}
  BY <1>1, <1>2, MoveIs
<1>4. m \in Holders /\ m \in InFlight /\ (UserOf[m] # NoUser => m \in Admitted)
  BY DEF Holders, InFlight, Admitted, Ended
<1>5. Holders' = Holders /\ InFlight' = InFlight /\ Admitted' \subseteq Admitted
  BY <1>3, <1>4
<1>6. PermitsKept' /\ Flights'
  BY <1>0, <1>5, PermitsSame, FlightsSame
<1> QED BY <1>0, <1>3, <1>5, <1>6, RestKept DEF MasterTypes

\* A request that ends: its permit, if it held one, is free.
LEMMA LeavesKept ==
  ASSUME MasterHolds, NEW m \in InFlight, NEW end \in Ended, Leaves(m, end),
         snapshot' \in {snapshot, snapshot \ {m}},
         UNCHANGED <<stopper, now, when, counted, recent, late>>,
         end \in Granted => req[m] \in Granted
  PROVE  MasterHolds'
<1>0. MasterTypes /\ PermitsKept /\ Flights
  BY DEF MasterHolds
<1>1. req \in [Messages -> Steps] /\ m \in Messages /\ req' = [req EXCEPT ![m] = end]
  BY <1>0 DEF MasterTypes, Leaves, InFlight
<1>2. end \in Steps /\ end \notin Pending /\ end \notin Holding
  BY DEF Steps, Pending, Holding, Ended
<1>3. /\ req' \in [Messages -> Steps] /\ Holders' = Holders \ {m} /\ InFlight' = InFlight \ {m}
      /\ end \in Granted /\ UserOf[m] # NoUser => Admitted' = Admitted \cup {m}
      /\ end \notin Granted \/ UserOf[m] = NoUser => Admitted' = Admitted \ {m}
  BY <1>1, <1>2, MoveIs
<1>4. Admitted' \subseteq Admitted
  <2>1. end \in Granted /\ UserOf[m] # NoUser => m \in Admitted
    BY <1>1 DEF Admitted, Granted
  <2> QED BY <1>3, <2>1
<1>5. PermitsKept'
  <2>1. permits' = IF m \in Holders THEN permits + 1 ELSE permits
    BY DEF Leaves, Released
  <2>2. CASE m \in Holders
    <3>1. IsFiniteSet(Holders \ {m}) /\ Cardinality(Holders \ {m}) = Cardinality(Holders) - 1
      BY <1>0, <2>2, FS_RemoveElement DEF PermitsKept
    <3>2. Cardinality(Holders) \in Nat
      BY <1>0, FS_CardinalityType DEF PermitsKept
    <3> QED BY <1>0, <1>3, <2>1, <2>2, <3>1, <3>2 DEF PermitsKept
  <2>3. CASE m \notin Holders
    BY <1>0, <1>3, <2>1, <2>3, PermitsSame
  <2> QED BY <2>2, <2>3
<1>6. Flights'
  <2>1. active' = active \ {m} /\ stopper' = stopper /\ late' = late
    BY DEF Leaves
  <2> QED BY <1>0, <1>3, <2>1 DEF Flights
<1> QED BY <1>0, <1>3, <1>4, <1>5, <1>6, RestKept DEF MasterTypes

LEMMA AnswerKept == ASSUME MasterHolds, NEW m \in Messages, Answer(m) PROVE MasterHolds'
<1>1. /\ req[m] \in {"answers", "apologizes", "declines"}
      /\ UNCHANGED <<stopper, snapshot, now, when, counted, recent, late>>
  BY DEF Answer
<1>2. m \in InFlight
  BY <1>1 DEF InFlight, Ended
<1>3. CASE Leaves(m, IF req[m] = "declines" THEN "declined" ELSE "answered")
  <2> DEFINE end == IF req[m] = "declines" THEN "declined" ELSE "answered"
  <2>1. end \in Ended /\ (end \in Granted => req[m] \in Granted) /\ Leaves(m, end)
    BY <1>1, <1>3 DEF Ended, Granted
  <2> HIDE DEF end
  <2> QED BY <1>1, <1>2, <2>1, LeavesKept
<1>4. CASE req[m] = "answers" /\ req' = [req EXCEPT ![m] = "apologizes"] /\ UNCHANGED <<permits, active>>
  BY <1>1, <1>4, StaysKept
<1>5. CASE Leaves(m, "lost")
  <2>1. "lost" \in Ended /\ "lost" \notin Granted
    BY DEF Ended, Granted
  <2> QED BY <1>1, <1>2, <1>5, <2>1, LeavesKept
<1> QED BY <1>3, <1>4, <1>5 DEF Answer

LEMMA StopCancelsKept == ASSUME MasterHolds, NEW m \in Messages, StopCancels(m) PROVE MasterHolds'
<1>1. snapshot' = snapshot \ {m} /\ UNCHANGED <<stopper, now, when, counted, recent, late>>
  BY DEF StopCancels
<1>2. CASE m \in InFlight
  <2>1. Leaves(m, "cancelled") /\ "cancelled" \in Ended /\ "cancelled" \notin Granted
    BY <1>2 DEF StopCancels, Ended, Granted
  <2> QED BY <1>1, <1>2, <2>1, LeavesKept
<1>3. CASE m \notin InFlight
  <2>1. UNCHANGED <<req, permits, active>>
    BY <1>3 DEF StopCancels
  <2>2. Holders' = Holders /\ InFlight' = InFlight /\ Admitted' = Admitted
    BY <2>1 DEF Holders, InFlight, Admitted
  <2>3. PermitsKept'
    BY <2>1, <2>2, PermitsSame DEF MasterHolds
  <2>4. Flights'
    BY <1>1, <1>3, <2>1, <2>2 DEF MasterHolds, Flights
  <2> QED BY <1>1, <2>1, <2>2, <2>3, <2>4, RestKept DEF MasterHolds, MasterTypes
<1> QED BY <1>2, <1>3

\* The steps of start and stop that touch no request.
LEMMA StopMasterKept == ASSUME MasterHolds, StopMaster PROVE MasterHolds'
<1>1. UNCHANGED <<req, permits, active, now, when, counted, recent, late>>
  BY DEF StopMaster
<1>2. Holders' = Holders /\ InFlight' = InFlight /\ Admitted' = Admitted
  BY <1>1 DEF Holders, InFlight, Admitted
<1>3. PermitsKept'
  BY <1>1, <1>2, PermitsSame DEF MasterHolds
<1>4. Flights'
  BY <1>1, <1>2 DEF StopMaster, MasterHolds, Flights
<1>5. stopper' = "cancels"
  BY DEF StopMaster
<1> QED BY <1>1, <1>2, <1>3, <1>4, <1>5, RestKept DEF MasterHolds, MasterTypes

LEMMA StopDisconnectsKept == ASSUME MasterHolds, StopDisconnects PROVE MasterHolds'
<1>1. UNCHANGED <<req, permits, now, when, counted, recent, late, snapshot>> /\ stopper' = "disconnects"
  BY DEF StopDisconnects
<1>2. Holders' = Holders /\ InFlight' = InFlight /\ Admitted' = Admitted
  BY <1>1 DEF Holders, InFlight, Admitted
<1>3. PermitsKept'
  BY <1>1, <1>2, PermitsSame DEF MasterHolds
<1>4. Flights'
  BY <1>1, <1>2 DEF StopDisconnects, MasterHolds, Flights
<1> QED BY <1>1, <1>2, <1>3, <1>4, RestKept DEF MasterHolds, MasterTypes

LEMMA StopEndsKept == ASSUME MasterHolds, StopEnds PROVE MasterHolds'
<1>1. UNCHANGED <<req, permits, now, when, counted, recent, late, snapshot>> /\ stopper' = "done"
  BY DEF StopEnds
<1>2. Holders' = Holders /\ InFlight' = InFlight /\ Admitted' = Admitted
  BY <1>1 DEF Holders, InFlight, Admitted
<1>3. PermitsKept'
  BY <1>1, <1>2, PermitsSame DEF MasterHolds
<1>4. Flights'
  BY <1>1, <1>2 DEF StopEnds, MasterHolds, Flights
<1> QED BY <1>1, <1>2, <1>3, <1>4, RestKept DEF MasterHolds, MasterTypes

\* Time passes, or none of this changes.
LEMMA TimeKept ==
  ASSUME MasterHolds, UNCHANGED <<stopper, snapshot, req, active, permits, when, counted, recent, late>>,
         now' \in {now, now + 1}
  PROVE  MasterHolds'
<1>1. Holders' = Holders /\ InFlight' = InFlight /\ Admitted' = Admitted
  BY DEF Holders, InFlight, Admitted
<1>2. PermitsKept' /\ Flights'
  BY <1>1, PermitsSame, FlightsSame DEF MasterHolds
<1>3. now' \in Nat /\ now' >= now
  BY DEF MasterHolds, MasterTypes
<1>4. Fresh' /\ AdmissionBounded'
  BY <1>1, <1>3, AdmissionKept DEF MasterHolds
<1>5. MasterTypes'
  <2>1. \A m \in Messages : when[m] \in Nat /\ when[m] <= now
    BY DEF MasterHolds, MasterTypes
  <2> QED BY <1>3, <2>1 DEF MasterHolds, MasterTypes
<1> QED BY <1>2, <1>4, <1>5 DEF MasterHolds

-----------------------------------------------------------------------------
(* Both ends of the composition, and a connection that stands. *)

\* What a step of the composition does to the master.
MasterSteps ==
  \/ StopMaster \/ StopDisconnects \/ StopEnds
  \/ UNCHANGED <<stopper, snapshot, req, active, permits, when, counted, recent, late>> /\ now' \in {now, now + 1}
  \/ \E m \in Messages : Arrives(m) \/ Handle(m) \/ Acquire(m) \/ TaskEnds(m) \/ Answer(m) \/ StopCancels(m)

LEMMA MasterKept == ASSUME MasterHolds, MasterSteps PROVE MasterHolds'
<1>1. ASSUME StopMaster \/ StopDisconnects \/ StopEnds PROVE MasterHolds'
  BY <1>1, StopMasterKept, StopDisconnectsKept, StopEndsKept
<1>2. ASSUME UNCHANGED <<stopper, snapshot, req, active, permits, when, counted, recent, late>>,
             now' \in {now, now + 1}
      PROVE  MasterHolds'
  BY <1>2, TimeKept
<1>3. ASSUME NEW m \in Messages, TaskEnds(m) PROVE MasterHolds'
  BY <1>3, StaysKept DEF TaskEnds
<1>4. ASSUME NEW m \in Messages, Arrives(m) \/ Handle(m) \/ Acquire(m) \/ Answer(m) \/ StopCancels(m)
      PROVE  MasterHolds'
  BY <1>4, ArrivesKept, HandleKept, AcquireKept, AnswerKept, StopCancelsKept
<1> QED BY <1>1, <1>2, <1>3, <1>4 DEF MasterSteps

LEMMA HandlesAsMaster ==
  ASSUME NEW m \in Messages, Arrives(m) \/ Handle(m) \/ Acquire(m) \/ TaskEnds(m) \/ Answer(m) \/ StopCancels(m)
  PROVE  MasterSteps /\ UNCHANGED clientVars
<1>1. UNCHANGED clientVars
  BY DEF Arrives, Handle, Acquire, TaskEnds, Answer, StopCancels
<1> QED BY <1>1 DEF MasterSteps

LEMMA RunsAsMaster ==
  ASSUME StartMaster \/ StartLooks \/ StopMaster \/ StopDisconnects \/ StopEnds \/ MasterTick
  PROVE  MasterSteps /\ [ClientNext]_clientVars
<1>1. CASE StartMaster
  <2>1. Connect /\ UNCHANGED <<stopper, snapshot, req, active, permits, now, when, counted, recent, late>>
    BY <1>1 DEF StartMaster
  <2> QED BY <2>1 DEF MasterSteps, ClientNext
<1>2. CASE StartLooks
  BY <1>2 DEF StartLooks, MasterSteps
<1>3. CASE StopMaster
  BY <1>3 DEF StopMaster, MasterSteps
<1>4. CASE StopDisconnects
  <2>1. Disconnect
    BY <1>4 DEF StopDisconnects
  <2> QED BY <1>4, <2>1 DEF MasterSteps, ClientNext
<1>5. CASE StopEnds
  BY <1>5 DEF StopEnds, MasterSteps
<1>6. CASE MasterTick
  BY <1>6 DEF MasterTick, MasterSteps
<1> QED BY <1>1, <1>2, <1>3, <1>4, <1>5, <1>6

LEMMA RestsAsMaster ==
  ASSUME UNCHANGED masterVars, LinkNext \/ UNCHANGED clientVars
  PROVE  MasterSteps /\ [ClientNext]_clientVars
<1>1. MasterSteps
  BY DEF masterVars, MasterSteps
<1> QED BY <1>1 DEF ClientNext

LEMMA CompositionSteps ==
  ASSUME [MasterNext]_allGatewayVars
  PROVE  MasterSteps /\ [ClientNext]_clientVars
<1>1. CASE StartMaster \/ StartLooks \/ StopMaster \/ StopDisconnects \/ StopEnds \/ MasterTick
  BY <1>1, RunsAsMaster
<1>2. CASE LinkSteps
  BY <1>2, RestsAsMaster DEF LinkSteps
<1>3. CASE UNCHANGED <<clientVars, masterVars>>
  BY <1>3, RestsAsMaster
<1>4. ASSUME NEW m \in Messages, Delivered(m) \/ Sends(m) \/ HandlerSteps(m) \/ StopCancels(m)
      PROVE  MasterSteps /\ [ClientNext]_clientVars
  BY <1>4, HandlesAsMaster DEF Delivered, Sends, HandlerSteps
<1>5. CASE UNCHANGED allGatewayVars
  BY <1>5, <1>3 DEF allGatewayVars
<1> QED BY <1>1, <1>2, <1>3, <1>4, <1>5 DEF MasterNext

LEMMA RunSteps ==
  ASSUME [Next]_vars
  PROVE  MasterSteps /\ [ClientNext]_clientVars
<1>1. CASE UNCHANGED allGatewayVars
  BY <1>1, RestsAsMaster DEF allGatewayVars
<1>2. CASE Admission
  <2>1. CASE StartMaster \/ MasterTick
    BY <2>1, RunsAsMaster
  <2>2. CASE LinkSteps
    BY <2>2, RestsAsMaster DEF LinkSteps
  <2>3. CASE UNCHANGED <<clientVars, masterVars>>
    BY <2>3, RestsAsMaster
  <2>4. ASSUME NEW m \in Messages, Arrives(m) \/ Answer(m) \/ HandlerSteps(m)
        PROVE  MasterSteps /\ [ClientNext]_clientVars
    BY <2>4, HandlesAsMaster DEF HandlerSteps
  <2> QED BY <1>2, <2>1, <2>2, <2>3, <2>4 DEF Admission
<1>3. CASE Gateway
  BY <1>3, CompositionSteps DEF Gateway
<1> QED BY <1>1, <1>2, <1>3 DEF Next, vars

LEMMA BothKept ==
  ASSUME ClientHolds, MasterHolds, MasterSteps, [ClientNext]_clientVars
  PROVE  (ClientHolds /\ MasterHolds)'
BY ClientKept, MasterKept

LEMMA BothAreInHand == ClientHolds /\ MasterHolds => InboundInHand
<1> SUFFICES ASSUME ClientHolds, MasterHolds PROVE InboundInHand
  OBVIOUS
<1>1. ClientInHand /\ AdmissionBounded /\ PermitsKept /\ Flights
  BY ClientIsInHand DEF MasterHolds
<1> QED BY <1>1 DEF InboundInHand, MasterInHand, PermitsKept, Flights

\* A user never has more of its requests admitted within a window than the rate
\* allows nor the same one twice within the shorter window; every permit is free or
\* held; stop cancels every request that came before it; and the client under it
\* is in hand: for any number of users, messages, permits and connections, however
\* the connection comes and goes.
THEOREM RequestsAreInHand == MasterSpec => []InboundInHand
<1>1. ClientInit /\ MasterInit => ClientHolds /\ MasterHolds
  BY ClientStarts, MasterStarts
<1>2. ClientHolds /\ MasterHolds /\ [MasterNext]_allGatewayVars => (ClientHolds /\ MasterHolds)'
  BY CompositionSteps, BothKept
<1> QED BY <1>1, <1>2, BothAreInHand, PTL DEF MasterSpec

\* The same of the behaviours the run looks at, a connection that stands among them.
THEOREM RunIsInHand == Init /\ [][Next]_vars => []InboundInHand
<1>1. Init => ClientHolds /\ MasterHolds
  BY ClientStarts, MasterStarts DEF Init
<1>2. ClientHolds /\ MasterHolds /\ [Next]_vars => (ClientHolds /\ MasterHolds)'
  BY RunSteps, BothKept
<1> QED BY <1>1, <1>2, BothAreInHand, PTL
=============================================================================
