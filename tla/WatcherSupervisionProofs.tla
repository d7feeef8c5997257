----------------------- MODULE WatcherSupervisionProofs -----------------------
(***************************************************************************)
(* Theorems of WatcherSupervision for every number of clients, mailboxes   *)
(* and failures.  The first part allows every kind of fault: types, and    *)
(* that there is always a way back to a connection (IInv).  The second     *)
(* part assumes serial attempts (Serial, SerialInv): one connection,       *)
(* listeners where they belong, attempts that are all counted, and the     *)
(* refinement of ReconnectPolicy.                                          *)
(***************************************************************************)
EXTENDS WatcherSupervision, FiniteSetTheorems, TLAPS

USE DEF policy, wiring, threads, process, supVars

-----------------------------------------------------------------------------
(* The state functions of the helpers.                                     *)

\* logout() keeps the states of connections among ConnStates.
LEMMA LogOutType ==
  ASSUME NEW cs \in [Clients -> ConnStates], NEW c \in Clients \cup {NoClient}
  PROVE  LogOut(cs, c) \in [Clients -> ConnStates]
BY DEF LogOut, ConnStates

\* A drop leaves everything it assigns well typed.
LEMMA DropType ==
  ASSUME SupTypeOK,
         NEW at \in SUBSET Clients, NEW cs \in [Clients -> ConnStates],
         HandleConnectionDrop(at, cs)
  PROVE  /\ client' \in Clients \cup {NoClient}
         /\ attached' \in SUBSET Clients
         /\ conn' \in [Clients -> ConnStates]
         /\ timer' \in BOOLEAN
         /\ outage' \in BOOLEAN
<1>1. client' \in Clients \cup {NoClient} /\ attached' \in SUBSET Clients
  BY DEF HandleConnectionDrop, ReleaseClient, ScheduleReconnect
<1>2. conn' \in [Clients -> ConnStates]
  BY LogOutType DEF HandleConnectionDrop, ReleaseClient, ScheduleReconnect, SupTypeOK
<1>3. timer' \in BOOLEAN /\ outage' \in BOOLEAN
  BY DEF HandleConnectionDrop, ReleaseClient, ScheduleReconnect, SupTypeOK
<1>4. QED BY <1>1, <1>2, <1>3

\* Whether connectAndWatch was called by start() or by reconnect(), its
\* return leaves the counters well typed.
LEMMA ReturnedType ==
  ASSUME SupTypeOK, NEW t \in Clients, Returned(t)
  PROVE  /\ consecutiveFailures' \in Nat
         /\ reconnectAttempts' \in Nat
         /\ escalated' \in BOOLEAN
         /\ outage' \in BOOLEAN
<1>1. CASE viaStart[t]
  BY <1>1 DEF Returned, SupTypeOK
<1>2. CASE ~viaStart[t]
  <2>1. HandleReconnectSuccess
    BY <1>2 DEF Returned
  <2>2. consecutiveFailures' \in Nat /\ reconnectAttempts' \in Nat
    BY <2>1 DEF HandleReconnectSuccess, ResetCounters
  <2>3. escalated' \in BOOLEAN /\ outage' \in BOOLEAN
    BY <2>1 DEF HandleReconnectSuccess, ResetCounters
  <2>4. QED BY <2>2, <2>3
<1>3. QED BY <1>1, <1>2

-----------------------------------------------------------------------------
(* Type correctness.                                                       *)

\* Every step of the supervision keeps the state well typed.
LEMMA TypeStep == SupTypeOK /\ [SupNext]_supVars => SupTypeOK'
<1> SUFFICES ASSUME SupTypeOK, [SupNext]_supVars PROVE SupTypeOK'
  OBVIOUS
<1> USE DEF SupTypeOK
<1>1. CASE Stop
  <2>1. conn' \in [Clients -> ConnStates]
    BY <1>1, LogOutType DEF Stop, StopNow
  <2>2. QED BY <1>1, <2>1 DEF Stop, StopNow
<1>2. CASE TimerExpires
  BY <1>2 DEF TimerExpires
<1>3. ASSUME NEW c \in Clients, Start(c) PROVE SupTypeOK'
  BY <1>3, SupervisionAssumption DEF Start, ConnectAndWatch, Phases, ConnStates
<1>4. ASSUME NEW c \in Clients, TimerFires(c) PROVE SupTypeOK'
  <2>1. reconnectAttempts' \in Nat
    BY <1>4 DEF TimerFires
  <2>2. pc' \in [Clients -> Phases] /\ conn' \in [Clients -> ConnStates]
    BY <1>4 DEF TimerFires, ConnectAndWatch, Phases, ConnStates
  <2>3. on' \in [Clients -> Clients] /\ viaStart' \in [Clients -> BOOLEAN]
        /\ attached' \in SUBSET Clients
    BY <1>4 DEF TimerFires, ConnectAndWatch
  <2>4. QED BY <1>4, <2>1, <2>2, <2>3 DEF TimerFires
<1>5. ASSUME NEW t \in Clients, ThreadStep(t) PROVE SupTypeOK'
  <2>1. CASE ConnectAfterStop(t)
    <3>1. conn' \in [Clients -> ConnStates]
      BY <2>1, LogOutType DEF ConnectAfterStop, StopNow
    <3>2. QED BY <2>1, <3>1 DEF ConnectAfterStop, StopNow, Phases
  <2>2. CASE ConnectNothingToWatch(t)
    <3>1. Returned(t)
      BY <2>2 DEF ConnectNothingToWatch
    <3>2. QED BY <2>2, <3>1, ReturnedType DEF ConnectNothingToWatch, Phases
  <2>3. CASE ConnectThenOpen(t)
    BY <2>3 DEF ConnectThenOpen, Phases
  <2>4. CASE OpenOk(t)
    <3>1. Returned(t)
      BY <2>4 DEF OpenOk
    <3>2. QED BY <2>4, <3>1, ReturnedType DEF OpenOk, BeginIdle, Phases
  <2>5. CASE AttemptFails(t)
    <3>1. conn' \in [Clients -> ConnStates]
      BY <2>5, LogOutType DEF AttemptFails
    <3>2. QED BY <2>5, <3>1 DEF AttemptFails, Phases
  <2>6. CASE StartRejects(t)
    BY <2>6 DEF StartRejects, Phases
  <2>7. CASE HandleReconnectFailure(t)
    <3>1. HandleConnectionDrop(attached, conn)
      BY <2>7 DEF HandleReconnectFailure
    <3>2. QED BY <2>7, <3>1, DropType DEF HandleReconnectFailure, Escalates, Phases
  <2>8. CASE StopUnwinds(t)
    <3>1. Returned(t)
      BY <2>8 DEF StopUnwinds
    <3>2. QED BY <2>8, <3>1, ReturnedType DEF StopUnwinds, Phases
  <2>9. CASE DrainedStale(t)
    BY <2>9 DEF DrainedStale, Phases
  <2>10. CASE DrainedIdleAgain(t)
    BY <2>10 DEF DrainedIdleAgain, BeginIdle, Phases
  <2>11. CASE DrainedReopen(t)
    BY <2>11 DEF DrainedReopen, Phases
  <2>12. CASE ReopenOk(t)
    BY <2>12 DEF ReopenOk, BeginIdle, Phases
  <2>13. CASE ReopenFails(t)
    <3>1. HandleConnectionDrop(attached, conn)
      BY <2>13 DEF ReopenFails
    <3>2. QED BY <2>13, <3>1, DropType DEF ReopenFails, Phases
  <2>14. QED BY <1>5, <2>1, <2>2, <2>3, <2>4, <2>5, <2>6, <2>7, <2>8, <2>9,
                <2>10, <2>11, <2>12, <2>13 DEF ThreadStep
<1>6. ASSUME NEW t \in Clients, IdleEnds(t) PROVE SupTypeOK'
  BY <1>6 DEF IdleEnds, Phases
<1>7. ASSUME NEW t \in Clients, IdleFails(t) PROVE SupTypeOK'
  <2>1. CASE StillCurrent(t)
    <3>1. HandleConnectionDrop(attached, conn)
      BY <1>7, <2>1 DEF IdleFails
    <3>2. QED BY <1>7, <3>1, DropType DEF IdleFails, Phases
  <2>2. CASE ~StillCurrent(t)
    BY <1>7, <2>2 DEF IdleFails, Phases
  <2>3. QED BY <2>1, <2>2
<1>8. ASSUME NEW c \in Clients, ClientStep(c) PROVE SupTypeOK'
  <2>1. ASSUME NEW after \in ConnStates, ClientEvent(c, after) PROVE SupTypeOK'
    <3> DEFINE cs == [conn EXCEPT ![c] = after]
    <3>1. cs \in [Clients -> ConnStates]
      OBVIOUS
    <3>2. CASE started
      <4>1. HandleConnectionDrop(attached, cs)
        BY <2>1, <3>2 DEF ClientEvent
      <4>2. QED BY <2>1, <3>1, <4>1, DropType DEF ClientEvent
    <3>3. CASE ~started
      BY <2>1, <3>1, <3>3 DEF ClientEvent
    <3>4. QED BY <3>2, <3>3
  <2>2. CASE HandleError(c)
    BY <2>1, <2>2 DEF HandleError, ConnStates
  <2>3. CASE HandleClose(c)
    BY <2>1, <2>3 DEF HandleClose, ConnStates
  <2>4. CASE LogoutCompletes(c)
    BY <2>4 DEF LogoutCompletes, ConnStates
  <2>5. CASE ErrorWithoutListener(c)
    BY <2>5 DEF ErrorWithoutListener, ConnStates
  <2>6. QED BY <1>8, <2>2, <2>3, <2>4, <2>5 DEF ClientStep
<1>9. CASE UNCHANGED supVars
  BY <1>9
<1>10. QED
  BY <1>1, <1>2, <1>3, <1>4, <1>5, <1>6, <1>7, <1>8, <1>9 DEF SupNext

\* The initial state is well typed.
LEMMA InitTypeOK == SupInit => SupTypeOK
<1> SUFFICES ASSUME SupInit PROVE SupTypeOK
  OBVIOUS
<1>1. starts \in 0..MaxStarts /\ consecutiveFailures \in Nat /\ reconnectAttempts \in Nat
  BY SupervisionAssumption DEF SupInit
<1>2. /\ pc \in [Clients -> Phases] /\ on \in [Clients -> Clients]
      /\ viaStart \in [Clients -> BOOLEAN] /\ conn \in [Clients -> ConnStates]
  BY DEF SupInit, Phases, ConnStates
<1>3. QED BY <1>1, <1>2 DEF SupInit, SupTypeOK

\* Type correctness of the supervision, for every value of the constants.
THEOREM TypeCorrect == SupSpec => []SupTypeOK
BY InitTypeOK, TypeStep, PTL DEF SupSpec

-----------------------------------------------------------------------------
(* A started watcher is never abandoned.                                   *)

\* Until its connectAndWatch is over a thread works on the client it made.
OwnClient ==
  \A t \in Clients : pc[t] \in {"connecting", "stopping", "opening", "failing"} => on[t] = t

\* The inductive invariant.
IInv == SupTypeOK /\ OwnClient /\ NeverAbandoned

\* handleConnectionDrop of a started watcher arms the timer.
LEMMA DropArmsTimer ==
  ASSUME SupTypeOK, NEW at, NEW cs, HandleConnectionDrop(at, cs), started' = started
  PROVE  NeverAbandoned'
<1>1. started' => timer'
  BY DEF HandleConnectionDrop, ReleaseClient, ScheduleReconnect, SupTypeOK
<1>2. QED BY <1>1 DEF NeverAbandoned

\* A thread of the current client moves within the phases that watch it, or
\* a thread that watches nothing moves: the way back stays.
LEMMA ThreadMove ==
  ASSUME SupTypeOK, NeverAbandoned, NEW t \in Clients,
         started' = started, client' = client, timer' = timer, numMailboxes' = numMailboxes,
         NEW p, pc' = [pc EXCEPT ![t] = p], on' = on,
         pc[t] \notin {"connecting", "failing"},
         \/ p \in {"connecting", "failing"}
         \/ ~Watched(client)
         \/ p \in {"opening", "idling", "draining", "reopening"}
         \/ pc[t] \notin {"opening", "idling", "draining", "reopening"}
         \/ on[t] # client
  PROVE  NeverAbandoned'
<1> SUFFICES ASSUME started, ~timer PROVE
      \/ \E s \in Clients : pc'[s] \in {"connecting", "failing"}
      \/ client # NoClient /\ (numMailboxes = 0 \/ Watched(client)')
  BY DEF NeverAbandoned, Watched
<1>1. CASE \E s \in Clients : pc[s] \in {"connecting", "failing"}
  BY <1>1 DEF SupTypeOK
<1>2. CASE client # NoClient /\ numMailboxes = 0
  BY <1>2
<1>3. CASE p \in {"connecting", "failing"}
  BY <1>3 DEF SupTypeOK
<1>4. CASE client # NoClient /\ Watched(client) /\ p \notin {"connecting", "failing"}
  BY <1>4 DEF SupTypeOK, Watched
<1>5. QED BY <1>1, <1>2, <1>3, <1>4 DEF NeverAbandoned

\* beginIdle() either starts to watch the current client, or ends a thread
\* that has nothing to watch.
LEMMA BeginIdleKeepsWay ==
  ASSUME SupTypeOK, NeverAbandoned, NEW t \in Clients, BeginIdle(t),
         started' = started, client' = client, timer' = timer,
         pc[t] \notin {"connecting", "failing"}
  PROVE  NeverAbandoned'
<1>1. CASE client # NoClient /\ started
  <2>1. pc'[t] = "idling" /\ on'[t] = client'
    BY <1>1 DEF BeginIdle, SupTypeOK
  <2>2. Watched(client)'
    BY <2>1 DEF Watched
  <2>3. QED BY <1>1, <2>2 DEF NeverAbandoned
<1>2. CASE ~(client # NoClient /\ started)
  <2>1. pc' = [pc EXCEPT ![t] = "free"] /\ on' = on
    BY <1>2 DEF BeginIdle
  <2>2. started => timer \/ \E s \in Clients : pc[s] \in {"connecting", "failing"}
    BY <1>2 DEF NeverAbandoned
  <2>3. \A s \in Clients : pc[s] \in {"connecting", "failing"} => pc'[s] = pc[s]
    BY <2>1 DEF SupTypeOK
  <2>4. QED BY <2>2, <2>3 DEF NeverAbandoned
<1>3. QED BY <1>1, <1>2

\* Every step keeps threads on their own client during connectAndWatch.
LEMMA OwnClientStep == SupTypeOK /\ OwnClient /\ [SupNext]_supVars => OwnClient'
<1> SUFFICES ASSUME SupTypeOK, OwnClient, [SupNext]_supVars PROVE OwnClient'
  OBVIOUS
<1> USE DEF OwnClient, SupTypeOK
<1>1. CASE Stop
  BY <1>1 DEF Stop
<1>2. CASE TimerExpires
  BY <1>2 DEF TimerExpires
<1>3. ASSUME NEW c \in Clients, Start(c) \/ TimerFires(c) PROVE OwnClient'
  BY <1>3 DEF Start, TimerFires, ConnectAndWatch
<1>4. ASSUME NEW t \in Clients, ThreadStep(t) PROVE OwnClient'
  <2>1. CASE BeginIdle(t)
    BY <2>1 DEF BeginIdle
  <2>2. CASE ~BeginIdle(t)
    BY <1>4, <2>2
    DEF ThreadStep, ConnectAfterStop, ConnectNothingToWatch, ConnectThenOpen, OpenOk,
        AttemptFails, StartRejects, HandleReconnectFailure, StopUnwinds, DrainedStale,
        DrainedIdleAgain, DrainedReopen, ReopenOk, ReopenFails
  <2>3. QED BY <2>1, <2>2
<1>5. ASSUME NEW t \in Clients, IdleEnds(t) \/ IdleFails(t) PROVE OwnClient'
  BY <1>5 DEF IdleEnds, IdleFails
<1>6. ASSUME NEW c \in Clients, ClientStep(c) PROVE OwnClient'
  BY <1>6 DEF ClientStep, HandleError, HandleClose, ClientEvent, LogoutCompletes,
              ErrorWithoutListener
<1>7. CASE UNCHANGED supVars
  BY <1>7
<1>8. QED BY <1>1, <1>2, <1>3, <1>4, <1>5, <1>6, <1>7 DEF SupNext

\* Every step of a thread keeps the way back.
LEMMA ThreadStepKeepsWay ==
  ASSUME IInv, NEW t \in Clients, ThreadStep(t)
  PROVE  NeverAbandoned'
<1> USE DEF IInv
<1>1. CASE ConnectAfterStop(t) \/ StartRejects(t)
  BY <1>1 DEF ConnectAfterStop, StopNow, StartRejects, NeverAbandoned
<1>2. CASE ConnectNothingToWatch(t)
  BY <1>2, SupervisionAssumption DEF ConnectNothingToWatch, NeverAbandoned
<1>3. CASE ConnectThenOpen(t)
  <2>1. pc'[t] = "opening" /\ on'[t] = t /\ client' = t
    BY <1>3 DEF ConnectThenOpen, OwnClient, SupTypeOK
  <2>2. Watched(client)'
    BY <2>1 DEF Watched
  <2>3. QED BY <2>1, <2>2, SupervisionAssumption DEF NeverAbandoned
<1>4. CASE OpenOk(t) \/ ReopenOk(t) \/ DrainedIdleAgain(t)
  BY <1>4, BeginIdleKeepsWay DEF OpenOk, ReopenOk, DrainedIdleAgain
<1>5. CASE AttemptFails(t)
  <2>1. pc'[t] = "failing"
    BY <1>5 DEF AttemptFails, SupTypeOK
  <2>2. QED BY <2>1 DEF NeverAbandoned
<1>6. CASE HandleReconnectFailure(t) \/ ReopenFails(t)
  BY <1>6, DropArmsTimer DEF HandleReconnectFailure, ReopenFails
<1>7. CASE StopUnwinds(t)
  BY <1>7, ThreadMove DEF StopUnwinds
<1>8. CASE DrainedStale(t)
  <2>1. CASE ~started
    BY <1>8, <2>1 DEF DrainedStale, NeverAbandoned
  <2>2. CASE on[t] # client
    BY <1>8, <2>2, ThreadMove DEF DrainedStale
  <2>3. QED BY <1>8, <2>1, <2>2 DEF DrainedStale, StillCurrent
<1>9. CASE DrainedReopen(t)
  BY <1>9, ThreadMove DEF DrainedReopen
<1>10. QED BY <1>1, <1>2, <1>3, <1>4, <1>5, <1>6, <1>7, <1>8, <1>9 DEF ThreadStep

\* Every step of the supervision keeps the way back.
LEMMA NeverAbandonedStep == IInv /\ [SupNext]_supVars => NeverAbandoned'
<1> SUFFICES ASSUME IInv, [SupNext]_supVars PROVE NeverAbandoned'
  OBVIOUS
<1> USE DEF IInv
<1>1. CASE Stop \/ TimerExpires
  BY <1>1 DEF Stop, StopNow, TimerExpires, NeverAbandoned
<1>2. ASSUME NEW c \in Clients, Start(c) \/ TimerFires(c) PROVE NeverAbandoned'
  <2>1. pc'[c] = "connecting"
    BY <1>2 DEF Start, TimerFires, ConnectAndWatch, SupTypeOK
  <2>2. QED BY <2>1 DEF NeverAbandoned
<1>3. ASSUME NEW t \in Clients, ThreadStep(t) PROVE NeverAbandoned'
  BY <1>3, ThreadStepKeepsWay
<1>4. ASSUME NEW t \in Clients, IdleEnds(t) PROVE NeverAbandoned'
  <2>1. CASE StillCurrent(t)
    BY <1>4, <2>1, ThreadMove DEF IdleEnds
  <2>2. CASE ~started
    BY <1>4, <2>2 DEF IdleEnds, NeverAbandoned
  <2>3. CASE on[t] # client
    BY <1>4, <2>3, ThreadMove DEF IdleEnds, StillCurrent
  <2>4. QED BY <2>1, <2>2, <2>3 DEF StillCurrent
<1>5. ASSUME NEW t \in Clients, IdleFails(t) PROVE NeverAbandoned'
  <2>1. CASE StillCurrent(t)
    BY <1>5, <2>1, DropArmsTimer DEF IdleFails
  <2>2. CASE ~started
    BY <1>5, <2>2 DEF IdleFails, NeverAbandoned
  <2>3. CASE on[t] # client
    BY <1>5, <2>3, ThreadMove DEF IdleFails, StillCurrent
  <2>4. QED BY <2>1, <2>2, <2>3 DEF StillCurrent
<1>6. ASSUME NEW c \in Clients, ClientStep(c) PROVE NeverAbandoned'
  <2>1. ASSUME NEW after, ClientEvent(c, after) PROVE NeverAbandoned'
    <3>1. CASE started
      BY <2>1, <3>1, DropArmsTimer DEF ClientEvent
    <3>2. CASE ~started
      BY <2>1, <3>2 DEF ClientEvent, NeverAbandoned
    <3>3. QED BY <3>1, <3>2
  <2>2. CASE HandleError(c) \/ HandleClose(c)
    BY <2>1, <2>2 DEF HandleError, HandleClose
  <2>3. CASE LogoutCompletes(c) \/ ErrorWithoutListener(c)
    BY <2>3 DEF LogoutCompletes, ErrorWithoutListener, NeverAbandoned, Watched
  <2>4. QED BY <1>6, <2>2, <2>3 DEF ClientStep
<1>7. CASE UNCHANGED supVars
  BY <1>7 DEF NeverAbandoned, Watched
<1>8. QED BY <1>1, <1>2, <1>3, <1>4, <1>5, <1>6, <1>7 DEF SupNext

\* A started watcher always has a way back to its mailboxes: an armed timer,
\* an attempt that will go on, or a watched client.
THEOREM AlwaysAWayBack == SupSpec => []NeverAbandoned
<1>1. SupInit => IInv
  <2>1. SupInit => SupTypeOK
    BY InitTypeOK
  <2>2. SupInit => OwnClient /\ NeverAbandoned
    BY DEF SupInit, OwnClient, NeverAbandoned
  <2>3. QED BY <2>1, <2>2 DEF IInv
<1>2. IInv /\ [SupNext]_supVars => IInv'
  BY TypeStep, OwnClientStep, NeverAbandonedStep DEF IInv
<1>3. IInv => NeverAbandoned
  BY DEF IInv
<1>4. QED BY <1>1, <1>2, <1>3, PTL DEF SupSpec

-----------------------------------------------------------------------------
(***************************************************************************)
(* Attempts that do not overlap, with any number of clients, mailboxes,    *)
(* failures and reconnects, late answers and late errors included: the     *)
(* properties of the run supervision_recovery and its refinement of        *)
(* ReconnectPolicy.                                                        *)
(*                                                                         *)
(* With overlapping attempts they are false.  Attempts overlap when the    *)
(* reconnect delay is shorter than the unwinding of the attempt before it, *)
(* and when a stopped watcher is started again during an attempt.          *)
(***************************************************************************)

\* server.ts starts a watcher once.
Serial == "overtake" \notin Faults /\ MaxStarts <= 1

-----------------------------------------------------------------------------
(* The inductive invariant.                                                *)

\* One attempt or round-robin step at a time.
OneUnwinding == \A s, t \in Unwinding : s = t

\* A thread works on the client it made, in the IDLE loop as well.
OwnWork == \A t \in Clients : on[t] = t

\* Before start() there is nothing.
Untouched ==
  /\ started => starts = 1
  /\ starts = 0 =>
       /\ client = NoClient /\ ~timer /\ attached = {}
       /\ consecutiveFailures = 0 /\ reconnectAttempts = 0 /\ ~escalated
       /\ \A t \in Clients : pc[t] = "free" /\ ~Up(t)

\* What this.client is during an attempt, and whether its events are heard.
Attempts ==
  \A t \in Clients :
    /\ pc[t] = "connecting" =>
         client = NoClient /\ t \in attached /\ (started /\ Up(t) => ~timer)
    /\ pc[t] = "stopping" => ~started /\ client = NoClient
    /\ pc[t] = "opening" =>
         client \in {t, NoClient} /\ (started /\ client = NoClient => conn[t] = "closed")
    /\ pc[t] = "failing" => client \in {t, NoClient} /\ ~Up(t) /\ t \notin attached
    /\ pc[t] = "reopening" => client \in {t, NoClient}

\* A connection is that of this.client or of a connect() under way.
UpIsOwned == \A c \in Clients : Up(c) => c = client \/ pc[c] = "connecting"

\* With a client there is nothing to reconnect.
NoTimerWithClient == started /\ client # NoClient => ~timer

\* The counters in each mode of the policy.
Counted ==
  started =>
    /\ reconnectAttempts = consecutiveFailures + (IF Retrying = {} THEN 0 ELSE 1)
    /\ Starting # {} \/ (~timer /\ Retrying = {}) => consecutiveFailures = 0 /\ ~escalated

SerialParts ==
  /\ OneUnwinding /\ OwnWork /\ Untouched /\ Attempts /\ UpIsOwned
  /\ NoForgottenListeners /\ ClientIsHeard /\ NoTimerWithClient /\ Counted

SerialInv ==
  /\ SupTypeOK
  /\ OneUnwinding /\ OwnWork /\ Untouched /\ Attempts /\ UpIsOwned
  /\ NoForgottenListeners /\ ClientIsHeard /\ NoTimerWithClient /\ Counted

-----------------------------------------------------------------------------
(* The state functions of the helpers.                                     *)

\* logout() touches one connection, and that one is not up afterwards.
LEMMA LogOutEffect ==
  ASSUME NEW cs \in [Clients -> ConnStates], NEW c \in Clients \cup {NoClient}
  PROVE  /\ LogOut(cs, c) \in [Clients -> ConnStates]
         /\ \A x \in Clients : x # c => LogOut(cs, c)[x] = cs[x]
         /\ \A x \in Clients : LogOut(cs, c)[x] = "up" => x # c /\ cs[x] = "up"
         /\ \A x \in Clients : cs[x] = "closed" => LogOut(cs, c)[x] = "closed"
         /\ c \in Clients /\ cs[c] = "errored" => LogOut(cs, c)[c] = "closed"
BY SupervisionAssumption DEF LogOut, ConnStates

-----------------------------------------------------------------------------
(* What each action does to the parts of the invariant.                    *)

\* The one start() makes the one attempt there is.
LEMMA StartKept ==
  ASSUME Serial, SerialInv, NEW c \in Clients, Start(c)
  PROVE  SerialParts'
<1> USE SupervisionAssumption DEF SerialInv, SupTypeOK, Start, Free, ConnectAndWatch
<1>1. starts = 0 /\ starts' = 1
  BY DEF Serial
<1>2. Untouched'
  BY <1>1 DEF Untouched
<1>3. OneUnwinding'
  BY <1>1 DEF Untouched, OneUnwinding, Unwinding
<1>4. OwnWork'
  BY <1>1 DEF Untouched, OwnWork
<1>5. Attempts'
  BY <1>1 DEF Untouched, Attempts, Up
<1>6. UpIsOwned' /\ NoForgottenListeners' /\ ClientIsHeard' /\ NoTimerWithClient'
  BY <1>1 DEF Untouched, UpIsOwned, Up, NoForgottenListeners, Connecting, ClientIsHeard,
     NoTimerWithClient
<1>7. Counted'
  <2>1. pc'[c] = "connecting" /\ viaStart'[c]
    OBVIOUS
  <2>2. c \in Starting' /\ Retrying' = {}
    BY <1>1, <2>1 DEF Untouched, Retrying, Starting
  <2> QED
    BY <1>1, <2>2 DEF Untouched, Counted
<1> QED
  BY <1>2, <1>3, <1>4, <1>5, <1>6, <1>7 DEF SerialParts

\* stop() takes this.client with it; an attempt under way keeps its own.
LEMMA StopKept ==
  ASSUME Serial, SerialInv, Stop
  PROVE  SerialParts'
<1> USE DEF SerialInv, SupTypeOK
<1>1. /\ ~started' /\ client' = NoClient /\ ~timer' /\ attached' = attached \ {client}
      /\ consecutiveFailures' = 0 /\ reconnectAttempts' = 0 /\ ~escalated'
      /\ UNCHANGED <<pc, on, starts>> /\ conn' = LogOut(conn, client)
  BY DEF Stop, StopNow
<1>2. /\ \A x \in Clients : Up(x)' => x # client /\ Up(x)
      /\ \A x \in Clients : conn[x] = "closed" => conn'[x] = "closed"
  BY <1>1, LogOutEffect DEF Up, SerialInv, SupTypeOK
<1>3. Untouched'
  BY <1>1, <1>2 DEF Untouched
<1>4. OneUnwinding' /\ OwnWork'
  BY <1>1 DEF OneUnwinding, Unwinding, OwnWork
<1>5. Attempts'
  BY <1>1, <1>2, SupervisionAssumption DEF Attempts
<1>6. UpIsOwned' /\ NoForgottenListeners' /\ ClientIsHeard' /\ NoTimerWithClient'
  BY <1>1, <1>2 DEF UpIsOwned, NoForgottenListeners, Connecting, ClientIsHeard, NoTimerWithClient
<1>7. Counted'
  BY <1>1 DEF Counted
<1> QED
  BY <1>3, <1>4, <1>5, <1>6, <1>7 DEF SerialParts

\* The timer fires when the attempt before has unwound.
LEMMA TimerFiresKept ==
  ASSUME Serial, SerialInv, NEW c \in Clients, TimerFires(c)
  PROVE  SerialParts'
<1> USE SupervisionAssumption DEF SerialInv, SupTypeOK, TimerFires, Free, ConnectAndWatch
<1>1. Unwinding = {}
  BY DEF Serial
<1>2. Untouched'
  BY DEF Untouched
<1>3. OneUnwinding'
  BY <1>1 DEF OneUnwinding, Unwinding
<1>4. OwnWork'
  BY <1>1 DEF OwnWork
<1>5. Attempts'
  BY <1>1 DEF Attempts, Up, Unwinding, NoTimerWithClient
<1>6. UpIsOwned' /\ NoForgottenListeners' /\ ClientIsHeard' /\ NoTimerWithClient'
  BY <1>1 DEF UpIsOwned, Up, NoForgottenListeners, Connecting, ClientIsHeard, NoTimerWithClient,
     Unwinding
<1>7. Counted'
  BY <1>1 DEF Counted, Retrying, Starting, Unwinding
<1> QED
  BY <1>2, <1>3, <1>4, <1>5, <1>6, <1>7 DEF SerialParts

\* A timer that a failed start() left behind changes nothing.
LEMMA TimerExpiresKept ==
  ASSUME Serial, SerialInv, TimerExpires
  PROVE  SerialParts'
<1> USE SupervisionAssumption DEF SerialInv, SupTypeOK
<1>1. ~started /\ ~timer' /\ UNCHANGED <<started, client, policy, threads, wiring, starts>>
  BY DEF TimerExpires
<1>2. Untouched'
  BY <1>1 DEF Untouched, Up
<1>3. OneUnwinding'
  BY <1>1 DEF OneUnwinding, Unwinding
<1>4. OwnWork'
  BY <1>1 DEF OwnWork
<1>5. Attempts'
  BY <1>1 DEF Attempts, Up
<1>6. UpIsOwned' /\ NoForgottenListeners' /\ ClientIsHeard' /\ NoTimerWithClient'
  BY <1>1 DEF UpIsOwned, NoForgottenListeners, Connecting, ClientIsHeard, NoTimerWithClient, Up
<1>7. Counted'
  BY <1>1 DEF Counted, Retrying, Starting
<1> QED
  BY <1>2, <1>3, <1>4, <1>5, <1>6, <1>7 DEF SerialParts

\* The connection made after stop() is given up again.
LEMMA ConnectAfterStopKept ==
  ASSUME Serial, SerialInv, NEW c \in Clients, ConnectAfterStop(c)
  PROVE  SerialParts'
<1> USE SupervisionAssumption DEF SerialInv, SupTypeOK
<1>1. /\ pc[c] = "connecting" /\ ~started /\ pc' = [pc EXCEPT ![c] = "stopping"]
      /\ ~started' /\ client' = NoClient /\ ~timer' /\ attached' = attached \ {c}
      /\ UNCHANGED <<on, viaStart, starts>> /\ conn' = LogOut(conn, c)
  BY DEF ConnectAfterStop, StopNow
<1>2. Untouched'
  BY <1>1, LogOutEffect DEF Untouched, Up
<1>3. OneUnwinding'
  BY <1>1, LogOutEffect DEF OneUnwinding, Unwinding
<1>4. OwnWork'
  BY <1>1, LogOutEffect DEF OwnWork
<1>5. Attempts'
  BY <1>1, LogOutEffect DEF Attempts, OneUnwinding, Unwinding
<1>6. UpIsOwned' /\ NoForgottenListeners' /\ ClientIsHeard' /\ NoTimerWithClient'
  BY <1>1, LogOutEffect DEF UpIsOwned, NoForgottenListeners, Connecting, ClientIsHeard,
     NoTimerWithClient, Up, Attempts, OneUnwinding, Unwinding
<1>7. Counted'
  BY <1>1, LogOutEffect DEF Counted, Retrying, Starting
<1> QED
  BY <1>2, <1>3, <1>4, <1>5, <1>6, <1>7 DEF SerialParts

\* The client of the attempt becomes this.client.
LEMMA ConnectThenOpenKept ==
  ASSUME Serial, SerialInv, NEW c \in Clients, ConnectThenOpen(c)
  PROVE  SerialParts'
<1> USE SupervisionAssumption DEF SerialInv, SupTypeOK
<1>1. /\ pc[c] = "connecting" /\ Up(c) /\ started /\ pc' = [pc EXCEPT ![c] = "opening"] /\ client' = c
      /\ UNCHANGED <<started, timer, policy, on, viaStart, wiring, starts>>
  BY DEF ConnectThenOpen
<1>2. Untouched'
  BY <1>1 DEF Untouched, Up
<1>3. OneUnwinding'
  BY <1>1 DEF OneUnwinding, Unwinding
<1>4. OwnWork'
  BY <1>1 DEF OwnWork
<1>5. Attempts'
  BY <1>1 DEF Attempts, Up, OneUnwinding, Unwinding
<1>6. UpIsOwned' /\ NoForgottenListeners' /\ ClientIsHeard' /\ NoTimerWithClient'
  BY <1>1 DEF UpIsOwned, NoForgottenListeners, Connecting, ClientIsHeard, NoTimerWithClient, Up,
     Attempts, OneUnwinding, Unwinding
<1>7. Counted'
  BY <1>1 DEF Counted, Retrying, Starting
<1> QED
  BY <1>2, <1>3, <1>4, <1>5, <1>6, <1>7 DEF SerialParts

\* A start() that failed leaves this.client set and closed.
LEMMA StartRejectsKept ==
  ASSUME Serial, SerialInv, NEW t \in Clients, StartRejects(t)
  PROVE  SerialParts'
<1> USE SupervisionAssumption DEF SerialInv, SupTypeOK
<1>1. /\ pc[t] = "failing" /\ ~started' /\ pc' = [pc EXCEPT ![t] = "free"]
      /\ UNCHANGED <<client, timer, policy, on, viaStart, wiring, starts>>
  BY DEF StartRejects
<1>2. Untouched'
  BY <1>1 DEF Untouched, Up
<1>3. OneUnwinding'
  BY <1>1 DEF OneUnwinding, Unwinding
<1>4. OwnWork'
  BY <1>1 DEF OwnWork
<1>5. Attempts'
  BY <1>1 DEF Attempts, Up, OneUnwinding, Unwinding
<1>6. UpIsOwned' /\ NoForgottenListeners' /\ ClientIsHeard' /\ NoTimerWithClient'
  BY <1>1 DEF UpIsOwned, NoForgottenListeners, Connecting, ClientIsHeard, NoTimerWithClient, Up,
     Attempts, OneUnwinding, Unwinding
<1>7. Counted'
  BY <1>1 DEF Counted, Retrying, Starting
<1> QED
  BY <1>2, <1>3, <1>4, <1>5, <1>6, <1>7 DEF SerialParts

\* A connection that was given up has closed.
LEMMA LoggedOutKept ==
  ASSUME Serial, SerialInv, NEW c \in Clients, LogoutCompletes(c) \/ ErrorWithoutListener(c)
  PROVE  SerialParts'
<1> USE SupervisionAssumption DEF SerialInv, SupTypeOK
<1>1. /\ conn[c] = "leaving" /\ conn' = [conn EXCEPT ![c] = "closed"]
      /\ UNCHANGED <<started, client, timer, policy, threads, attached, starts>>
  BY DEF LogoutCompletes, ErrorWithoutListener
<1>2. Untouched'
  BY <1>1 DEF Untouched, Up
<1>3. OneUnwinding'
  BY <1>1 DEF OneUnwinding, Unwinding
<1>4. OwnWork'
  BY <1>1 DEF OwnWork
<1>5. Attempts'
  BY <1>1 DEF Attempts, Up
<1>6. UpIsOwned' /\ NoForgottenListeners' /\ ClientIsHeard' /\ NoTimerWithClient'
  BY <1>1 DEF UpIsOwned, NoForgottenListeners, Connecting, ClientIsHeard, NoTimerWithClient, Up
<1>7. Counted'
  BY <1>1 DEF Counted, Retrying, Starting
<1> QED
  BY <1>2, <1>3, <1>4, <1>5, <1>6, <1>7 DEF SerialParts

\* The catch block gives up the connection the attempt has made.
LEMMA AttemptFailsKept ==
  ASSUME Serial, SerialInv, NEW t \in Clients, AttemptFails(t)
  PROVE  SerialParts'
<1> USE SupervisionAssumption DEF SerialInv, SupTypeOK
<1>1. /\ pc[t] \in {"connecting", "opening"} /\ pc' = [pc EXCEPT ![t] = "failing"]
      /\ attached' = attached \ {t} /\ conn' = LogOut(conn, t)
      /\ UNCHANGED <<started, client, timer, policy, on, viaStart, starts>>
  BY DEF AttemptFails
<1>2. Untouched'
  BY <1>1, LogOutEffect DEF Untouched, Up, OwnClient
<1>3. OneUnwinding'
  BY <1>1, LogOutEffect DEF OneUnwinding, Unwinding
<1>4. OwnWork'
  BY <1>1, LogOutEffect DEF OwnWork
<1>5. Attempts'
  BY <1>1, LogOutEffect DEF Attempts, Up, OneUnwinding, Unwinding
<1>6. UpIsOwned' /\ NoForgottenListeners' /\ ClientIsHeard' /\ NoTimerWithClient'
  BY <1>1, LogOutEffect DEF UpIsOwned, NoForgottenListeners, Connecting, ClientIsHeard,
     NoTimerWithClient, Up, Attempts, OneUnwinding, Unwinding
<1>7. Counted'
  BY <1>1, LogOutEffect DEF Counted, Retrying, Starting
<1> QED
  BY <1>2, <1>3, <1>4, <1>5, <1>6, <1>7 DEF SerialParts

\* A failed reconnect is counted and the next one scheduled.
LEMMA ReconnectFailureKept ==
  ASSUME Serial, SerialInv, NEW t \in Clients, HandleReconnectFailure(t)
  PROVE  SerialParts'
<1> USE SupervisionAssumption DEF SerialInv, SupTypeOK
<1>1. /\ pc[t] = "failing" /\ ~viaStart[t] /\ pc' = [pc EXCEPT ![t] = "free"]
      /\ client' = NoClient /\ attached' = attached \ {client} /\ conn' = LogOut(conn, client)
      /\ (started => timer') /\ consecutiveFailures' = consecutiveFailures + 1
      /\ UNCHANGED <<started, reconnectAttempts, on, viaStart, starts>>
  BY DEF HandleReconnectFailure, HandleConnectionDrop, ReleaseClient, ScheduleReconnect
<1>2. Untouched'
  BY <1>1, LogOutEffect DEF Untouched, Up
<1>3. OneUnwinding'
  BY <1>1, LogOutEffect DEF OneUnwinding, Unwinding
<1>4. OwnWork'
  BY <1>1, LogOutEffect DEF OwnWork
<1>5. Attempts'
  BY <1>1, LogOutEffect DEF Attempts, Up, OneUnwinding, Unwinding
<1>6. UpIsOwned' /\ NoForgottenListeners' /\ ClientIsHeard' /\ NoTimerWithClient'
  BY <1>1, LogOutEffect DEF UpIsOwned, NoForgottenListeners, Connecting, ClientIsHeard,
     NoTimerWithClient, Up, Attempts, OneUnwinding, Unwinding
<1>7. Counted'
  <2>1. t \in Retrying /\ Retrying' = {}
    BY <1>1 DEF Retrying, OneUnwinding, Unwinding
  <2>2. Starting' = {}
    BY <1>1 DEF Starting, OneUnwinding, Unwinding
  <2> QED
    BY <1>1, <2>1, <2>2 DEF Counted
<1> QED
  BY <1>2, <1>3, <1>4, <1>5, <1>6, <1>7 DEF SerialParts

\* A failed round-robin drops the client it worked on, if it is still there.
LEMMA ReopenFailsKept ==
  ASSUME Serial, SerialInv, NEW t \in Clients, ReopenFails(t)
  PROVE  SerialParts'
<1> USE SupervisionAssumption DEF SerialInv, SupTypeOK
<1>1. /\ pc[t] = "reopening" /\ pc' = [pc EXCEPT ![t] = "free"]
      /\ client' = NoClient /\ attached' = attached \ {client} /\ conn' = LogOut(conn, client)
      /\ (started => timer')
      /\ UNCHANGED <<started, policy, on, viaStart, starts>>
  BY DEF ReopenFails, HandleConnectionDrop, ReleaseClient, ScheduleReconnect
<1>2. Untouched'
  BY <1>1, LogOutEffect DEF Untouched, Up
<1>3. OneUnwinding'
  BY <1>1, LogOutEffect DEF OneUnwinding, Unwinding
<1>4. OwnWork'
  BY <1>1, LogOutEffect DEF OwnWork
<1>5. Attempts'
  BY <1>1, LogOutEffect DEF Attempts, Up, OneUnwinding, Unwinding
<1>6. UpIsOwned' /\ NoForgottenListeners' /\ ClientIsHeard' /\ NoTimerWithClient'
  BY <1>1, LogOutEffect DEF UpIsOwned, NoForgottenListeners, Connecting, ClientIsHeard,
     NoTimerWithClient, Up, Attempts, OneUnwinding, Unwinding
<1>7. Counted'
  BY <1>1, LogOutEffect DEF Counted, Retrying, Starting, OneUnwinding, Unwinding
<1> QED
  BY <1>2, <1>3, <1>4, <1>5, <1>6, <1>7 DEF SerialParts

\* Steps of the IDLE loop on one client.
LEMMA LoopMoveKept ==
  ASSUME Serial, SerialInv, NEW t \in Clients, IdleEnds(t) \/ DrainedStale(t) \/ DrainedReopen(t)
  PROVE  SerialParts'
<1> USE SupervisionAssumption DEF SerialInv, SupTypeOK
<1>1. /\ pc[t] \in {"idling", "draining"}
      /\ \/ \E p \in {"free", "draining"} : pc' = [pc EXCEPT ![t] = p]
         \/ pc' = [pc EXCEPT ![t] = "reopening"] /\ on[t] = client
      /\ UNCHANGED <<started, client, timer, policy, on, viaStart, wiring, starts>>
  BY DEF IdleEnds, DrainedStale, DrainedReopen, StillCurrent
<1>2. Untouched'
  BY <1>1 DEF Untouched, Up
<1>3. OneUnwinding'
  BY <1>1 DEF OneUnwinding, Unwinding, Attempts, OwnWork
<1>4. OwnWork'
  BY <1>1 DEF OwnWork
<1>5. Attempts'
  BY <1>1 DEF Attempts, Up, OneUnwinding, Unwinding, OwnWork
<1>6. UpIsOwned' /\ NoForgottenListeners' /\ ClientIsHeard' /\ NoTimerWithClient'
  BY <1>1 DEF UpIsOwned, NoForgottenListeners, Connecting, ClientIsHeard, NoTimerWithClient, Up
<1>7. Counted'
  BY <1>1 DEF Counted, Retrying, Starting
<1> QED
  BY <1>2, <1>3, <1>4, <1>5, <1>6, <1>7 DEF SerialParts

\* A successful attempt of a started watcher leaves the counters at zero,
\* also when it was start() that made it.
LEMMA ReturnedResets ==
  ASSUME SerialInv, NEW t \in Clients, pc[t] \in {"connecting", "opening"}, Returned(t), started
  PROVE  consecutiveFailures' = 0 /\ reconnectAttempts' = 0 /\ ~escalated'
<1>1. CASE viaStart[t]
  <2>1. t \in Starting /\ Retrying = {}
    BY <1>1 DEF SerialInv, Starting, Retrying, OneUnwinding, Unwinding
  <2> QED
    BY <1>1, <2>1 DEF SerialInv, SupTypeOK, Counted, Returned
<1>2. CASE ~viaStart[t]
  BY <1>2 DEF Returned, HandleReconnectSuccess, ResetCounters
<1> QED
  BY <1>1, <1>2

\* The attempt is over when there is no mailbox to open.
LEMMA ConnectNothingToWatchKept ==
  ASSUME Serial, SerialInv, NEW c \in Clients, ConnectNothingToWatch(c)
  PROVE  SerialParts'
<1> USE SupervisionAssumption DEF SerialInv, SupTypeOK
<1>1. /\ pc[c] = "connecting" /\ Up(c) /\ started /\ pc' = [pc EXCEPT ![c] = "free"] /\ client' = c
      /\ UNCHANGED <<started, timer, on, viaStart, wiring, starts>>
      /\ consecutiveFailures' = 0 /\ reconnectAttempts' = 0 /\ ~escalated'
  BY ReturnedResets DEF ConnectNothingToWatch
<1>2. Untouched'
  BY <1>1 DEF Untouched, Up
<1>3. OneUnwinding'
  BY <1>1 DEF OneUnwinding, Unwinding
<1>4. OwnWork'
  BY <1>1 DEF OwnWork
<1>5. Attempts'
  BY <1>1 DEF Attempts, Up, OneUnwinding, Unwinding, OwnWork
<1>6. UpIsOwned' /\ NoForgottenListeners' /\ ClientIsHeard' /\ NoTimerWithClient'
  BY <1>1 DEF UpIsOwned, NoForgottenListeners, Connecting, ClientIsHeard, NoTimerWithClient, Up,
     Attempts, OneUnwinding, Unwinding
<1>7. Counted'
  BY <1>1 DEF Counted, Retrying, Starting, OneUnwinding, Unwinding
<1> QED
  BY <1>2, <1>3, <1>4, <1>5, <1>6, <1>7 DEF SerialParts

\* The attempt is over when the first mailbox is open.
LEMMA OpenOkKept ==
  ASSUME Serial, SerialInv, NEW t \in Clients, OpenOk(t)
  PROVE  SerialParts'
<1> USE SupervisionAssumption DEF SerialInv, SupTypeOK
<1>1. /\ pc[t] = "opening" /\ (\E p \in {"idling", "free"} : pc' = [pc EXCEPT ![t] = p]) /\ on' = on
      /\ UNCHANGED <<started, client, timer, viaStart, wiring, starts>>
      /\ started => consecutiveFailures' = 0 /\ reconnectAttempts' = 0 /\ ~escalated'
  BY ReturnedResets DEF OpenOk, BeginIdle, OwnWork, Attempts
<1>2. Untouched'
  BY <1>1 DEF Untouched, Up
<1>3. OneUnwinding'
  BY <1>1 DEF OneUnwinding, Unwinding
<1>4. OwnWork'
  BY <1>1 DEF OwnWork
<1>5. Attempts'
  BY <1>1 DEF Attempts, Up, OneUnwinding, Unwinding, OwnWork
<1>6. UpIsOwned' /\ NoForgottenListeners' /\ ClientIsHeard' /\ NoTimerWithClient'
  BY <1>1 DEF UpIsOwned, NoForgottenListeners, Connecting, ClientIsHeard, NoTimerWithClient, Up,
     Attempts, OneUnwinding, Unwinding
<1>7. Counted'
  BY <1>1 DEF Counted, Retrying, Starting, OneUnwinding, Unwinding
<1> QED
  BY <1>2, <1>3, <1>4, <1>5, <1>6, <1>7 DEF SerialParts

\* The stop() inside connectAndWatch is over.
LEMMA StopUnwindsKept ==
  ASSUME Serial, SerialInv, NEW t \in Clients, StopUnwinds(t)
  PROVE  SerialParts'
<1> USE SupervisionAssumption DEF SerialInv, SupTypeOK
<1>1. /\ pc[t] = "stopping" /\ pc' = [pc EXCEPT ![t] = "free"] /\ ~started
      /\ UNCHANGED <<started, client, timer, on, viaStart, wiring, starts>>
  BY DEF StopUnwinds, Attempts
<1>2. Untouched'
  BY <1>1 DEF Untouched, Up
<1>3. OneUnwinding'
  BY <1>1 DEF OneUnwinding, Unwinding
<1>4. OwnWork'
  BY <1>1 DEF OwnWork
<1>5. Attempts'
  BY <1>1 DEF Attempts, Up, OneUnwinding, Unwinding, OwnWork
<1>6. UpIsOwned' /\ NoForgottenListeners' /\ ClientIsHeard' /\ NoTimerWithClient'
  BY <1>1 DEF UpIsOwned, NoForgottenListeners, Connecting, ClientIsHeard, NoTimerWithClient, Up,
     Attempts, OneUnwinding, Unwinding
<1>7. Counted'
  BY <1>1 DEF Counted, Retrying, Starting
<1> QED
  BY <1>2, <1>3, <1>4, <1>5, <1>6, <1>7 DEF SerialParts

\* The loop goes on with the same client, or ends.
LEMMA IdleAgainKept ==
  ASSUME Serial, SerialInv, NEW t \in Clients, DrainedIdleAgain(t) \/ ReopenOk(t)
  PROVE  SerialParts'
<1> USE SupervisionAssumption DEF SerialInv, SupTypeOK
<1>1. /\ pc[t] \in {"draining", "reopening"} /\ (\E p \in {"idling", "free"} : pc' = [pc EXCEPT ![t] = p])
      /\ on' = on
      /\ UNCHANGED <<started, client, timer, policy, viaStart, wiring, starts>>
  BY DEF DrainedIdleAgain, ReopenOk, BeginIdle, StillCurrent, OwnWork, Attempts
<1>2. Untouched'
  BY <1>1 DEF Untouched, Up
<1>3. OneUnwinding'
  BY <1>1 DEF OneUnwinding, Unwinding
<1>4. OwnWork'
  BY <1>1 DEF OwnWork
<1>5. Attempts'
  BY <1>1 DEF Attempts, Up, OneUnwinding, Unwinding, OwnWork
<1>6. UpIsOwned' /\ NoForgottenListeners' /\ ClientIsHeard' /\ NoTimerWithClient'
  BY <1>1 DEF UpIsOwned, NoForgottenListeners, Connecting, ClientIsHeard, NoTimerWithClient, Up,
     Attempts, OneUnwinding, Unwinding
<1>7. Counted'
  BY <1>1 DEF Counted, Retrying, Starting
<1> QED
  BY <1>2, <1>3, <1>4, <1>5, <1>6, <1>7 DEF SerialParts

\* A rejected IDLE drops its client, unless somebody else did.
LEMMA IdleFailsKept ==
  ASSUME Serial, SerialInv, NEW t \in Clients, IdleFails(t)
  PROVE  SerialParts'
<1> USE SupervisionAssumption DEF SerialInv, SupTypeOK
<1>1. /\ pc[t] = "idling" /\ pc' = [pc EXCEPT ![t] = "free"]
      /\ \/ /\ client' = NoClient /\ attached' = attached \ {client} /\ conn' = LogOut(conn, client)
            /\ client = on[t] /\ (started => timer')
         \/ UNCHANGED <<client, timer, attached, conn>>
      /\ UNCHANGED <<started, policy, on, viaStart, starts>>
  BY DEF IdleFails, HandleConnectionDrop, ReleaseClient, ScheduleReconnect, StillCurrent
<1>2. Untouched'
  BY <1>1, LogOutEffect DEF Untouched, Up
<1>3. OneUnwinding'
  BY <1>1, LogOutEffect DEF OneUnwinding, Unwinding
<1>4. OwnWork'
  BY <1>1, LogOutEffect DEF OwnWork
<1>5. Attempts'
  BY <1>1, LogOutEffect DEF Attempts, Up, OneUnwinding, Unwinding, OwnWork
<1>6. UpIsOwned' /\ NoForgottenListeners' /\ ClientIsHeard' /\ NoTimerWithClient'
  BY <1>1, LogOutEffect DEF UpIsOwned, NoForgottenListeners, Connecting, ClientIsHeard,
     NoTimerWithClient, Up, Attempts, OneUnwinding, Unwinding
<1>7. Counted'
  BY <1>1, LogOutEffect DEF Counted, Retrying, Starting
<1> QED
  BY <1>2, <1>3, <1>4, <1>5, <1>6, <1>7 DEF SerialParts

\* Error and close come from this.client or from a client being connected.
LEMMA ClientEventKept ==
  ASSUME Serial, SerialInv, NEW c \in Clients, NEW after \in {"errored", "closed"},
         ClientEvent(c, after)
  PROVE  SerialParts'
<1> USE SupervisionAssumption DEF SerialInv, SupTypeOK
<1> DEFINE cs == [conn EXCEPT ![c] = after]
<1>1. c \in attached /\ (c = client \/ pc[c] = "connecting") /\ UNCHANGED <<started, policy, threads, starts>>
  BY DEF ClientEvent, NoForgottenListeners, Connecting
<1>2. CASE started
  <2>1. client' = NoClient /\ attached' = attached \ {client} /\ conn' = LogOut(cs, client) /\ timer'
    BY <1>2 DEF ClientEvent, HandleConnectionDrop, ReleaseClient, ScheduleReconnect
  <2>2. cs \in [Clients -> ConnStates] /\ cs[c] = after /\ \A x \in Clients : x # c => cs[x] = conn[x]
    BY DEF ConnStates
  <2> HIDE DEF cs
  <2>3. /\ \A x \in Clients : x # client /\ x # c => conn'[x] = conn[x]
        /\ \A x \in Clients : Up(x)' => x # client /\ x # c /\ Up(x)
        /\ c = client => conn'[c] = "closed"
    <3>1. /\ \A x \in Clients : x # client => conn'[x] = cs[x]
          /\ \A x \in Clients : conn'[x] = "up" => x # client /\ cs[x] = "up"
          /\ client \in Clients /\ cs[client] \in {"errored", "closed"} => conn'[client] = "closed"
      BY <2>1, <2>2, LogOutEffect
    <3> QED
      BY <2>2, <3>1 DEF Up
  <2>4. Untouched'
    BY <1>1, <1>2 DEF Untouched
  <2>5. OneUnwinding' /\ OwnWork'
    BY <1>1 DEF OneUnwinding, Unwinding, OwnWork
  <2>6. Attempts'
    BY <1>1, <1>2, <2>1, <2>3 DEF Attempts, OneUnwinding, Unwinding
  <2>7. UpIsOwned' /\ NoForgottenListeners' /\ ClientIsHeard' /\ NoTimerWithClient'
    BY <1>1, <2>1, <2>3 DEF UpIsOwned, NoForgottenListeners, Connecting, ClientIsHeard,
       NoTimerWithClient
  <2>8. Counted'
    BY <1>1, <1>2, <2>1 DEF Counted, Retrying, Starting
  <2> QED
    BY <2>4, <2>5, <2>6, <2>7, <2>8 DEF SerialParts
<1>3. CASE ~started
  <2>1. UNCHANGED <<client, timer, attached>> /\ conn' = cs
    BY <1>3 DEF ClientEvent
  <2>2. Untouched'
    BY <1>1, <2>1 DEF Untouched, Up
  <2>3. OneUnwinding' /\ OwnWork'
    BY <1>1 DEF OneUnwinding, Unwinding, OwnWork
  <2>4. Attempts'
    BY <1>1, <1>3, <2>1 DEF Attempts, Up
  <2>5. UpIsOwned' /\ NoForgottenListeners' /\ ClientIsHeard' /\ NoTimerWithClient'
    BY <1>1, <1>3, <2>1 DEF UpIsOwned, Up, NoForgottenListeners, Connecting, ClientIsHeard,
       NoTimerWithClient
  <2>6. Counted'
    BY <1>1, <1>3 DEF Counted
  <2> QED
    BY <2>2, <2>3, <2>4, <2>5, <2>6 DEF SerialParts
<1> QED
  BY <1>2, <1>3

-----------------------------------------------------------------------------
\* Every step keeps the invariant.
LEMMA SerialStep == ASSUME Serial, SerialInv, [SupNext]_supVars PROVE SerialInv'
<1>1. SupTypeOK'
  BY TypeStep DEF SerialInv
<1>2. SerialParts'
  <2>1. CASE Stop \/ TimerExpires
    BY <2>1, StopKept, TimerExpiresKept
  <2>2. ASSUME NEW c \in Clients, Start(c) \/ TimerFires(c) PROVE SerialParts'
    BY <2>2, StartKept, TimerFiresKept
  <2>3. ASSUME NEW t \in Clients, ThreadStep(t) PROVE SerialParts'
    BY <2>3, ConnectAfterStopKept, ConnectNothingToWatchKept, ConnectThenOpenKept, OpenOkKept,
       AttemptFailsKept, StartRejectsKept, ReconnectFailureKept, StopUnwindsKept, LoopMoveKept,
       IdleAgainKept, ReopenFailsKept
    DEF ThreadStep
  <2>4. ASSUME NEW t \in Clients, IdleEnds(t) \/ IdleFails(t) PROVE SerialParts'
    BY <2>4, LoopMoveKept, IdleFailsKept
  <2>5. ASSUME NEW c \in Clients, ClientStep(c) PROVE SerialParts'
    BY <2>5, ClientEventKept, LoggedOutKept DEF ClientStep, HandleError, HandleClose
  <2>6. CASE UNCHANGED supVars
    BY <2>6 DEF SerialInv, SerialParts, OneUnwinding, Unwinding, OwnWork, Untouched, Attempts, Up,
       UpIsOwned, NoForgottenListeners, Connecting, ClientIsHeard, NoTimerWithClient, Counted,
       Retrying, Starting
  <2> QED
    BY <2>1, <2>2, <2>3, <2>4, <2>5, <2>6 DEF SupNext
<1> QED
  BY <1>1, <1>2 DEF SerialInv, SerialParts

\* The initial state satisfies it.
LEMMA SerialInit == ASSUME SupInit PROVE SerialInv
<1>1. SupTypeOK
  BY InitTypeOK
<1>2. Retrying = {} /\ Starting = {}
  BY DEF SupInit, Retrying, Starting
<1> QED
  BY <1>1, <1>2, SupervisionAssumption
  DEF SupInit, SerialInv, OneUnwinding, Unwinding, OwnWork, Untouched, Attempts, Up,
      UpIsOwned, NoForgottenListeners, ClientIsHeard, NoTimerWithClient, Counted

\* It holds throughout.
LEMMA SerialInvariant == ASSUME Serial PROVE SupSpec => []SerialInv
BY SerialInit, SerialStep, PTL DEF SupSpec

(* One account holds one IMAP connection: whatever order drops, timers,    *)
(* failures and answers come in, at most one client is connected.          *)
THEOREM OneConnection == ASSUME Serial PROVE SupSpec => []AtMostOneConnection
<1>1. SerialInv => AtMostOneConnection
  <2> SUFFICES ASSUME SerialInv PROVE Cardinality({c \in Clients : Up(c)}) <= 1
    BY DEF AtMostOneConnection
  <2>1. PICK x : {c \in Clients : Up(c)} \subseteq {x}
    <3>1. CASE Connecting = {}
      <4>1. {c \in Clients : Up(c)} \subseteq {client}
        BY <3>1 DEF SerialInv, UpIsOwned, Connecting
      <4> QED
        BY <4>1
    <3>2. ASSUME NEW t \in Connecting PROVE {c \in Clients : Up(c)} \subseteq {t}
      BY <3>2, SupervisionAssumption
      DEF SerialInv, UpIsOwned, Connecting, Attempts, OneUnwinding, Unwinding
    <3> QED
      BY <3>1, <3>2
  <2>2. IsFiniteSet({x}) /\ Cardinality({x}) = 1
    BY FS_Singleton
  <2> QED
    BY <2>1, <2>2, FS_Subset
<1> QED
  BY <1>1, SerialInvariant, PTL

(* The watcher's listeners are on this.client and on the client that is    *)
(* being connected, and nowhere else.                                      *)
THEOREM ListenersAccounted == ASSUME Serial PROVE SupSpec => []NoForgottenListeners
<1>1. SerialInv => NoForgottenListeners
  BY DEF SerialInv
<1> QED
  BY <1>1, SerialInvariant, PTL

(* this.client of a started watcher is connected and heard, except while   *)
(* the attempt that made it unwinds.                                       *)
THEOREM CurrentClientIsHeard == ASSUME Serial PROVE SupSpec => []ClientIsHeard
<1>1. SerialInv => ClientIsHeard
  BY DEF SerialInv
<1> QED
  BY <1>1, SerialInvariant, PTL

(* The backoff and the escalation count the same attempts: each ends once, *)
(* as a counted failure or as the success that resets the counters.        *)
THEOREM EveryAttemptCounted == ASSUME Serial PROVE SupSpec => []AttemptsAccounted
<1>1. SerialInv => AttemptsAccounted
  <2> SUFFICES ASSUME SerialInv, started
               PROVE  reconnectAttempts = consecutiveFailures + Cardinality(Retrying)
    BY DEF AttemptsAccounted
  <2>1. CASE Retrying = {}
    BY <2>1, FS_EmptySet DEF SerialInv, Counted
  <2>2. CASE Retrying # {}
    <3>1. PICK t : Retrying = {t}
      BY <2>2 DEF SerialInv, Retrying, OneUnwinding, Unwinding
    <3>2. Cardinality(Retrying) = 1
      BY <3>1, FS_Singleton
    <3> QED
      BY <2>2, <3>2 DEF SerialInv, Counted
  <2> QED
    BY <2>1, <2>2
<1> QED
  BY <1>1, SerialInvariant, PTL

-----------------------------------------------------------------------------
\* this.client of a stopped watcher is one whose start() has failed.
ClientReleased == ~started /\ client # NoClient => ~Up(client) /\ client \notin attached

\* A stopped watcher takes up no client, and no connection comes up.
LEMMA WhileStopped ==
  ASSUME SupTypeOK, SupNext, ~started, ~started'
  PROVE  /\ client' \in {client, NoClient} /\ attached' \subseteq attached
         /\ \A c \in Clients : Up(c)' => Up(c)
<1> USE DEF SupTypeOK, Up, LogOut
<1>1. CASE Stop \/ TimerExpires
  BY <1>1 DEF Stop, StopNow, TimerExpires
<1>2. ASSUME NEW c \in Clients, Start(c) \/ TimerFires(c) PROVE FALSE
  BY <1>2 DEF Start, TimerFires
<1>3. ASSUME NEW t \in Clients,
             \/ ConnectAfterStop(t) \/ AttemptFails(t) \/ HandleReconnectFailure(t)
             \/ ReopenFails(t) \/ IdleFails(t)
      PROVE  /\ client' \in {client, NoClient} /\ attached' \subseteq attached
             /\ \A c \in Clients : Up(c)' => Up(c)
  BY <1>3 DEF ConnectAfterStop, StopNow, AttemptFails, HandleReconnectFailure, ReopenFails,
     IdleFails, HandleConnectionDrop, ReleaseClient
<1>4. ASSUME NEW t \in Clients,
             \/ ConnectNothingToWatch(t) \/ ConnectThenOpen(t) \/ OpenOk(t) \/ StartRejects(t)
             \/ StopUnwinds(t) \/ DrainedStale(t) \/ DrainedIdleAgain(t) \/ DrainedReopen(t)
             \/ ReopenOk(t) \/ IdleEnds(t)
      PROVE  client' = client /\ UNCHANGED wiring
  BY <1>4 DEF ConnectNothingToWatch, ConnectThenOpen, OpenOk, StartRejects, StopUnwinds,
     DrainedStale, DrainedIdleAgain, DrainedReopen, ReopenOk, IdleEnds
<1>5. ASSUME NEW c \in Clients, ClientStep(c)
      PROVE  /\ client' = client /\ attached' = attached
             /\ \A x \in Clients : Up(x)' => Up(x)
  BY <1>5 DEF ClientStep, HandleError, HandleClose, ClientEvent, LogoutCompletes,
     ErrorWithoutListener
<1> QED
  BY <1>1, <1>2, <1>3, <1>4, <1>5 DEF SupNext, ThreadStep, wiring

(* stop() in any phase of an attempt, and a start() that fails, release    *)
(* what the watcher had: a stopped watcher has no connection up and no     *)
(* listener, except those of a connect() under way, which is given up when *)
(* it settles.  The safety part of ReleasedAfterStop.                      *)
THEOREM ReleasedWhenStopped ==
  ASSUME Serial
  PROVE  SupSpec => [](~started => \A c \in Clients : Up(c) \/ c \in attached => pc[c] = "connecting")
<1>1. SupInit => ClientReleased
  BY DEF SupInit, ClientReleased
<1>2. SerialInv /\ ClientReleased /\ [SupNext]_supVars => ClientReleased'
  <2> SUFFICES ASSUME SerialInv, ClientReleased, [SupNext]_supVars, ~started', client' # NoClient
               PROVE  ~Up(client)' /\ client' \notin attached'
    BY DEF ClientReleased
  <2>1. CASE UNCHANGED supVars
    BY <2>1 DEF ClientReleased, supVars, wiring, Up
  <2>2. CASE SupNext /\ ~started
    <3>1. /\ client' \in {client, NoClient} /\ attached' \subseteq attached
          /\ \A c \in Clients : Up(c)' => Up(c)
      BY <2>2, WhileStopped DEF SerialInv
    <3> QED
      BY <2>2, <3>1 DEF ClientReleased, SerialInv, SupTypeOK, Up
  <2>3. CASE SupNext /\ started
    <3>1. PICK t \in Clients : StartRejects(t)
      <4>1. ~Stop /\ ~TimerExpires
        BY <2>3 DEF Stop, StopNow, TimerExpires
      <4>2. \A c \in Clients : ~Start(c) /\ ~TimerFires(c) /\ ~ClientStep(c)
        BY <2>3 DEF Start, TimerFires, ClientStep, HandleError, HandleClose, ClientEvent,
           LogoutCompletes, ErrorWithoutListener
      <4>3. \A t \in Clients : ~IdleEnds(t) /\ ~IdleFails(t) /\ ~ConnectAfterStop(t)
        BY <2>3 DEF IdleEnds, IdleFails, ConnectAfterStop
      <4>4. \A t \in Clients : ThreadStep(t) => StartRejects(t)
        BY <2>3, <4>3 DEF ThreadStep, ConnectNothingToWatch, ConnectThenOpen, OpenOk, AttemptFails,
           HandleReconnectFailure, StopUnwinds, DrainedStale, DrainedIdleAgain, DrainedReopen,
           ReopenOk, ReopenFails
      <4> QED
        BY <2>3, <4>1, <4>2, <4>3, <4>4 DEF SupNext
    <3>2. client \in {t, NoClient} /\ ~Up(t) /\ t \notin attached
      BY <3>1 DEF SerialInv, Attempts, StartRejects
    <3> QED
      BY <3>1, <3>2 DEF StartRejects, wiring, Up
  <2> QED
    BY <2>1, <2>2, <2>3
<1>3. SerialInv /\ ClientReleased =>
        (~started => \A c \in Clients : Up(c) \/ c \in attached => pc[c] = "connecting")
  BY SupervisionAssumption
  DEF SerialInv, ClientReleased, UpIsOwned, NoForgottenListeners, Connecting
<1> QED
  BY <1>1, <1>2, <1>3, SerialInvariant, PTL DEF SupSpec

-----------------------------------------------------------------------------
(* The refinement of ReconnectPolicy.                                      *)

\* A step that leaves the attempts, the timer and the counters of a started
\* watcher alone.
LEMMA SameMode ==
  ASSUME SerialInv, started' = started,
         started => UNCHANGED <<timer, consecutiveFailures, escalated>>
                    /\ Starting' = Starting /\ Retrying' = Retrying
  PROVE  UNCHANGED Policy!policyVars
BY DEF SerialInv, SupTypeOK, Policy!policyVars, policyMode

\* A step that ends with a stopped watcher turns the policy off.
LEMMA TurnedOff ==
  ASSUME SerialInv, ~started'
  PROVE  Policy!TurnOff
BY DEF policyMode, Policy!TurnOff, Policy!Reset

\* Before start() the policy is off.
LEMMA InitRefines == SupInit => Policy!Init
BY DEF SupInit, Policy!Init, policyMode

\* start() begins.
LEMMA StartRefines ==
  ASSUME Serial, SerialInv, SerialInv', NEW c \in Clients, Start(c)
  PROVE  Policy!Begin
<1>1. ~started /\ started' /\ pc'[c] = "connecting" /\ viaStart'[c] /\ starts = 0
      /\ UNCHANGED <<consecutiveFailures, escalated>>
  BY SupervisionAssumption DEF Start, ConnectAndWatch, SerialInv, SupTypeOK, Serial
<1>2. c \in Starting'
  BY <1>1 DEF Starting
<1>3. consecutiveFailures' = 0 /\ ~escalated'
  BY <1>1 DEF SerialInv, Untouched
<1> QED
  BY <1>1, <1>2, <1>3 DEF policyMode, Policy!Begin, Policy!Reset

\* The timer begins a retry.
LEMMA TimerFiresRefines ==
  ASSUME Serial, SerialInv, SerialInv', NEW c \in Clients, TimerFires(c)
  PROVE  Policy!Retry
<1>1. /\ started /\ started' /\ timer /\ Unwinding = {}
      /\ pc' = [pc EXCEPT ![c] = "connecting"] /\ viaStart' = [viaStart EXCEPT ![c] = FALSE]
      /\ UNCHANGED <<consecutiveFailures, escalated>>
  BY DEF TimerFires, ConnectAndWatch, Serial
<1>2. Starting = {} /\ Retrying = {}
  BY <1>1 DEF Starting, Retrying, Unwinding
<1>3. Starting' = {} /\ c \in Retrying'
  BY <1>1 DEF Starting, Retrying, Unwinding, SerialInv, SupTypeOK
<1> QED
  BY <1>1, <1>2, <1>3 DEF policyMode, Policy!Retry

\* An attempt that succeeds: this.client is set and the attempt is over.
LEMMA SuccessRefines ==
  ASSUME SerialInv, started, started', NEW t \in Clients, pc[t] \in {"connecting", "opening"},
         ~timer', UNCHANGED viaStart,
         consecutiveFailures' = 0, ~escalated',
         NEW p \in {"idling", "free"}, pc' = [pc EXCEPT ![t] = p]
  PROVE  Policy!Established
<1>1. t \in Starting \/ (Starting = {} /\ t \in Retrying)
  BY DEF SerialInv, OneUnwinding, Unwinding, Starting, Retrying
<1>2. Starting' = {} /\ Retrying' = {}
  BY DEF SerialInv, SupTypeOK, OneUnwinding, Unwinding, Starting, Retrying
<1> QED
  BY <1>1, <1>2 DEF policyMode, Policy!Established, Policy!Reset

\* Without mailboxes the connection is enough,
LEMMA ConnectNothingToWatchRefines ==
  ASSUME SerialInv, NEW c \in Clients, ConnectNothingToWatch(c)
  PROVE  Policy!Established
<1>1. pc[c] = "connecting" /\ started /\ started' /\ pc' = [pc EXCEPT ![c] = "free"]
      /\ UNCHANGED <<timer, viaStart>> /\ Up(c) /\ Returned(c)
  BY DEF ConnectNothingToWatch
<1>2. ~timer'
  BY <1>1 DEF SerialInv, Attempts
<1> QED
  BY <1>1, <1>2, ReturnedResets, SuccessRefines

\* and with mailboxes the first of them must be open.  No drop has come between:
\* its answer would not have arrived.
LEMMA OpenOkRefines ==
  ASSUME SerialInv, NEW t \in Clients, OpenOk(t), started
  PROVE  Policy!Established
<1>1. pc[t] = "opening" /\ started' /\ UNCHANGED <<timer, viaStart>> /\ Returned(t)
      /\ Answers(t) /\ BeginIdle(t)
  BY DEF OpenOk, SerialInv, OwnWork
<1>2. client = t
  BY <1>1 DEF SerialInv, Attempts, Answers, Up
<1>3. ~timer'
  BY <1>1, <1>2, SupervisionAssumption DEF SerialInv, NoTimerWithClient
<1>4. \E p \in {"idling", "free"} : pc' = [pc EXCEPT ![t] = p]
  BY <1>1 DEF BeginIdle
<1> QED
  BY <1>1, <1>3, <1>4, ReturnedResets, SuccessRefines

\* A failed reconnect is a failed retry, and escalates as the policy does.
LEMMA ReconnectFailureRefines ==
  ASSUME SerialInv, NEW t \in Clients, HandleReconnectFailure(t), started
  PROVE  Policy!RetryFailed
<1>1. /\ pc[t] = "failing" /\ ~viaStart[t] /\ pc' = [pc EXCEPT ![t] = "free"]
      /\ started' /\ timer' /\ consecutiveFailures' = consecutiveFailures + 1
      /\ escalated' = (escalated \/ consecutiveFailures + 1 >= Threshold) /\ viaStart' = viaStart
  BY DEF HandleReconnectFailure, HandleConnectionDrop, ScheduleReconnect, Escalates
<1>2. Starting = {} /\ t \in Retrying
  BY <1>1 DEF SerialInv, OneUnwinding, Unwinding, Starting, Retrying
<1>3. Starting' = {} /\ Retrying' = {}
  BY <1>1 DEF SerialInv, SupTypeOK, OneUnwinding, Unwinding, Starting, Retrying
<1>4. policyMode = "retrying" /\ policyMode' = "backoff"
  BY <1>1, <1>2, <1>3 DEF policyMode
<1> QED
  BY <1>1, <1>4 DEF Policy!RetryFailed, SerialInv, SupTypeOK

\* A drop while an attempt is made is left to the attempt; any other ends an
\* established connection, unless the timer is armed already.
LEMMA DropRefines ==
  ASSUME SerialInv, started, started', timer', UNCHANGED <<consecutiveFailures, escalated>>,
         Starting' = Starting, Retrying' = Retrying
  PROVE  Policy!Lost \/ UNCHANGED Policy!policyVars
<1>1. CASE Starting # {} \/ Retrying # {} \/ timer
  BY <1>1 DEF Policy!policyVars, policyMode
<1>2. CASE Starting = {} /\ Retrying = {} /\ ~timer
  BY <1>2 DEF Policy!Lost, Policy!Reset, policyMode, SerialInv, Counted
<1> QED
  BY <1>1, <1>2

\* Moves that neither begin nor end an attempt.
LEMMA MoveRefines ==
  ASSUME SerialInv, NEW t \in Clients,
         \/ ConnectThenOpen(t) \/ AttemptFails(t) \/ DrainedStale(t) \/ DrainedIdleAgain(t)
         \/ DrainedReopen(t) \/ ReopenOk(t) \/ IdleEnds(t) \/ LogoutCompletes(t)
         \/ ErrorWithoutListener(t)
  PROVE  UNCHANGED Policy!policyVars
<1>1. UNCHANGED <<started, timer, consecutiveFailures, escalated, viaStart>>
  BY DEF ConnectThenOpen, AttemptFails, DrainedStale, DrainedIdleAgain, DrainedReopen, ReopenOk,
         IdleEnds, LogoutCompletes, ErrorWithoutListener
<1>2. \A s \in Clients : pc[s] \in {"connecting", "opening", "failing"}
                           <=> pc'[s] \in {"connecting", "opening", "failing"}
  BY DEF ConnectThenOpen, AttemptFails, DrainedStale, DrainedIdleAgain, DrainedReopen, ReopenOk,
         IdleEnds, LogoutCompletes, ErrorWithoutListener, BeginIdle, SerialInv, SupTypeOK
<1>3. Starting' = Starting /\ Retrying' = Retrying
  BY <1>1, <1>2 DEF Starting, Retrying
<1> QED
  BY <1>1, <1>3, SameMode

\* A rejected IDLE or round-robin, with its client or without it.
LEMMA IdleFailsRefines ==
  ASSUME SerialInv, NEW t \in Clients, IdleFails(t) \/ ReopenFails(t), started
  PROVE  Policy!Lost \/ UNCHANGED Policy!policyVars
<1>1. /\ pc[t] \in {"idling", "reopening"} /\ pc' = [pc EXCEPT ![t] = "free"]
      /\ started' /\ UNCHANGED <<consecutiveFailures, escalated, viaStart>> /\ (timer' \/ timer' = timer)
  BY DEF IdleFails, ReopenFails, HandleConnectionDrop, ScheduleReconnect
<1>2. Starting' = Starting /\ Retrying' = Retrying
  BY <1>1 DEF SerialInv, SupTypeOK, Starting, Retrying
<1>3. CASE timer'
  BY <1>1, <1>2, <1>3, DropRefines
<1>4. CASE timer' = timer
  BY <1>1, <1>2, <1>4, SameMode
<1> QED
  BY <1>1, <1>3, <1>4

\* Error and close of a client.
LEMMA ClientEventRefines ==
  ASSUME SerialInv, NEW c \in Clients, NEW after, ClientEvent(c, after), started
  PROVE  Policy!Lost \/ UNCHANGED Policy!policyVars
<1>1. started' /\ timer' /\ UNCHANGED <<consecutiveFailures, escalated, pc, viaStart>>
  BY DEF ClientEvent, HandleConnectionDrop, ScheduleReconnect
<1>2. Starting' = Starting /\ Retrying' = Retrying
  BY <1>1 DEF Starting, Retrying
<1> QED
  BY <1>1, <1>2, DropRefines

\* While the watcher is stopped, and when it is being stopped, the policy is
\* off.
LEMMA StoppedRefines ==
  ASSUME SerialInv, ~started, ~started'
  PROVE  UNCHANGED Policy!policyVars
BY DEF Policy!policyVars, policyMode

\* A step of connectAndWatch or of the IDLE loop.
LEMMA ThreadStepRefines ==
  ASSUME SerialInv, NEW t \in Clients, ThreadStep(t), started
  PROVE  [Policy!Next]_(Policy!policyVars)
<1>1. CASE ConnectAfterStop(t) \/ StopUnwinds(t)
  BY <1>1 DEF ConnectAfterStop, StopUnwinds, SerialInv, Attempts
<1>2. CASE ConnectNothingToWatch(t)
  BY <1>2, ConnectNothingToWatchRefines DEF Policy!Next
<1>3. CASE OpenOk(t)
  BY <1>3, OpenOkRefines DEF Policy!Next
<1>4. CASE StartRejects(t)
  BY <1>4, TurnedOff DEF StartRejects, Policy!Next
<1>5. CASE HandleReconnectFailure(t)
  BY <1>5, ReconnectFailureRefines DEF Policy!Next
<1>6. CASE ReopenFails(t)
  BY <1>6, IdleFailsRefines DEF Policy!Next
<1>7. CASE \/ ConnectThenOpen(t) \/ AttemptFails(t) \/ DrainedStale(t) \/ DrainedIdleAgain(t)
           \/ DrainedReopen(t) \/ ReopenOk(t)
  BY <1>7, MoveRefines
<1> QED
  BY <1>1, <1>2, <1>3, <1>4, <1>5, <1>6, <1>7 DEF ThreadStep

\* Every step is a step of the policy or none.
LEMMA StepRefines ==
  ASSUME Serial, SerialInv, SerialInv', [SupNext]_supVars
  PROVE  [Policy!Next]_(Policy!policyVars)
<1>1. CASE ~started /\ ~started'
  BY <1>1, StoppedRefines
<1>2. CASE ~started'
  BY <1>2, TurnedOff DEF Policy!Next
<1>3. ASSUME NEW c \in Clients, Start(c) PROVE [Policy!Next]_(Policy!policyVars)
  BY <1>3, StartRefines DEF Policy!Next
<1>4. ASSUME NEW c \in Clients, TimerFires(c) PROVE [Policy!Next]_(Policy!policyVars)
  BY <1>4, TimerFiresRefines DEF Policy!Next
<1>5. ASSUME NEW t \in Clients, ThreadStep(t), started PROVE [Policy!Next]_(Policy!policyVars)
  BY <1>5, ThreadStepRefines
<1>6. ASSUME NEW t \in Clients, IdleEnds(t) \/ IdleFails(t), started
      PROVE  [Policy!Next]_(Policy!policyVars)
  BY <1>6, MoveRefines, IdleFailsRefines DEF Policy!Next
<1>7. ASSUME NEW c \in Clients, ClientStep(c), started PROVE [Policy!Next]_(Policy!policyVars)
  BY <1>7, ClientEventRefines, MoveRefines DEF ClientStep, HandleError, HandleClose, Policy!Next
<1>8. CASE UNCHANGED supVars
  BY <1>8, SameMode DEF Starting, Retrying
<1>9. ASSUME SupNext, ~started, started' PROVE \E c \in Clients : Start(c)
  BY <1>9 DEF SupNext, Stop, StopNow, TimerExpires, TimerFires, ThreadStep, ConnectAfterStop,
     ConnectNothingToWatch, ConnectThenOpen, OpenOk, AttemptFails, StartRejects,
     HandleReconnectFailure, StopUnwinds, DrainedStale, DrainedIdleAgain, DrainedReopen, ReopenOk,
     ReopenFails, IdleEnds, IdleFails, ClientStep, HandleError, HandleClose, ClientEvent,
     LogoutCompletes, ErrorWithoutListener
<1>10. ASSUME SupNext, started, started'
       PROVE  \E c \in Clients :
                \/ TimerFires(c) \/ ThreadStep(c) \/ IdleEnds(c) \/ IdleFails(c) \/ ClientStep(c)
  BY <1>10 DEF SupNext, Stop, StopNow, TimerExpires, Start
<1> QED
  BY <1>1, <1>2, <1>3, <1>4, <1>5, <1>6, <1>7, <1>8, <1>9, <1>10

(* The supervision implements ReconnectPolicy: one retry at a time, every  *)
(* failed one counted, one alarm per outage, a success ending the outage.  *)
THEOREM PolicyImplemented == ASSUME Serial PROVE SupSpec => ImplementsPolicy
<1>1. SupInit => Policy!Init
  BY InitRefines
<1>2. SerialInv /\ SerialInv' /\ [SupNext]_supVars => [Policy!Next]_(Policy!policyVars)
  BY StepRefines
<1> QED
  BY <1>1, <1>2, SerialInvariant, PTL DEF SupSpec, ImplementsPolicy, Policy!Spec
=============================================================================
