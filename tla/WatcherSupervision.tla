-------------------------- MODULE WatcherSupervision --------------------------
(***************************************************************************)
(* The connection lifecycle of one AccountWatcher (src/imap/watcher.ts):   *)
(* start, stop, the IDLE loop, connection drops and the reconnect          *)
(* supervision with its escalation.  What the watcher knows about the      *)
(* mailboxes and how it turns EXISTS into newMail events is added, action  *)
(* by action, by module AccountWatcher, which EXTENDS this one.            *)
(*                                                                         *)
(* A client is one WatcherClient (an ImapFlow instance).  Each client is   *)
(* made by exactly one call of connectAndWatch, and that call, followed by *)
(* the IDLE loop it starts, is one asynchronous thread; so threads carry   *)
(* the name of the client they made.  The thread's captured `client`       *)
(* variable is on[t], which need not be t once attempts overlap.           *)
(*                                                                         *)
(* An action is one turn of the event loop: the code from the settlement   *)
(* of an awaited promise, a timer or an event to the next await.           *)
(***************************************************************************)
EXTENDS Integers, FiniteSets

CONSTANTS
  Clients,       \* WatcherClient objects; an unreferenced one is reused
  NoClient,      \* `undefined`
  MailboxCounts, \* values of account.watchMailboxes.length
  Threshold,     \* reconnectFailureThreshold
  MaxFailures,   \* bound: failed attempts in a row the environment may cause
  MaxAttempts,   \* bound: value of reconnectAttempts
  MaxStarts,     \* bound: calls of start()
  Faults         \* which of FaultKinds the environment may show

(***************************************************************************)
(* "overtake":  the jittered reconnect delay, which may be 0, can elapse   *)
(*              before an earlier attempt has finished unwinding;          *)
(* "lateError": a client can emit `error` while it is logging out;         *)
(* the others concern AccountWatcher: "linger", a command still pending    *)
(* when logout() was issued may be answered; "fetch", a FETCH may fail;    *)
(* "noExists", "noUidNext", "noUidValidity", a mailboxOpen result may lack *)
(* the field; "expunge" and "rebuild", messages are removed or renumbered  *)
(* on the server.                                                          *)
(***************************************************************************)
FaultKinds ==
  {"overtake", "lateError", "linger", "fetch", "noExists", "noUidNext", "noUidValidity",
   "expunge", "rebuild"}

ASSUME SupervisionAssumption ==
  /\ IsFiniteSet(Clients)
  /\ NoClient \notin Clients
  /\ MailboxCounts \subseteq Nat
  /\ Threshold \in Nat \ {0}
  /\ MaxFailures \in Nat
  /\ MaxAttempts \in Nat
  /\ MaxStarts \in Nat
  /\ Faults \subseteq FaultKinds

VARIABLES
  numMailboxes,         \* this.account.watchMailboxes.length, which is fixed
  started,              \* this.started
  client,               \* this.client
  timer,                \* this.reconnectTimer is set
  consecutiveFailures,  \* this.consecutiveFailures
  reconnectAttempts,    \* this.reconnectAttempts
  escalated,            \* this.escalated
  outage,               \* this.outageStartedAt is set
  pc,                   \* where thread t is suspended
  on,                   \* the client thread t has captured
  viaStart,             \* thread t was called by start(), not reconnect()
  attached,             \* clients that have the watcher's listeners
  conn,                 \* state of the clients' connections (external)
  starts,               \* calls of start() so far (bound)
  crashed               \* an `error` event found no listener

policy == <<consecutiveFailures, reconnectAttempts, escalated>>
wiring == <<attached, conn>>
threads == <<pc, on, viaStart>>
process == <<numMailboxes, crashed>>
supVars == <<started, client, timer, policy, outage, threads, wiring, starts, process>>

(***************************************************************************)
(* "free" the thread has ended; "connecting" awaits client.connect();      *)
(* "stopping" awaits stop() inside connectAndWatch; "opening" awaits the   *)
(* first mailboxOpen; "failing" awaits logout() in the catch block;        *)
(* "idling" awaits idle(); "draining" awaits pendingEnrichment;            *)
(* "reopening" awaits the mailboxOpen of the round-robin.                  *)
(***************************************************************************)
Phases == {"free", "connecting", "stopping", "opening", "failing",
           "idling", "draining", "reopening"}

(***************************************************************************)
(* "up" until the connection breaks; "errored" after `error` with `close`  *)
(* still to come; "leaving" while a logout() is under way; "closed".       *)
(***************************************************************************)
ConnStates == {"up", "errored", "leaving", "closed"}

SupTypeOK ==
  /\ numMailboxes \in MailboxCounts
  /\ started \in BOOLEAN
  /\ client \in Clients \cup {NoClient}
  /\ timer \in BOOLEAN
  /\ consecutiveFailures \in Nat
  /\ reconnectAttempts \in Nat
  /\ escalated \in BOOLEAN
  /\ outage \in BOOLEAN
  /\ pc \in [Clients -> Phases]
  /\ on \in [Clients -> Clients]
  /\ viaStart \in [Clients -> BOOLEAN]
  /\ attached \in SUBSET Clients
  /\ conn \in [Clients -> ConnStates]
  /\ starts \in 0..MaxStarts
  /\ crashed \in BOOLEAN

SupInit ==
  /\ numMailboxes \in MailboxCounts
  /\ started = FALSE
  /\ client = NoClient
  /\ timer = FALSE
  /\ consecutiveFailures = 0
  /\ reconnectAttempts = 0
  /\ escalated = FALSE
  /\ outage = FALSE
  /\ pc = [t \in Clients |-> "free"]
  /\ on = [t \in Clients |-> t]
  /\ viaStart = [t \in Clients |-> FALSE]
  /\ attached = {}
  /\ conn = [c \in Clients |-> "closed"]
  /\ starts = 0
  /\ crashed = FALSE

-----------------------------------------------------------------------------
(* Helpers.  `cs` is the state of the connections and `at` the set of      *)
(* attached clients before the call.                                       *)

\* client.logout(): a broken connection has nothing left to wait for.
LogOut(cs, c) ==
  IF c = NoClient THEN cs
  ELSE [cs EXCEPT ![c] = IF @ = "up" THEN "leaving"
                         ELSE IF @ = "errored" THEN "closed" ELSE @]

\* Nothing refers to c any more, so the next `new ImapFlow` may be c.
Free(c) ==
  /\ pc[c] = "free"
  /\ c # client
  /\ c \notin attached
  /\ conn[c] = "closed"
  /\ \A t \in Clients : pc[t] # "free" => on[t] # c

Up(c) == conn[c] = "up"

\* An answer may still arrive on a connection that is being logged out.
Answers(c) == Up(c) \/ (conn[c] = "leaving" /\ "linger" \in Faults)

\* The environment fails at most MaxFailures attempts in a row.
MayFail == consecutiveFailures < MaxFailures

\* Threads that have a rejected promise, or one about to settle, to unwind.
Unwinding ==
  {t \in Clients : pc[t] \in {"connecting", "opening", "failing", "stopping", "reopening"}}

\* isConnected()
isConnected == client # NoClient

\* The thread's own check `this.started && client === this.client`.
StillCurrent(t) == started /\ on[t] = client

\* connectAndWatch() up to `await client.connect()`.
ConnectAndWatch(c, fromStart) ==
  /\ pc' = [pc EXCEPT ![c] = "connecting"]
  /\ on' = [on EXCEPT ![c] = c]
  /\ viaStart' = [viaStart EXCEPT ![c] = fromStart]
  /\ attached' = attached \cup {c}
  /\ conn' = [conn EXCEPT ![c] = "up"]

\* beginIdle() called by thread t: idle() on the current client, or the end.
BeginIdle(t) ==
  IF client # NoClient /\ started
  THEN /\ pc' = [pc EXCEPT ![t] = "idling"]
       /\ on' = [on EXCEPT ![t] = client]
  ELSE /\ pc' = [pc EXCEPT ![t] = "free"]
       /\ on' = on

\* Mutant: the lost client is not logged out.
ReleaseClient_NoLogout(at, cs) == client' = NoClient /\ attached' = at \ {client} /\ conn' = cs

\* Mutant: the lost client keeps the listeners.
ReleaseClient_NoDetach(at, cs) ==
  client' = NoClient /\ attached' = at /\ conn' = LogOut(cs, client)

\* Mutant: this.client is not cleared.
ReleaseClient_KeepsClient(at, cs) ==
  client' = client /\ attached' = at \ {client} /\ conn' = LogOut(cs, client)

ReleaseClient(at, cs) ==
  client' = NoClient /\ attached' = at \ {client} /\ conn' = LogOut(cs, client)

\* Mutant: a later drop of the same outage does not schedule a reconnect.
ScheduleReconnect_OncePerOutage == timer' = (timer \/ (started /\ ~outage))

ScheduleReconnect == timer' = (timer \/ started)

HandleConnectionDrop(at, cs) ==
  /\ ReleaseClient(at, cs)
  /\ ScheduleReconnect
  /\ outage' = (outage \/ (started /\ ~timer))

\* Mutant: a success takes back one failure instead of all.
ResetCounters_Decrements == consecutiveFailures' = consecutiveFailures - 1 /\ reconnectAttempts' = 0

\* Mutant: a success leaves the attempts of the outage counted.
ResetCounters_KeepsAttempts ==
  consecutiveFailures' = 0 /\ reconnectAttempts' = reconnectAttempts

ResetCounters == consecutiveFailures' = 0 /\ reconnectAttempts' = 0

HandleReconnectSuccess == ResetCounters /\ escalated' = FALSE /\ outage' = FALSE

\* What the caller does when the connectAndWatch of thread t returns.
Returned(t) ==
  IF viaStart[t] THEN UNCHANGED <<policy, outage>> ELSE HandleReconnectSuccess

\* The synchronous part of stop(), with cl the value of this.client.
StopNow(cl) ==
  /\ started' = FALSE
  /\ client' = NoClient
  /\ timer' = FALSE
  /\ consecutiveFailures' = 0
  /\ reconnectAttempts' = 0
  /\ escalated' = FALSE
  /\ outage' = FALSE
  /\ attached' = attached \ {cl}
  /\ conn' = LogOut(conn, cl)

-----------------------------------------------------------------------------
(* Calls from the application and the reconnect timer.                     *)

Start(c) ==
  /\ ~started
  /\ starts < MaxStarts
  /\ Free(c)
  /\ started' = TRUE
  /\ starts' = starts + 1
  /\ ConnectAndWatch(c, TRUE)
  /\ UNCHANGED <<client, timer, policy, outage, process>>

Stop ==
  /\ StopNow(client)
  /\ UNCHANGED <<threads, starts, process>>

\* The callback of reconnectTimer, and reconnect() up to its await.
TimerFires(c) ==
  /\ timer
  /\ started
  /\ "overtake" \in Faults \/ Unwinding = {}
  /\ reconnectAttempts < MaxAttempts
  /\ Free(c)
  /\ timer' = FALSE
  /\ reconnectAttempts' = reconnectAttempts + 1
  /\ ConnectAndWatch(c, FALSE)
  /\ UNCHANGED <<started, client, consecutiveFailures, escalated, outage, starts, process>>

\* The callback after start() gave up: nothing to reconnect.
TimerExpires ==
  /\ timer
  /\ ~started
  /\ timer' = FALSE
  /\ UNCHANGED <<started, client, policy, outage, threads, wiring, starts, process>>

-----------------------------------------------------------------------------
(* connectAndWatch after client.connect() has settled.                     *)

\* Mutant: connectAndWatch does not look at `started` after connect().
ConnectAfterStop_Watches(c) ==
  /\ pc[c] = "connecting" /\ Up(c)
  /\ ~started
  /\ client' = c
  /\ pc' = [pc EXCEPT ![c] = "opening"]
  /\ UNCHANGED <<started, timer, policy, outage, wiring, on, viaStart, starts, process>>

\* stop() ran during the connect: the new client is this.client of a second
\* stop(), which this thread awaits.
ConnectAfterStop(c) ==
  /\ pc[c] = "connecting" /\ Up(c)
  /\ ~started
  /\ StopNow(c)
  /\ pc' = [pc EXCEPT ![c] = "stopping"]
  /\ UNCHANGED <<on, viaStart, starts, process>>

ConnectNothingToWatch(c) ==
  /\ pc[c] = "connecting" /\ Up(c)
  /\ started
  /\ numMailboxes = 0
  /\ client' = c
  /\ pc' = [pc EXCEPT ![c] = "free"]
  /\ Returned(c)
  /\ UNCHANGED <<started, timer, on, viaStart, wiring, starts, process>>

ConnectThenOpen(c) ==
  /\ pc[c] = "connecting" /\ Up(c)
  /\ started
  /\ numMailboxes > 0
  /\ client' = c
  /\ pc' = [pc EXCEPT ![c] = "opening"]
  /\ UNCHANGED <<started, timer, policy, outage, on, viaStart, wiring, starts, process>>

\* The first mailboxOpen resolves: beginIdle(), and connectAndWatch returns.
OpenOk(t) ==
  /\ pc[t] = "opening" /\ Answers(on[t])
  /\ BeginIdle(t)
  /\ Returned(t)
  /\ UNCHANGED <<started, client, timer, viaStart, wiring, starts, process>>

\* connect() or the first mailboxOpen rejects: the catch block up to logout().
AttemptFails(t) ==
  /\ pc[t] \in {"connecting", "opening"}
  /\ MayFail \/ ~Up(on[t])
  /\ pc' = [pc EXCEPT ![t] = "failing"]
  /\ attached' = attached \ {t}
  /\ conn' = LogOut(conn, t)
  /\ UNCHANGED <<started, client, timer, policy, outage, on, viaStart, starts, process>>

\* The catch block's logout() is over and connectAndWatch throws.
StartRejects(t) ==
  /\ pc[t] = "failing" /\ conn[t] = "closed" /\ viaStart[t]
  /\ pc' = [pc EXCEPT ![t] = "free"]
  /\ started' = FALSE
  /\ UNCHANGED <<client, timer, policy, outage, on, viaStart, wiring, starts, process>>

\* Mutant: the threshold is compared before the failure is counted.
Escalates_Late == consecutiveFailures >= Threshold

Escalates == consecutiveFailures + 1 >= Threshold

HandleReconnectFailure(t) ==
  /\ pc[t] = "failing" /\ conn[t] = "closed" /\ ~viaStart[t]
  /\ pc' = [pc EXCEPT ![t] = "free"]
  /\ consecutiveFailures' = consecutiveFailures + 1
  /\ escalated' = (escalated \/ Escalates)
  /\ HandleConnectionDrop(attached, conn)
  /\ UNCHANGED <<started, reconnectAttempts, on, viaStart, starts, process>>

\* The stop() awaited by connectAndWatch is over and connectAndWatch returns.
StopUnwinds(t) ==
  /\ pc[t] = "stopping" /\ conn[t] = "closed"
  /\ pc' = [pc EXCEPT ![t] = "free"]
  /\ Returned(t)
  /\ UNCHANGED <<started, client, timer, on, viaStart, wiring, starts, process>>

-----------------------------------------------------------------------------
(* The IDLE loop.                                                          *)

IdleEnds(t) ==
  /\ pc[t] = "idling"
  /\ pc' = [pc EXCEPT ![t] = IF StillCurrent(t) THEN "draining" ELSE "free"]
  /\ UNCHANGED <<started, client, timer, policy, outage, on, viaStart, wiring, starts, process>>

\* The .catch of the loop's promise chain.
IdleFails(t) ==
  /\ pc[t] = "idling"
  /\ pc' = [pc EXCEPT ![t] = "free"]
  /\ IF StillCurrent(t) THEN HandleConnectionDrop(attached, conn)
     ELSE UNCHANGED <<client, timer, outage, wiring>>
  /\ UNCHANGED <<started, policy, on, viaStart, starts, process>>

\* pendingEnrichment has settled: the loop is stale, has one mailbox to idle
\* on again, or moves on to the next one.
DrainedStale(t) ==
  /\ pc[t] = "draining" /\ ~StillCurrent(t)
  /\ pc' = [pc EXCEPT ![t] = "free"]
  /\ UNCHANGED <<started, client, timer, policy, outage, on, viaStart, wiring, starts, process>>

DrainedIdleAgain(t) ==
  /\ pc[t] = "draining" /\ StillCurrent(t)
  /\ numMailboxes <= 1
  /\ BeginIdle(t)
  /\ UNCHANGED <<started, client, timer, policy, outage, viaStart, wiring, starts, process>>

DrainedReopen(t) ==
  /\ pc[t] = "draining" /\ StillCurrent(t)
  /\ numMailboxes > 1
  /\ pc' = [pc EXCEPT ![t] = "reopening"]
  /\ UNCHANGED <<started, client, timer, policy, outage, on, viaStart, wiring, starts, process>>

ReopenOk(t) ==
  /\ pc[t] = "reopening" /\ Answers(on[t])
  /\ BeginIdle(t)
  /\ UNCHANGED <<started, client, timer, policy, outage, viaStart, wiring, starts, process>>

\* The catch around the round-robin drops whatever client is current.
ReopenFails(t) ==
  /\ pc[t] = "reopening"
  /\ pc' = [pc EXCEPT ![t] = "free"]
  /\ HandleConnectionDrop(attached, conn)
  /\ UNCHANGED <<started, policy, on, viaStart, starts, process>>

-----------------------------------------------------------------------------
(* Events of the clients.  The handlers do not look at which client called *)
(* them.                                                                   *)

\* The environment's failures are bounded while no client is being watched.
MayBreak(c) == MayFail \/ (c = client /\ Unwinding = {})

ClientEvent(c, after) ==
  /\ c \in attached
  /\ LET cs == [conn EXCEPT ![c] = after]
     IN  IF started THEN HandleConnectionDrop(attached, cs)
         ELSE conn' = cs /\ UNCHANGED <<client, timer, outage, attached>>
  /\ UNCHANGED <<started, policy, threads, starts, process>>

HandleError(c) == Up(c) /\ MayBreak(c) /\ ClientEvent(c, "errored")

HandleClose(c) ==
  /\ (Up(c) /\ MayBreak(c)) \/ conn[c] = "errored"
  /\ ClientEvent(c, "closed")

\* logout() completes, or the peer closes first.
LogoutCompletes(c) ==
  /\ conn[c] = "leaving"
  /\ conn' = [conn EXCEPT ![c] = "closed"]
  /\ UNCHANGED <<started, client, timer, policy, outage, threads, attached, starts, process>>

\* A socket error during logout(): EventEmitter throws when an `error` event
\* has no listener, and installFatalErrorHandlers ends the process.
ErrorWithoutListener(c) ==
  /\ "lateError" \in Faults
  /\ conn[c] = "leaving"
  /\ c \notin attached
  /\ conn' = [conn EXCEPT ![c] = "closed"]
  /\ crashed' = TRUE
  /\ UNCHANGED <<numMailboxes, started, client, timer, policy, outage, threads, attached, starts>>

-----------------------------------------------------------------------------
ThreadStep(t) ==
  \/ ConnectAfterStop(t) \/ ConnectNothingToWatch(t) \/ ConnectThenOpen(t)
  \/ OpenOk(t) \/ AttemptFails(t)
  \/ StartRejects(t) \/ HandleReconnectFailure(t) \/ StopUnwinds(t)
  \/ DrainedStale(t) \/ DrainedIdleAgain(t) \/ DrainedReopen(t)
  \/ ReopenOk(t) \/ ReopenFails(t)

ClientStep(c) ==
  HandleError(c) \/ HandleClose(c) \/ LogoutCompletes(c) \/ ErrorWithoutListener(c)

SupNext ==
  /\ ~crashed
  /\ \/ Stop \/ TimerExpires
     \/ \E c \in Clients : \/ Start(c) \/ TimerFires(c)
                           \/ ThreadStep(c) \/ IdleEnds(c) \/ IdleFails(c)
                           \/ ClientStep(c)

SupSpec == SupInit /\ [][SupNext]_supVars

-----------------------------------------------------------------------------
(* Properties.                                                             *)

Connecting == {t \in Clients : pc[t] = "connecting"}

\* Attempts of reconnect() that have neither succeeded nor failed yet.
Retrying ==
  {t \in Clients : pc[t] \in {"connecting", "opening", "failing"} /\ ~viaStart[t]}

\* Some thread waits for news from client c.
Watched(c) ==
  \E t \in Clients :
    on[t] = c /\ pc[t] \in {"opening", "idling", "draining", "reopening"}

(* A started watcher is never left without a way back to its mailboxes:    *)
(* either the reconnect timer is armed, or an attempt is under way that    *)
(* will set this.client or schedule the next one, or this.client is set    *)
(* and a thread waits on it (no thread is needed with no mailbox to        *)
(* watch).  handleConnectionDrop, reconnect and the IDLE loop have to      *)
(* agree on this whatever order drops, timers and late answers come in.    *)
NeverAbandoned ==
  started =>
    \/ timer
    \/ \E t \in Clients : pc[t] \in {"connecting", "failing"}
    \/ client # NoClient /\ (numMailboxes = 0 \/ Watched(client))

(* One account holds one IMAP connection: handleError's comment promises   *)
(* that error and close of one drop never lead to two reconnects.          *)
AtMostOneConnection == Cardinality({c \in Clients : Up(c)}) <= 1

(* The watcher's listeners are on this.client and on a client that is      *)
(* still connecting, nowhere else: a forgotten client would deliver its    *)
(* events twice and its close would tear down a healthy connection.        *)
NoForgottenListeners == attached \subseteq {client} \cup Connecting

(* Every reconnect attempt of an outage ends exactly once, as a failure    *)
(* that is counted or as the success that resets both counters: the        *)
(* backoff delay and the escalation threshold count the same attempts.     *)
AttemptsAccounted ==
  started => reconnectAttempts = consecutiveFailures + Cardinality(Retrying)

(* While the watcher is started, this.client is a connected client whose   *)
(* events are heard, except while the attempt that made it unwinds.        *)
ClientIsHeard ==
  started /\ client # NoClient =>
    (client \in attached /\ Up(client)) \/ pc[client] = "failing"

(* The comment on isConnected: whether this watcher holds a live           *)
(* connection.                                                             *)
ConnectedMeansLive == isConnected => Up(client)

(* The comment on handleError and README: with the listener registered on  *)
(* every client, a socket error never reaches the uncaught-exception       *)
(* handler.                                                                *)
ErrorsAreHeard == ~crashed

\* Every pending promise settles: connect, mailboxOpen and logout answer or
\* time out in the client; idle() settles at the latest when its connection
\* has closed; an armed timer fires.  A live IDLE need not ever end.
SupFairness ==
  /\ \A t \in Clients :
       /\ WF_supVars(~crashed /\ ThreadStep(t))
       /\ WF_supVars(~crashed /\ conn[on[t]] = "closed" /\ (IdleEnds(t) \/ IdleFails(t)))
       /\ WF_supVars(~crashed /\ LogoutCompletes(t))
  /\ WF_supVars(~crashed /\ \E c \in Clients : TimerFires(c))

SupFairSpec == SupSpec /\ SupFairness

Watching ==
  /\ client # NoClient /\ Up(client)
  /\ numMailboxes = 0 \/ \E t \in Clients : on[t] = client /\ pc[t] \in {"idling", "draining"}

(* Supervision: a started watcher that has lost its connection gets back   *)
(* to a connected, watched client, unless it is stopped; the environment   *)
(* lets at most MaxFailures attempts in a row fail.                        *)
Recovery == started ~> (Watching \/ ~started)

(* stop() during any phase of an attempt, and a start() that fails, leave  *)
(* no connection open and no listener behind.                              *)
ReleasedAfterStop ==
  ~started ~> (started \/ \A c \in Clients : conn[c] = "closed" /\ c \notin attached)

-----------------------------------------------------------------------------
(* Refinement of ReconnectPolicy.                                          *)

Starting ==
  {t \in Clients : pc[t] \in {"connecting", "opening", "failing"} /\ viaStart[t]}

policyMode ==
  CASE ~started -> "off"
    [] started /\ Starting # {} -> "starting"
    [] started /\ Starting = {} /\ Retrying # {} -> "retrying"
    [] started /\ Starting = {} /\ Retrying = {} /\ timer -> "backoff"
    [] OTHER -> "watching"

Policy == INSTANCE ReconnectPolicy WITH
  mode <- policyMode,
  failures <- IF started THEN consecutiveFailures ELSE 0,
  alarmed <- started /\ escalated

(* The callbacks, timers and threads of the watcher, seen from outside,    *)
(* are the five-state reconnect policy: one retry at a time, every failed  *)
(* retry counted, one alarm per outage, a success ending the outage.       *)
ImplementsPolicy == Policy!Spec

=============================================================================
