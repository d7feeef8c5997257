--------------------------- MODULE ServerLifecycle ---------------------------
(***************************************************************************)
(* The process of src/server.ts: start() brings up the watchers and then   *)
(* the HTTP and MCP servers, every SIGINT or SIGTERM runs one shutdown(),  *)
(* and the first shutdown() to finish ends the process.  The events of the *)
(* watchers go to the dispatchers as in EventDelivery, which this module   *)
(* EXTENDS.                                                                *)
(*                                                                         *)
(* A watcher is reduced to what start() and stop() show of it; module      *)
(* WatcherSupervision has the whole of it.                                 *)
(***************************************************************************)
EXTENDS EventDelivery

CONSTANTS
  Watchers,    \* one AccountWatcher per account
  Enabled,     \* servers that HTTP_ENABLED and MCP_ENABLED let run
  MaxSignals,  \* bound: signals received
  MaxRequests  \* bound: requests in progress on one server

Servers == {"http", "mcp"}

ASSUME LifecycleAssumption ==
  /\ Enabled \subseteq Servers
  /\ Watchers \cap Servers = {}
  /\ MaxSignals \in Nat
  /\ MaxRequests \in Nat

VARIABLES
  boot,      \* what start() awaits: "watchers", "servers", or it is "running"
  starting,  \* watchers whose start() has not settled
  wanted,    \* watchers with this.started
  watcher,   \* state of each watcher
  server,    \* state of each server
  requests,  \* requests in progress on each server (external)
  signals,   \* calls of shutdown() so far
  awaited,   \* what each shutdown() awaits
  exit,      \* "no", or how the process ended: "ok" exit(0), "error" exit(1)
  idlers     \* watchers that were idling when a signal came (history)

bootVars == <<boot, starting>>
watchVars == <<wanted, watcher>>
webVars == <<server, requests>>
endVars == <<signals, awaited, exit, idlers>>
serverVars == <<bootVars, watchVars, webVars, endVars, deliveryVars>>

(***************************************************************************)
(* "connecting" no this.client: connecting or waiting to reconnect;        *)
(* "opening" the first mailboxOpen is pending; "up" idling; "leaving" the  *)
(* logout() of a stop() is pending; "aborted" the same, with a mailboxOpen *)
(* still pending; "off" nothing left.                                      *)
(***************************************************************************)
WatcherStates == {"connecting", "opening", "up", "leaving", "aborted", "off"}
ServerStates == {"off", "binding", "listening", "closing", "closed"}

ServerTypeOK ==
  /\ DeliveryTypeOK
  /\ boot \in {"watchers", "servers", "running"}
  /\ starting \in SUBSET Watchers
  /\ boot # "watchers" => starting = {}
  /\ wanted \in SUBSET Watchers
  /\ watcher \in [Watchers -> WatcherStates]
  /\ server \in [Servers -> ServerStates]
  /\ requests \in [Servers -> 0..MaxRequests]
  /\ signals \in 0..MaxSignals
  /\ awaited \in [1..MaxSignals -> SUBSET (Watchers \cup Servers)]
  /\ exit \in {"no", "ok", "error"}
  /\ idlers \in SUBSET Watchers

ServerInit ==
  /\ DeliveryInit
  /\ boot = "watchers"
  /\ starting = Watchers
  /\ wanted = Watchers
  /\ watcher = [i \in Watchers |-> "connecting"]
  /\ server = [s \in Servers |-> "off"]
  /\ requests = [s \in Servers |-> 0]
  /\ signals = 0
  /\ awaited = [k \in 1..MaxSignals |-> {}]
  /\ exit = "no"
  /\ idlers = {}

-----------------------------------------------------------------------------
(* The watchers, as start() and stop() show them.                          *)

Moves(i, from, to) == watcher[i] = from /\ watcher' = [watcher EXCEPT ![i] = to]

\* connect() is over; a stop() in the meantime ends the attempt in a logout().
Connected(i) ==
  /\ Moves(i, "connecting", IF i \in wanted THEN "opening" ELSE "leaving")
  /\ UNCHANGED <<bootVars, wanted, webVars, endVars, deliveryVars>>

\* connectAndWatch returns, and so does start() if it is still pending.
WatcherUp(i) ==
  /\ Moves(i, "opening", "up")
  /\ starting' = starting \ {i}
  /\ UNCHANGED <<boot, wanted, webVars, endVars, deliveryVars>>

\* The connection is lost, or a reconnect attempt fails: the next follows.
WatcherDrops(i) ==
  /\ i \in wanted \ starting
  /\ Moves(i, "up", "connecting") \/ Moves(i, "opening", "connecting")
  /\ UNCHANGED <<bootVars, wanted, webVars, endVars, deliveryVars>>

\* A stopped watcher whose reconnect timer is cleared or whose attempt fails.
WatcherGivesUp(i) ==
  /\ i \notin wanted \cup starting
  /\ Moves(i, "connecting", "off")
  /\ UNCHANGED <<bootVars, wanted, webVars, endVars, deliveryVars>>

\* logout() is over; a mailboxOpen that was pending may still have succeeded.
LoggedOut(i) ==
  /\ Moves(i, "leaving", "off") \/ Moves(i, "aborted", "off")
  /\ starting' = starting \ {i}
  /\ UNCHANGED <<boot, wanted, webVars, endVars, deliveryVars>>

\* start() of a watcher rejects: Promise.all rejects and start() exits.
StartFails(i) ==
  /\ i \in starting
  /\ Moves(i, "connecting", "off") \/ Moves(i, "opening", "off") \/ Moves(i, "aborted", "off")
  /\ exit' = "error"
  /\ UNCHANGED <<bootVars, wanted, webVars, signals, awaited, idlers, deliveryVars>>

-----------------------------------------------------------------------------
(* The HTTP and MCP servers.                                               *)

\* Mutant: the start of the watchers is not awaited.
WatchersStarted_NoAwait == TRUE

WatchersStarted == starting = {}

\* All watchers have started (or were stopped while starting).
StartServers ==
  /\ boot = "watchers"
  /\ WatchersStarted
  /\ boot' = IF Enabled = {} THEN "running" ELSE "servers"
  /\ server' = [s \in Servers |-> IF s \in Enabled THEN "binding" ELSE "off"]
  /\ UNCHANGED <<starting, watchVars, requests, endVars, deliveryVars>>

\* With the last server listening, app and mcpServer are assigned.
Listening(s) ==
  /\ server[s] = "binding"
  /\ server' = [server EXCEPT ![s] = "listening"]
  /\ boot' = IF \A x \in Enabled : server'[x] = "listening" THEN "running" ELSE boot
  /\ UNCHANGED <<starting, watchVars, requests, endVars, deliveryVars>>

BindFails(s) ==
  /\ server[s] = "binding"
  /\ server' = [server EXCEPT ![s] = "off"]
  /\ exit' = "error"
  /\ UNCHANGED <<bootVars, watchVars, requests, signals, awaited, idlers, deliveryVars>>

RequestArrives(s) ==
  /\ server[s] = "listening"
  /\ requests[s] < MaxRequests
  /\ requests' = [requests EXCEPT ![s] = @ + 1]
  /\ UNCHANGED <<bootVars, watchVars, server, endVars, deliveryVars>>

RequestEnds(s) ==
  /\ requests[s] > 0
  /\ requests' = [requests EXCEPT ![s] = @ - 1]
  /\ UNCHANGED <<bootVars, watchVars, server, endVars, deliveryVars>>

\* stop() of every watcher.
StopAll ==
  /\ wanted' = {}
  /\ watcher' = [i \in Watchers |->
       CASE watcher[i] = "up" -> "leaving"
         [] watcher[i] = "opening" -> "aborted"
         [] OTHER -> watcher[i]]

\* The onClose hook of buildApp() stops the watchers once more.
OnClose(s) == IF s = "http" THEN StopAll ELSE UNCHANGED watchVars

\* A server that stopped listening closes when its last request is answered.
ServerCloses(s) ==
  /\ server[s] = "closing"
  /\ requests[s] = 0
  /\ server' = [server EXCEPT ![s] = "closed"]
  /\ OnClose(s)
  /\ UNCHANGED <<bootVars, requests, endVars, deliveryVars>>

-----------------------------------------------------------------------------
(* shutdown().                                                             *)

Stopping == {i \in Watchers : watcher[i] \in {"up", "opening"}}

\* app and mcpServer, once assigned.  A second close() of the HTTP app waits
\* for the first; the MCP server reports at once that it is not running.
Closing ==
  IF boot # "running" THEN {}
  ELSE {s \in Enabled : server[s] = "listening" \/ (s = "http" /\ server[s] = "closing")}

\* Mutant: the logouts are not awaited.
Awaiting_NoLogouts == Closing

\* Mutant: the servers are told to close and not awaited.
Awaiting_NoCloses == Stopping

\* Mutant: a server that is not there is awaited.
Awaiting_Absent == Stopping \cup Servers

\* The promises of the Promise.all in shutdown().
Awaiting == Stopping \cup Closing

Shutdown ==
  /\ signals < MaxSignals
  /\ signals' = signals + 1
  /\ StopAll
  /\ server' = [s \in Servers |-> IF s \in Closing THEN "closing" ELSE server[s]]
  /\ awaited' = [awaited EXCEPT ![signals + 1] = Awaiting]
  /\ idlers' = idlers \cup {i \in Watchers : watcher[i] = "up"}
  /\ UNCHANGED <<bootVars, requests, exit, deliveryVars>>

\* The Promise.all of the k-th shutdown() resolves.
ExitOk(k) ==
  /\ k <= signals
  /\ \A i \in awaited[k] \cap Watchers : watcher[i] = "off"
  /\ \A s \in awaited[k] \cap Servers : server[s] = "closed"
  /\ exit' = "ok"
  /\ UNCHANGED <<bootVars, watchVars, webVars, signals, awaited, idlers, deliveryVars>>

-----------------------------------------------------------------------------
WatcherStep(i) ==
  \/ Connected(i) \/ WatcherUp(i) \/ WatcherDrops(i) \/ WatcherGivesUp(i)
  \/ LoggedOut(i) \/ StartFails(i)

ServerStep(s) ==
  \/ Listening(s) \/ BindFails(s) \/ RequestArrives(s) \/ RequestEnds(s) \/ ServerCloses(s)

\* A watcher that idles emits an event; deliveries go on until the process ends.
Dispatching ==
  /\ \/ \E n \in Events : Emit(n) /\ \E i \in Watchers : watcher[i] = "up"
     \/ \E p \in Deliveries : Respond(p)
  /\ UNCHANGED <<bootVars, watchVars, webVars, endVars>>

ServerNext ==
  /\ exit = "no"
  /\ \/ \E i \in Watchers : WatcherStep(i)
     \/ StartServers
     \/ \E s \in Servers : ServerStep(s)
     \/ Shutdown
     \/ \E k \in 1..MaxSignals : ExitOk(k)
     \/ Dispatching

ServerSpec == ServerInit /\ [][ServerNext]_serverVars

-----------------------------------------------------------------------------
(* Properties.                                                             *)

(* README: on SIGINT or SIGTERM "the server closes all watcher IDLE        *)
(* connections gracefully before exiting".                                 *)
IdleConnectionsClosed ==
  exit = "ok" => \A i \in Watchers : watcher[i] # "up" /\ (i \in idlers => watcher[i] = "off")

(* Requests in progress on a running server when the signal comes are      *)
(* answered before the process ends.                                       *)
RequestsDrained ==
  exit = "ok" /\ boot = "running" =>
    \A s \in Enabled : server[s] \in {"closing", "closed"} => requests[s] = 0

(* README: every mailbox event is POSTed to each webhook "with one retry   *)
(* on failure"; the retry would have to outlive the shutdown.              *)
DeliveredBeforeExit == exit = "ok" => \A p \in Deliveries : ~Posting(p)

\* Attempts and logouts settle, requests are answered, code that can go on
\* goes on.
ServerFairness ==
  /\ \A i \in Watchers :
       /\ WF_serverVars(exit = "no" /\ (Connected(i) \/ WatcherGivesUp(i)))
       /\ WF_serverVars(exit = "no" /\ LoggedOut(i))
  /\ \A s \in Servers :
       /\ WF_serverVars(exit = "no" /\ RequestEnds(s))
       /\ WF_serverVars(exit = "no" /\ ServerCloses(s))
  /\ WF_serverVars(exit = "no" /\ StartServers)
  /\ \A k \in 1..MaxSignals : WF_serverVars(exit = "no" /\ ExitOk(k))

ServerFairSpec == ServerSpec /\ ServerFairness

(* A signal ends the process, whatever start(), the watchers and the       *)
(* servers are doing when it comes.                                        *)
ShutdownEnds == signals > 0 ~> exit # "no"

=============================================================================
