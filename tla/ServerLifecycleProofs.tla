------------------------ MODULE ServerLifecycleProofs ------------------------
(***************************************************************************)
(* Proofs about ServerLifecycle, for any watchers and any bounds.  What    *)
(* the deliveries keep (EventDeliveryProofs) they keep in the process that *)
(* stops under them.  The two properties of the shutdown are proved for    *)
(* one signal: a second one exits without waiting for the logouts that the *)
(* first has begun.                                                        *)
(***************************************************************************)
EXTENDS ServerLifecycle, EventDeliveryProofs

(* The inductive invariant.                                                *)

\* No server is brought up before the watchers have started.
Booting == boot = "watchers" => \A s \in Servers : server[s] = "off"

TypeInv == ServerTypeOK /\ DeliveryInv /\ Booting

\* Before a signal nothing is being stopped; after it nothing comes up.
Unsignalled ==
  signals = 0 => idlers = {} /\ \A s \in Servers : server[s] \notin {"closing", "closed"}

Stopped ==
  signals > 0 => wanted = {} /\ \A i \in Watchers : watcher[i] \notin {"up", "opening"}

\* A connection that idled when the signal came is being closed, and awaited.
IdlersAwaited ==
  \A i \in idlers : i \in awaited[1] /\ watcher[i] \in {"leaving", "off"}

\* A server that does not listen any more is awaited, and has closed only
\* with its last request answered.
ServersAwaited ==
  \A s \in Servers :
    /\ server[s] \in {"closing", "closed"} => s \in awaited[1]
    /\ server[s] = "closed" => requests[s] = 0

\* What the shutdown has waited for when it ends the process.
EndIsClean ==
  exit = "ok" =>
    /\ signals > 0
    /\ \A i \in awaited[1] \cap Watchers : watcher[i] = "off"
    /\ \A s \in awaited[1] \cap Servers : server[s] = "closed"

ShutdownParts == Unsignalled /\ Stopped /\ IdlersAwaited /\ ServersAwaited /\ EndIsClean

ServerInv == TypeInv /\ ShutdownParts

-----------------------------------------------------------------------------
(* Types.                                                                  *)

\* Types, and what the deliveries keep.
LEMMA ServerInitTyped == ServerInit => TypeInv
<1> SUFFICES ASSUME ServerInit PROVE TypeInv
  OBVIOUS
<1>1. DeliveryInv
  BY InitKept DEF ServerInit
<1> QED
  BY <1>1, LifecycleAssumption
     DEF ServerInit, ServerTypeOK, DeliveryInv, TypeInv, Booting, WatcherStates, ServerStates

\* stop() of every watcher keeps the types,
LEMMA StopAllTyped ==
  ASSUME ServerTypeOK, StopAll
  PROVE  wanted' \in SUBSET Watchers /\ watcher' \in [Watchers -> WatcherStates]
BY DEF StopAll, ServerTypeOK, WatcherStates

\* the steps of a watcher,
LEMMA WatcherTyped ==
  ASSUME ServerTypeOK, NEW i \in Watchers, WatcherStep(i)
  PROVE  ServerTypeOK'
<1> USE DEF ServerTypeOK, WatcherStates, Moves, bootVars, watchVars, webVars, endVars, deliveryVars, DeliveryTypeOK
<1>1. CASE Connected(i)
  BY <1>1 DEF Connected
<1>2. CASE WatcherUp(i)
  BY <1>2 DEF WatcherUp
<1>3. CASE WatcherDrops(i)
  BY <1>3 DEF WatcherDrops
<1>4. CASE WatcherGivesUp(i)
  BY <1>4 DEF WatcherGivesUp
<1>5. CASE LoggedOut(i)
  BY <1>5 DEF LoggedOut
<1>6. CASE StartFails(i)
  BY <1>6 DEF StartFails
<1> QED
  BY <1>1, <1>2, <1>3, <1>4, <1>5, <1>6 DEF WatcherStep

\* of a server,
LEMMA ServerTyped ==
  ASSUME ServerTypeOK, Booting, NEW s \in Servers, ServerStep(s)
  PROVE  ServerTypeOK'
<1> USE LifecycleAssumption DEF ServerTypeOK, ServerStates, bootVars, watchVars, webVars, endVars, deliveryVars, DeliveryTypeOK
<1>1. CASE Listening(s)
  BY <1>1 DEF Listening, Booting
<1>2. CASE BindFails(s)
  BY <1>2 DEF BindFails
<1>3. CASE RequestArrives(s)
  BY <1>3 DEF RequestArrives
<1>4. CASE RequestEnds(s)
  BY <1>4 DEF RequestEnds
<1>5. CASE ServerCloses(s)
  <2>1. wanted' \in SUBSET Watchers /\ watcher' \in [Watchers -> WatcherStates]
    BY <1>5, StopAllTyped DEF ServerCloses, OnClose
  <2> QED BY <1>5, <2>1 DEF ServerCloses
<1> QED
  BY <1>1, <1>2, <1>3, <1>4, <1>5 DEF ServerStep

\* and of the shutdown.
LEMMA ShutdownTyped ==
  ASSUME ServerTypeOK, Shutdown
  PROVE  ServerTypeOK'
<1>1. wanted' \in SUBSET Watchers /\ watcher' \in [Watchers -> WatcherStates]
  BY StopAllTyped DEF Shutdown
<1>2. Awaiting \in SUBSET (Watchers \cup Servers)
  BY LifecycleAssumption DEF Awaiting, Stopping, Closing
<1>3. /\ awaited' \in [1..MaxSignals -> SUBSET (Watchers \cup Servers)]
      /\ signals' \in 0..MaxSignals /\ server' \in [Servers -> ServerStates]
      /\ idlers' \in SUBSET Watchers
  BY <1>2, LifecycleAssumption DEF Shutdown, ServerTypeOK, ServerStates
<1> QED
  BY <1>1, <1>3 DEF Shutdown, ServerTypeOK, bootVars, deliveryVars, DeliveryTypeOK

\* A delivery goes on as it does without the process around it.
LEMMA DispatchingKept ==
  ASSUME DeliveryInv, Dispatching
  PROVE  DeliveryInv'
BY EmitKept, PostOkKept, RetryKept, GiveUpKept DEF Dispatching, Respond

\* Every step of the process keeps all that.
LEMMA ServerStepTyped ==
  ASSUME TypeInv, [ServerNext]_serverVars
  PROVE  TypeInv'
<1> USE DEF TypeInv
<1>1. CASE Dispatching
  <2>1. UNCHANGED <<boot, starting, wanted, watcher, server, requests, signals, awaited, exit, idlers>>
    BY <1>1 DEF Dispatching, bootVars, watchVars, webVars, endVars
  <2>2. DeliveryInv'
    BY <1>1, DispatchingKept
  <2> QED BY <2>1, <2>2 DEF ServerTypeOK, DeliveryInv, Booting
<1>2. CASE UNCHANGED serverVars
  BY <1>2 DEF ServerTypeOK, DeliveryInv, DeliveryTypeOK, WellKept, Booting,
     serverVars, bootVars, watchVars, webVars, endVars, deliveryVars
<1>3. UNCHANGED deliveryVars => DeliveryInv'
  BY DEF DeliveryInv, DeliveryTypeOK, WellKept, deliveryVars
<1>4. ASSUME NEW i \in Watchers, WatcherStep(i) PROVE TypeInv'
  <2>1. UNCHANGED <<boot, server>> /\ UNCHANGED deliveryVars
    BY <1>4 DEF WatcherStep, Connected, WatcherUp, WatcherDrops, WatcherGivesUp, LoggedOut,
       StartFails, bootVars, webVars
  <2> QED BY <1>3, <1>4, <2>1, WatcherTyped DEF Booting
<1>5. ASSUME NEW s \in Servers, ServerStep(s) PROVE TypeInv'
  <2>1. UNCHANGED deliveryVars
    BY <1>5 DEF ServerStep, Listening, BindFails, RequestArrives, RequestEnds, ServerCloses
  <2>2. Booting'
    BY <1>5 DEF Booting, ServerStep, Listening, BindFails, RequestArrives, RequestEnds,
       ServerCloses, ServerTypeOK, bootVars
  <2> QED BY <1>3, <1>5, <2>1, <2>2, ServerTyped
<1>6. CASE Shutdown
  <2>1. Booting'
    BY <1>6 DEF Shutdown, Booting, Closing, bootVars
  <2> QED BY <1>3, <1>6, <2>1, ShutdownTyped DEF Shutdown
<1>7. CASE StartServers
  <2>1. ServerTypeOK' /\ Booting' /\ UNCHANGED deliveryVars
    BY <1>7, LifecycleAssumption
       DEF StartServers, WatchersStarted, ServerTypeOK, ServerStates, watchVars, endVars,
           deliveryVars, DeliveryTypeOK, Booting
  <2> QED BY <1>3, <2>1
<1>8. ASSUME NEW k \in 1..MaxSignals, ExitOk(k) PROVE TypeInv'
  <2>1. ServerTypeOK' /\ Booting' /\ UNCHANGED deliveryVars
    BY <1>8 DEF ExitOk, ServerTypeOK, Booting, bootVars, watchVars, webVars, deliveryVars,
       DeliveryTypeOK
  <2> QED BY <1>3, <2>1
<1> QED
  BY <1>1, <1>2, <1>4, <1>5, <1>6, <1>7, <1>8 DEF ServerNext

\* The part of the invariant that needs no bound on the signals.
LEMMA TypeInvariant == ServerSpec => []TypeInv
  BY ServerInitTyped, ServerStepTyped, PTL DEF ServerSpec

(* The state of the process keeps its types, whatever the number of        *)
(* signals; the servers are brought up only when no start() of a watcher is *)
(* pending.                                                                *)
THEOREM ServerTypeCorrect == ServerSpec => []ServerTypeOK
<1>1. TypeInv => ServerTypeOK
  BY DEF TypeInv
<1> QED
  BY <1>1, TypeInvariant, PTL

(* The attempts and the traces of the webhook deliveries are in the        *)
(* process, its start and its shutdown, what they are on their own:        *)
(* RetryBudget and LossLeavesTrace hold of ServerSpec.                     *)
THEOREM ServerDelivers == ServerSpec => [](RetryBudget /\ LossLeavesTrace)
<1>1. TypeInv => RetryBudget /\ LossLeavesTrace
  <2> SUFFICES ASSUME TypeInv, NEW p \in Deliveries
               PROVE  /\ delivery[p].posts <= MaxAttempts
                      /\ delivery[p].st = "failed" => delivery[p].posts = MaxAttempts
                      /\ delivery[p].st # "none" => delivery[p].posts > 0
                      /\ delivery[p].metric = "error" <=> delivery[p].st = "failed"
                      /\ delivery[p].logged <=> delivery[p].st = "failed" /\ Logger
    BY DEF RetryBudget, LossLeavesTrace
  <2> QED
    BY DeliveryAssumption DEF TypeInv, DeliveryInv, DeliveryTypeOK, DeliveryRecords, WellKept,
       Unsent
<1> QED
  BY <1>1, TypeInvariant, PTL

-----------------------------------------------------------------------------
(* The shutdown.                                                           *)

\* After a signal no watcher comes up again.
LEMMA WatcherStepStops ==
  ASSUME ServerInv, exit = "no", NEW i \in Watchers, WatcherStep(i)
  PROVE  ShutdownParts'
<1>1. /\ UNCHANGED <<server, requests, signals, awaited, idlers>>
      /\ exit' \in {"no", "error"} /\ wanted' = wanted
      /\ \A j \in Watchers : j # i => watcher'[j] = watcher[j]
      /\ watcher'[i] \in {"up", "opening"} => watcher[i] = "opening" \/ i \in wanted
      /\ watcher[i] \in {"leaving", "off"} => watcher'[i] \in {"leaving", "off"}
  BY DEF WatcherStep, Connected, WatcherUp, WatcherDrops, WatcherGivesUp, LoggedOut, StartFails,
     Moves, bootVars, webVars, endVars, ServerInv, TypeInv, ServerTypeOK
<1> USE DEF ServerInv, TypeInv, ShutdownParts, ServerTypeOK
<1>2. Unsignalled' /\ ServersAwaited' /\ EndIsClean'
  BY <1>1 DEF Unsignalled, ServersAwaited, EndIsClean
<1>3. Stopped' /\ IdlersAwaited'
  BY <1>1 DEF Stopped, IdlersAwaited
<1> QED
  BY <1>2, <1>3

\* stop() of every watcher leaves none to come up, and ends no logout.
LEMMA StopAllStops ==
  ASSUME ServerTypeOK, StopAll
  PROVE  /\ wanted' = {}
         /\ \A i \in Watchers :
              /\ watcher'[i] \notin {"up", "opening"}
              /\ watcher[i] \in {"leaving", "off"} => watcher'[i] = watcher[i]
              /\ watcher[i] = "up" => watcher'[i] = "leaving"
BY DEF StopAll, ServerTypeOK, WatcherStates

\* A server closes with no request in progress; the onClose hook of the HTTP app only stops
\* watchers.
LEMMA ServerStepStops ==
  ASSUME ServerInv, exit = "no", NEW s \in Servers, ServerStep(s)
  PROVE  ShutdownParts'
<1> USE DEF ServerInv, TypeInv, ShutdownParts, ServerTypeOK
<1>1. /\ UNCHANGED <<signals, awaited, idlers>> /\ exit' \in {"no", "error"}
      /\ \A x \in Servers : x # s => server'[x] = server[x] /\ requests'[x] = requests[x]
      /\ server'[s] \in {"closing", "closed"} => server[s] \in {"closing", "closed"}
      /\ server[s] = "closed" \/ server'[s] = "closed" =>
           server'[s] = "closed" /\ (requests[s] = 0 => requests'[s] = 0)
      /\ server'[s] = "closed" /\ server[s] # "closed" => requests[s] = 0
  BY DEF ServerStep, Listening, BindFails, RequestArrives, RequestEnds, ServerCloses, endVars
<1>2. \/ UNCHANGED <<wanted, watcher>>
      \/ /\ wanted' = {}
         /\ \A i \in Watchers :
              /\ watcher'[i] \notin {"up", "opening"}
              /\ watcher[i] \in {"leaving", "off"} => watcher'[i] = watcher[i]
  BY StopAllStops
     DEF ServerStep, Listening, BindFails, RequestArrives, RequestEnds, ServerCloses, OnClose,
         watchVars
<1>3. Unsignalled'
  BY <1>1 DEF Unsignalled
<1>4. ServersAwaited'
  BY <1>1 DEF ServersAwaited
<1>5. Stopped' /\ IdlersAwaited'
  BY <1>1, <1>2 DEF Stopped, IdlersAwaited
<1>6. EndIsClean'
  BY <1>1 DEF EndIsClean
<1> QED
  BY <1>3, <1>4, <1>5, <1>6

\* The one shutdown() awaits all that idles and all that closes,
LEMMA ShutdownStops ==
  ASSUME ServerInv, exit = "no", MaxSignals <= 1, Shutdown
  PROVE  ShutdownParts'
<1> USE LifecycleAssumption DEF ServerInv, TypeInv, ShutdownParts, ServerTypeOK
<1>1. signals = 0 /\ MaxSignals = 1 /\ signals' = 1 /\ exit' = exit /\ requests' = requests
  BY DEF Shutdown
<1>2. awaited'[1] = Stopping \cup Closing
  BY <1>1 DEF Shutdown, Awaiting
<1>3. /\ wanted' = {}
      /\ \A i \in Watchers :
           /\ watcher'[i] \notin {"up", "opening"}
           /\ watcher[i] = "up" => watcher'[i] = "leaving"
  BY StopAllStops DEF Shutdown
<1>4. idlers' = {i \in Watchers : watcher[i] = "up"}
  BY <1>1 DEF Shutdown, Unsignalled
<1>5. \A s \in Servers : server'[s] = IF s \in Closing THEN "closing" ELSE server[s]
  BY DEF Shutdown
<1>6. Unsignalled' /\ Stopped' /\ EndIsClean'
  BY <1>1, <1>3 DEF Unsignalled, Stopped, EndIsClean
<1>7. IdlersAwaited'
  BY <1>2, <1>3, <1>4 DEF IdlersAwaited, Stopping
<1>8. ServersAwaited'
  BY <1>1, <1>2, <1>5 DEF ServersAwaited, Unsignalled
<1> QED
  BY <1>6, <1>7, <1>8

\* and ends the process when that is done.
LEMMA ExitOkStops ==
  ASSUME ServerInv, exit = "no", MaxSignals <= 1, NEW k \in 1..MaxSignals, ExitOk(k)
  PROVE  ShutdownParts'
<1> USE LifecycleAssumption DEF ServerInv, TypeInv, ShutdownParts, ServerTypeOK
<1>1. /\ k = 1 /\ signals = 1
      /\ UNCHANGED <<wanted, watcher, server, requests, signals, awaited, idlers>>
      /\ \A i \in awaited[1] \cap Watchers : watcher[i] = "off"
      /\ \A s \in awaited[1] \cap Servers : server[s] = "closed"
  BY DEF ExitOk, watchVars, webVars
<1>2. EndIsClean'
  BY <1>1 DEF EndIsClean
<1>3. Unsignalled' /\ Stopped' /\ IdlersAwaited' /\ ServersAwaited'
  BY <1>1 DEF Unsignalled, Stopped, IdlersAwaited, ServersAwaited
<1> QED
  BY <1>2, <1>3

\* Every step keeps the invariant, with one signal.
LEMMA ServerStepKept ==
  ASSUME ServerInv, MaxSignals <= 1, [ServerNext]_serverVars
  PROVE  ServerInv'
<1>1. TypeInv'
  BY ServerStepTyped DEF ServerInv
<1>2. ShutdownParts'
  <2>1. CASE UNCHANGED <<wanted, watcher, server, requests, signals, awaited, exit, idlers>>
    BY <2>1 DEF ServerInv, ShutdownParts, Unsignalled, Stopped, IdlersAwaited, ServersAwaited,
       EndIsClean
  <2>2. CASE UNCHANGED serverVars
    BY <2>1, <2>2 DEF serverVars, watchVars, webVars, endVars
  <2>3. CASE Dispatching
    BY <2>1, <2>3 DEF Dispatching, watchVars, webVars, endVars
  <2>4. CASE StartServers /\ exit = "no"
    <3>1. /\ UNCHANGED <<wanted, watcher, requests, signals, awaited, exit, idlers>>
          /\ \A s \in Servers : server'[s] \notin {"closing", "closed"}
      BY <2>4 DEF StartServers, watchVars, endVars
    <3> QED
      BY <3>1, <2>4 DEF ServerInv, ShutdownParts, Unsignalled, Stopped, IdlersAwaited,
         ServersAwaited, EndIsClean
  <2> QED
    BY <2>2, <2>3, <2>4, WatcherStepStops, ServerStepStops, ShutdownStops, ExitOkStops
       DEF ServerNext
<1> QED
  BY <1>1, <1>2 DEF ServerInv

\* The invariant of the shutdown.
LEMMA ServerInvariant ==
  ASSUME MaxSignals <= 1
  PROVE  ServerSpec => []ServerInv
<1>1. ServerInit => ServerInv
  <2> SUFFICES ASSUME ServerInit PROVE ServerInv
    OBVIOUS
  <2>1. TypeInv
    BY ServerInitTyped
  <2>2. ShutdownParts
    BY DEF ServerInit, ShutdownParts, Unsignalled, Stopped, IdlersAwaited, ServersAwaited,
       EndIsClean
  <2> QED BY <2>1, <2>2 DEF ServerInv
<1> QED
  BY <1>1, ServerStepKept, PTL DEF ServerSpec

(* With a single SIGINT or SIGTERM the process ends with exit(0) only when *)
(* every connection that idled at the signal is closed and no watcher has  *)
(* come up since. (A second shutdown() finds nothing up, awaits nothing and *)
(* exits.)                                                                 *)
THEOREM ConnectionsClosedAtExit ==
  ASSUME MaxSignals <= 1
  PROVE  ServerSpec => []IdleConnectionsClosed
<1>1. ServerInv => IdleConnectionsClosed
  BY DEF ServerInv, TypeInv, ServerTypeOK, ShutdownParts, EndIsClean, Stopped, IdlersAwaited,
     IdleConnectionsClosed
<1> QED
  BY <1>1, ServerInvariant, PTL

(* With a single signal no request of a running server is cut off by       *)
(* exit(0): app.close() and mcpServer.close() are awaited, and end with the *)
(* last request.                                                           *)
THEOREM RequestsAnsweredAtExit ==
  ASSUME MaxSignals <= 1
  PROVE  ServerSpec => []RequestsDrained
<1>1. ServerInv => RequestsDrained
  BY LifecycleAssumption DEF ServerInv, ShutdownParts, EndIsClean, ServersAwaited, RequestsDrained
<1> QED
  BY <1>1, ServerInvariant, PTL
=============================================================================
