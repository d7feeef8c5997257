---------------------------- MODULE EventDelivery ----------------------------
(***************************************************************************)
(* Delivery of one account's mailbox events to its dispatchers             *)
(* (src/events/dispatcher.ts, src/events/dispatchers/webhookDispatcher.ts, *)
(* src/telemetry/dispatcherMetrics.ts).  The watcher emits event after     *)
(* event; subscribeWatcher hands each one to every dispatcher and waits    *)
(* for none; a dispatcher POSTs it and, when the POST fails, POSTs again   *)
(* until its attempts are used up; its decorator records the outcome.      *)
(*                                                                         *)
(* Events are numbered in the order they are emitted.  A delivery is one   *)
(* call of handle(): a dispatcher and an event.  Events that one callback  *)
(* emits in a row (a newMail event per message of a burst) are emitted in  *)
(* one step, and so is their fan-out.                                      *)
(***************************************************************************)
EXTENDS Naturals

CONSTANTS
  Dispatchers,  \* the account's dispatchers
  Responsive,   \* dispatchers whose endpoint answers every POST in the end
  NumEvents,    \* bound: events the watcher emits
  MaxAttempts,  \* MAX_ATTEMPTS
  Logger        \* options.logger was given to createDispatcher

ASSUME DeliveryAssumption ==
  /\ Responsive \subseteq Dispatchers
  /\ NumEvents \in Nat
  /\ MaxAttempts \in Nat \ {0}
  /\ Logger \in BOOLEAN

Events == 1..NumEvents
Deliveries == Dispatchers \X Events

VARIABLES
  emitted,   \* events emitted so far
  delivery   \* what has become of each delivery

deliveryVars == <<emitted, delivery>>

(***************************************************************************)
(* st     "none" not handed over, "posting" a POST is in flight,           *)
(*        "ok" and "failed" handle() has resolved or rejected;             *)
(* left   attemptsLeft;                                                    *)
(* posts  calls of fetch: each may have brought the endpoint a copy, also  *)
(*        one that has failed;                                             *)
(* logged the loss was logged;                                             *)
(* metric outcome recorded for the delivery, "none" before.                *)
(***************************************************************************)
DeliveryRecords ==
  [st : {"none", "posting", "ok", "failed"}, left : Nat, posts : Nat,
   logged : BOOLEAN, metric : {"none", "ok", "error"}]

Unsent == [st |-> "none", left |-> 0, posts |-> 0, logged |-> FALSE, metric |-> "none"]

DeliveryTypeOK ==
  /\ emitted \in 0..NumEvents
  /\ delivery \in [Deliveries -> DeliveryRecords]

DeliveryInit ==
  /\ emitted = 0
  /\ delivery = [p \in Deliveries |-> Unsent]

-----------------------------------------------------------------------------
Posting(p) == delivery[p].st = "posting"
Settled(p) == delivery[p].st \in {"ok", "failed"}

\* handle(): postWithRetry(event, MAX_ATTEMPTS) up to its first await.
Handed ==
  [st |-> "posting", left |-> MaxAttempts, posts |-> 1, logged |-> FALSE, metric |-> "none"]

\* Mutant: the events wait until the deliveries of those before are over.
FanOut_Awaits(events) ==
  /\ \A p \in Deliveries : ~Posting(p)
  /\ delivery' = [p \in Deliveries |-> IF p[2] \in events THEN Handed ELSE delivery[p]]

\* fanOut(): handle() is called on every dispatcher and not awaited.
FanOut(events) ==
  delivery' = [p \in Deliveries |-> IF p[2] \in events THEN Handed ELSE delivery[p]]

\* The next n events are emitted.
Emit(n) ==
  /\ emitted + n <= NumEvents
  /\ emitted' = emitted + n
  /\ FanOut((emitted + 1)..(emitted + n))

\* The outcome that withDispatcherMetrics records when handle() settles.
DispatchOutcome(st) == IF st = "ok" THEN "ok" ELSE "error"

\* handle() resolves or rejects, through its decorator.
HandleSettles(p, st, logged) ==
  delivery' = [delivery EXCEPT ![p].st = st, ![p].logged = logged,
                               ![p].metric = DispatchOutcome(st)]

\* fetch resolves with response.ok.
PostOk(p) ==
  /\ Posting(p)
  /\ HandleSettles(p, "ok", FALSE)
  /\ UNCHANGED emitted

\* Mutant: every failure is followed by another attempt.
Retry_Forever(p) ==
  /\ Posting(p)
  /\ delivery' = [delivery EXCEPT ![p].left = @ - 1, ![p].posts = @ + 1]
  /\ UNCHANGED emitted

\* Mutant: the last attempt is followed by one more.
Retry_OneMore(p) ==
  /\ Posting(p)
  /\ delivery[p].left > 0
  /\ delivery' = [delivery EXCEPT ![p].left = @ - 1, ![p].posts = @ + 1]
  /\ UNCHANGED emitted

\* fetch rejects or the response is not ok, whether or not the endpoint got
\* the request: while attempts are left, one more POST,
Retry(p) ==
  /\ Posting(p)
  /\ delivery[p].left > 1
  /\ delivery' = [delivery EXCEPT ![p].left = @ - 1, ![p].posts = @ + 1]
  /\ UNCHANGED emitted

\* Mutant: the error is logged and not thrown again.
GiveUp_Swallows(p) ==
  /\ Posting(p)
  /\ delivery[p].left <= 1
  /\ delivery' = [delivery EXCEPT ![p].st = "failed", ![p].logged = Logger, ![p].metric = "ok"]
  /\ UNCHANGED emitted

\* and otherwise handle() rejects and the .catch of fanOut ends the matter.
GiveUp(p) ==
  /\ Posting(p)
  /\ delivery[p].left <= 1
  /\ HandleSettles(p, "failed", Logger)
  /\ UNCHANGED emitted

Respond(p) == PostOk(p) \/ Retry(p) \/ GiveUp(p)

DeliveryNext ==
  \/ \E n \in Events : Emit(n)
  \/ \E p \in Deliveries : Respond(p)

DeliverySpec == DeliveryInit /\ [][DeliveryNext]_deliveryVars

-----------------------------------------------------------------------------
(* Properties.                                                             *)

(* README: each event is POSTed "with one retry on failure".  No endpoint  *)
(* is sent an event more than MAX_ATTEMPTS times, and a delivery is given  *)
(* up only when all attempts were made.                                    *)
RetryBudget ==
  \A p \in Deliveries :
    /\ delivery[p].posts <= MaxAttempts
    /\ delivery[p].st = "failed" => delivery[p].posts = MaxAttempts
    /\ delivery[p].st # "none" => delivery[p].posts > 0

(* The proposal of the dispatcher framework: "basic retry and error        *)
(* logging"; docs/metrics.md: the metric "reflects the final outcome after *)
(* all attempts".  A lost event leaves an outcome "error" in the metric,   *)
(* and a log line if there is a logger (server.ts passes none); an event   *)
(* whose retry was successful leaves neither.                              *)
LossLeavesTrace ==
  \A p \in Deliveries :
    LET d == delivery[p] IN
      /\ d.metric = "error" <=> d.st = "failed"
      /\ d.logged <=> d.st = "failed" /\ Logger

(* "Error logging" taken by its word: a lost event leaves a log line.      *)
LossIsLogged == \A p \in Deliveries : delivery[p].st = "failed" => delivery[p].logged

=============================================================================
