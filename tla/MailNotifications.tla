--------------------------- MODULE MailNotifications ---------------------------
(***************************************************************************)
(* From a message that arrives in a mailbox to the webhooks of its         *)
(* account: the feed of newMail events that AccountWatcher implements      *)
(* (NewMailFeed), joined with the dispatchers (EventDelivery) that each of *)
(* its events is handed to in the same callback.  The watcher's other      *)
(* events go the same way and change nothing here: they are left out.      *)
(***************************************************************************)
EXTENDS EventDelivery, NewMailFeed, Sequences, FiniteSets

VARIABLES
  event,    \* the message of each event emitted (history)
  baseline  \* highest UID under some baseline (history)

\* The bound on events holds up no report.
ASSUME NotificationsAssumption == NumEvents >= MaxUid

notifyVars == <<feedVars, deliveryVars, event, baseline>>

NotifyTypeOK ==
  /\ DeliveryTypeOK
  /\ event \in Seq(Uids)
  /\ Len(event) = emitted
  /\ baseline \in 0..MaxUid

NotifyInit ==
  /\ FeedInit
  /\ DeliveryInit
  /\ event = <<>>
  /\ baseline = 0

-----------------------------------------------------------------------------
MailboxChanges ==
  /\ Arrive \/ Expunge
  /\ UNCHANGED <<deliveryVars, event, baseline>>

ConnectionLost ==
  /\ Lose
  /\ UNCHANGED <<deliveryVars, event, baseline>>

ConnectionBack ==
  /\ Rebase
  /\ baseline' = last'
  /\ UNCHANGED <<deliveryVars, event>>

\* The UIDs in ascending order: the i-th has all but i of them above it.
Ascending(uids) ==
  [i \in 1..Cardinality(uids) |->
     CHOOSE u \in uids : Cardinality({v \in uids : v > u}) = Cardinality(uids) - i]

\* emitNewMail: one event per UID, in ascending order, each fanned out
\* before the next one is emitted.
EmitNewMail(uids) ==
  /\ Report(uids)
  /\ Emit(Cardinality(uids))
  /\ event' = event \o Ascending(uids)
  /\ UNCHANGED baseline

Deliver ==
  /\ \E p \in Deliveries : Respond(p)
  /\ UNCHANGED <<feedVars, event, baseline>>

NotifyNext ==
  \/ MailboxChanges \/ ConnectionLost \/ ConnectionBack
  \/ \E uids \in Batches : EmitNewMail(uids)
  \/ Deliver

NotifySpec == NotifyInit /\ [][NotifyNext]_notifyVars

-----------------------------------------------------------------------------
(* Properties.                                                             *)

\* The deliveries of message u to dispatcher d.
About(d, u) == {p \in Deliveries : p[1] = d /\ p[2] <= emitted /\ event[p[2]] = u}

\* The POSTs of message u to dispatcher d: a delivery and which of its POSTs.
Copies(d, u) == UNION {{p} \X (1..delivery[p].posts) : p \in About(d, u)}

(* README: newMail "fires once per message" and is POSTed "with one retry  *)
(* on failure".  However often the connection is lost and answers go       *)
(* astray, no endpoint gets a message more than MAX_ATTEMPTS times.        *)
CopiesBounded ==
  \A d \in Dispatchers, u \in Uids : Cardinality(Copies(d, u)) <= MaxAttempts

\* A watcher that is down comes back, one that is up reports what arrives
\* (EventuallyAccounted of AccountWatcher); endpoints as in EventDelivery.
NotifyFairness ==
  /\ WF_notifyVars(ConnectionBack)
  /\ WF_notifyVars(\E uids \in Batches : EmitNewMail(uids))
  /\ \A p \in Responsive \X Events :
       WF_notifyVars(Respond(p) /\ UNCHANGED <<feedVars, event, baseline>>)

NotifyFairSpec == NotifySpec /\ NotifyFairness

(* README: "no message is silently missed".  A message that stays in the   *)
(* mailbox is delivered to every endpoint that answers, or its delivery is *)
(* given up after all attempts, whatever other endpoints do; only one that *)
(* was there when a connection took its baseline is no news.               *)
EveryMessageNotified ==
  \A d \in Responsive, u \in Uids :
    u \in mail ~> \/ u \notin mail \/ u <= baseline
                  \/ \E p \in About(d, u) : Settled(p)

=============================================================================
