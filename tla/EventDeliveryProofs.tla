------------------------- MODULE EventDeliveryProofs -------------------------
(***************************************************************************)
(* Theorems about EventDelivery, for any number of dispatchers and events  *)
(* and any MAX_ATTEMPTS.  RetryBudget is not inductive: it does not tie    *)
(* the attempts left to the POSTs made, and does not say that a delivery   *)
(* of an event still to come is untouched.  DeliveryInv does both.         *)
(***************************************************************************)
EXTENDS EventDelivery, TLAPS

\* What is known of a delivery in each of its states.
WellKept(d) ==
  /\ d.st = "none" => d = Unsent
  /\ d.st # "failed" => ~d.logged /\ d.metric # "error"
  /\ d.st = "posting" => d.posts >= 1 /\ d.left >= 1 /\ d.posts + d.left = MaxAttempts + 1
  /\ d.st = "ok" => d.posts \in 1..MaxAttempts
  /\ d.st = "failed" => d.posts = MaxAttempts /\ d.logged = Logger /\ d.metric = "error"

DeliveryInv ==
  /\ DeliveryTypeOK
  /\ \A p \in Deliveries : WellKept(delivery[p])
  /\ \A p \in Deliveries : p[2] > emitted => delivery[p].st = "none"

-----------------------------------------------------------------------------
(* Each step changes one delivery, or (Emit) starts those of one event.    *)

LEMMA InitKept == DeliveryInit => DeliveryInv
BY DeliveryAssumption
   DEF DeliveryInit, DeliveryInv, DeliveryTypeOK, DeliveryRecords, WellKept, Unsent

\* A delivery that was just handed over.
LEMMA HandedKept == Handed \in DeliveryRecords /\ WellKept(Handed) /\ Handed.st = "posting"
BY DeliveryAssumption DEF DeliveryRecords, WellKept, Handed

LEMMA EmitKept ==
  ASSUME DeliveryInv, NEW n \in Events, Emit(n)
  PROVE  DeliveryInv'
<1> USE DEF Deliveries
<1>1. emitted \in Nat /\ n \in Nat /\ emitted' = emitted + n /\ emitted' \in 0..NumEvents
  BY DeliveryAssumption DEF DeliveryInv, DeliveryTypeOK, Emit, Events
<1>2. \A p \in Deliveries : p[2] \in Nat
  BY DeliveryAssumption DEF Events
<1>3. ASSUME NEW p \in Deliveries
      PROVE  /\ delivery'[p] \in DeliveryRecords
             /\ WellKept(delivery'[p])
             /\ p[2] > emitted' => delivery'[p].st = "none"
  <2>1. delivery[p] \in DeliveryRecords /\ WellKept(delivery[p])
    BY DEF DeliveryInv, DeliveryTypeOK
  <2>2. delivery'[p] = IF p[2] \in (emitted + 1)..(emitted + n) THEN Handed ELSE delivery[p]
    BY DEF Emit, FanOut
  <2>3. CASE p[2] \in (emitted + 1)..(emitted + n)
    <3>1. ~(p[2] > emitted')
      BY <1>1, <2>3
    <3> QED
      BY <2>2, <2>3, <3>1, HandedKept
  <2>4. CASE p[2] \notin (emitted + 1)..(emitted + n)
    <3>1. delivery'[p] = delivery[p]
      BY <2>2, <2>4
    <3>2. p[2] > emitted' => p[2] > emitted
      BY <1>1, <1>2
    <3> QED
      BY <2>1, <3>1, <3>2 DEF DeliveryInv
  <2> QED
    BY <2>3, <2>4
<1>4. delivery' = [p \in Deliveries |-> delivery'[p]]
  BY DEF Emit, FanOut
<1> HIDE DEF Deliveries
<1>5. delivery' \in [Deliveries -> DeliveryRecords]
  BY <1>3, <1>4
<1> QED
  BY <1>1, <1>3, <1>5 DEF DeliveryInv, DeliveryTypeOK

\* A step that changes one delivery in flight and nothing else.
LEMMA OneKept ==
  ASSUME DeliveryInv, NEW p \in Deliveries, Posting(p), UNCHANGED emitted,
         NEW d \in DeliveryRecords, WellKept(d),
         delivery' = [delivery EXCEPT ![p] = d]
  PROVE  DeliveryInv'
<1>1. p[2] <= emitted
  <2>1. p[2] \in Nat /\ emitted \in Nat
    BY DeliveryAssumption DEF Deliveries, Events, DeliveryInv, DeliveryTypeOK
  <2> QED
    BY <2>1 DEF DeliveryInv, Posting
<1>2. \A q \in Deliveries : delivery'[q] = IF q = p THEN d ELSE delivery[q]
  BY DEF DeliveryInv, DeliveryTypeOK
<1>3. DeliveryTypeOK'
  BY DEF DeliveryInv, DeliveryTypeOK
<1>4. \A q \in Deliveries : WellKept(delivery'[q])
  BY <1>2 DEF DeliveryInv
<1>5. \A q \in Deliveries : q[2] > emitted' => delivery'[q].st = "none"
  <2>1. p[2] \in Nat /\ emitted \in Nat
    BY DeliveryAssumption DEF Deliveries, Events, DeliveryInv, DeliveryTypeOK
  <2> QED
    BY <1>1, <1>2, <2>1 DEF DeliveryInv
<1> QED
  BY <1>3, <1>4, <1>5 DEF DeliveryInv

LEMMA PostOkKept ==
  ASSUME DeliveryInv, NEW p \in Deliveries, PostOk(p)
  PROVE  DeliveryInv'
<1> DEFINE d == [delivery[p] EXCEPT !.st = "ok", !.logged = FALSE, !.metric = "ok"]
<1>1. delivery[p] \in DeliveryRecords /\ WellKept(delivery[p]) /\ Posting(p)
  BY DEF DeliveryInv, DeliveryTypeOK, PostOk
<1>2. d \in DeliveryRecords /\ d.st = "ok" /\ d.posts = delivery[p].posts
      /\ ~d.logged /\ d.metric = "ok"
  BY <1>1 DEF DeliveryRecords
<1> HIDE DEF d
<1>3. delivery[p].posts >= 1 /\ delivery[p].left >= 1
      /\ delivery[p].posts + delivery[p].left = MaxAttempts + 1
  BY <1>1 DEF WellKept, Posting
<1>4. WellKept(d)
  BY <1>1, <1>2, <1>3, DeliveryAssumption DEF WellKept, DeliveryRecords
<1>5. delivery' = [delivery EXCEPT ![p] = d] /\ UNCHANGED emitted
  BY DEF PostOk, HandleSettles, DispatchOutcome, d
<1> QED
  BY <1>1, <1>2, <1>4, <1>5, OneKept

LEMMA RetryKept ==
  ASSUME DeliveryInv, NEW p \in Deliveries, Retry(p)
  PROVE  DeliveryInv'
<1> DEFINE a == [delivery[p] EXCEPT !.left = @ - 1]
           d == [a EXCEPT !.posts = @ + 1]
<1>1. delivery[p] \in DeliveryRecords /\ WellKept(delivery[p]) /\ Posting(p) /\ delivery[p].left > 1
  BY DEF DeliveryInv, DeliveryTypeOK, Retry
<1>2. a \in DeliveryRecords /\ a.st = "posting" /\ a.left = delivery[p].left - 1
      /\ a.posts = delivery[p].posts
      /\ a.logged = delivery[p].logged /\ a.metric = delivery[p].metric
  BY <1>1 DEF DeliveryRecords, Posting
<1>3. delivery' = [delivery EXCEPT ![p] = d] /\ UNCHANGED emitted
  BY DEF Retry
<1> HIDE DEF a
<1>4. d \in DeliveryRecords /\ d.st = "posting" /\ d.left = delivery[p].left - 1
      /\ d.posts = delivery[p].posts + 1
      /\ d.logged = delivery[p].logged /\ d.metric = delivery[p].metric
  BY <1>1, <1>2 DEF DeliveryRecords
<1> HIDE DEF d
<1>5. delivery[p].posts >= 1 /\ delivery[p].posts + delivery[p].left = MaxAttempts + 1
      /\ ~delivery[p].logged /\ delivery[p].metric # "error"
  BY <1>1 DEF WellKept, Posting
<1>6. WellKept(d)
  BY <1>1, <1>4, <1>5, DeliveryAssumption DEF WellKept, DeliveryRecords
<1> QED
  BY <1>1, <1>3, <1>4, <1>6, OneKept

LEMMA GiveUpKept ==
  ASSUME DeliveryInv, NEW p \in Deliveries, GiveUp(p)
  PROVE  DeliveryInv'
<1> DEFINE d == [delivery[p] EXCEPT !.st = "failed", !.logged = Logger, !.metric = "error"]
<1>1. delivery[p] \in DeliveryRecords /\ WellKept(delivery[p]) /\ Posting(p) /\ delivery[p].left <= 1
  BY DEF DeliveryInv, DeliveryTypeOK, GiveUp
<1>2. d \in DeliveryRecords
  BY <1>1, DeliveryAssumption DEF DeliveryRecords
<1>3. d.st = "failed" /\ d.posts = delivery[p].posts
      /\ d.logged = Logger /\ d.metric = "error"
  BY <1>1 DEF DeliveryRecords
<1>4. delivery[p].left >= 1 /\ delivery[p].posts + delivery[p].left = MaxAttempts + 1
  BY <1>1 DEF WellKept, Posting
<1>5. WellKept(d)
  BY <1>1, <1>3, <1>4, DeliveryAssumption DEF WellKept, DeliveryRecords
<1>6. delivery' = [delivery EXCEPT ![p] = d] /\ UNCHANGED emitted
  BY DEF GiveUp, HandleSettles, DispatchOutcome
<1> QED
  BY <1>1, <1>2, <1>5, <1>6, OneKept

-----------------------------------------------------------------------------
LEMMA DeliveryInvariant == DeliverySpec => []DeliveryInv
<1>1. DeliveryInit => DeliveryInv
  BY InitKept
<1>2. DeliveryInv /\ [DeliveryNext]_deliveryVars => DeliveryInv'
  <2> SUFFICES ASSUME DeliveryInv, [DeliveryNext]_deliveryVars PROVE DeliveryInv'
    OBVIOUS
  <2>1. ASSUME NEW n \in Events, Emit(n) PROVE DeliveryInv'
    BY <2>1, EmitKept
  <2>2. ASSUME NEW p \in Deliveries, Respond(p) PROVE DeliveryInv'
    BY <2>2, PostOkKept, RetryKept, GiveUpKept DEF Respond
  <2>3. CASE UNCHANGED deliveryVars
    BY <2>3 DEF deliveryVars, DeliveryInv, DeliveryTypeOK
  <2> QED
    BY <2>1, <2>2, <2>3 DEF DeliveryNext
<1> QED
  BY <1>1, <1>2, PTL DEF DeliverySpec

(* The state of the deliveries always has its type.                        *)
THEOREM DeliveryTypeCorrect == DeliverySpec => []DeliveryTypeOK
<1>1. DeliveryInv => DeliveryTypeOK
  BY DEF DeliveryInv
<1> QED
  BY <1>1, DeliveryInvariant, PTL

(* postWithRetry: whatever fails and whenever, no event is POSTed more     *)
(* than MAX_ATTEMPTS times to a dispatcher, none is given up before that,  *)
(* and none is counted delivered without a POST.                           *)
THEOREM AttemptsBounded == DeliverySpec => []RetryBudget
<1>1. DeliveryInv => RetryBudget
  <2> SUFFICES ASSUME DeliveryInv, NEW p \in Deliveries
               PROVE  /\ delivery[p].posts <= MaxAttempts
                      /\ delivery[p].st = "failed" => delivery[p].posts = MaxAttempts
                      /\ delivery[p].st # "none" => delivery[p].posts > 0
    BY DEF RetryBudget
  <2>1. delivery[p] \in DeliveryRecords /\ WellKept(delivery[p])
    BY DEF DeliveryInv, DeliveryTypeOK
  <2> QED
    BY <2>1, DeliveryAssumption DEF DeliveryRecords, WellKept, Unsent
<1> QED
  BY <1>1, DeliveryInvariant, PTL

(* The deliveries that the metric counts as errors are those that were     *)
(* given up, and with a logger each of these has its log line, whatever    *)
(* the number of attempts and in whatever order the endpoints answer.      *)
THEOREM LossesTraced == DeliverySpec => []LossLeavesTrace
<1>1. DeliveryInv => LossLeavesTrace
  <2> SUFFICES ASSUME DeliveryInv, NEW p \in Deliveries
               PROVE  /\ delivery[p].metric = "error" <=> delivery[p].st = "failed"
                      /\ delivery[p].logged <=> delivery[p].st = "failed" /\ Logger
    BY DEF LossLeavesTrace
  <2>1. delivery[p] \in DeliveryRecords /\ WellKept(delivery[p])
    BY DEF DeliveryInv, DeliveryTypeOK
  <2> QED
    BY <2>1, DeliveryAssumption DEF DeliveryRecords, WellKept
<1> QED
  BY <1>1, DeliveryInvariant, PTL

=============================================================================
