----------------------- MODULE MailNotificationsProofs -----------------------
(***************************************************************************)
(* Proofs about the feed of newMail events and its composition with the    *)
(* deliveries, for any mailbox, dispatchers and number of attempts.  Each  *)
(* of the two parts keeps its promise in the composition (FeedKept,        *)
(* DeliveriesKept).  Together they bound the copies of a message: the feed *)
(* reports it once, because what was reported is below the watermark of    *)
(* every later connection, so that all copies are POSTs of one delivery.   *)
(***************************************************************************)
EXTENDS MailNotifications, EventDeliveryProofs, UidRanks, SequenceTheorems

-----------------------------------------------------------------------------
\* A message is reported at most once: the type says so already.
FeedTypeOK ==
  /\ mail \in SUBSET Uids
  /\ uidNext \in 1..MaxUid + 1
  /\ last \in Int
  /\ reported \in [Uids -> 0..1]

\* What was reported is below UIDNEXT, so that the watermark of the next connection covers
\* it, and while a connection lasts it is not above the watermark.
FeedInv ==
  /\ FeedTypeOK
  /\ last < uidNext
  /\ \A u \in Uids : reported[u] > 0 => u < uidNext
  /\ last # Unknown => \A u \in Uids : reported[u] > 0 => u <= last

\* newMail "fires once per message" (README).
ReportedOnce == \A u \in Uids : reported[u] <= 1

\* Sets of UIDs are finite.
LEMMA FinitelyManyUids ==
  ASSUME NEW S \in SUBSET Uids
  PROVE  IsFiniteSet(S) /\ S \in SUBSET Nat
<1>1. MaxUid \in Nat
  BY FeedAssumption
<1>2. IsFiniteSet(1..MaxUid)
  BY <1>1, FS_Interval
<1>3. IsFiniteSet(S)
  BY <1>2, FS_Subset DEF Uids
<1> QED
  BY <1>1, <1>3 DEF Uids

\* The counter of reports goes from 0 to 1.
LEMMA FirstReport == Min({2, 0 + 1}) = 1
<1>1. \A x \in {2, 0 + 1} : (\A y \in {2, 0 + 1} : x <= y) <=> x = 1
  OBVIOUS
<1>2. \E x \in {2, 0 + 1} : \A y \in {2, 0 + 1} : x <= y
  BY <1>1
<1> QED
  BY <1>1, <1>2 DEF Min

\* A batch is above the watermark, and so none of it was reported.
LEMMA ReportIsNews ==
  ASSUME FeedInv, NEW uids \in Batches, Report(uids)
  PROVE  /\ uids \in SUBSET Uids /\ uids # {} /\ IsFiniteSet(uids)
         /\ last' \in uids /\ \A u \in uids : u <= last'
         /\ \A u \in Uids : reported'[u] = IF u \in uids THEN 1 ELSE reported[u]
         /\ \A u \in uids : reported[u] = 0 /\ last < u /\ u < uidNext
         /\ mail' = mail /\ uidNext' = uidNext
<1>1. uids \in SUBSET Uids /\ uids # {} /\ IsFiniteSet(uids) /\ uids \in SUBSET Nat
  BY FinitelyManyUids DEF Batches
<1>2. Max(uids) \in uids /\ \A u \in uids : Max(uids) >= u
  BY <1>1, HasMax
<1>3. /\ last # Unknown /\ last' = Max(uids)
      /\ \A u \in uids : last < u /\ u < uidNext
      /\ reported' = [u \in Uids |-> IF u \in uids THEN Min({2, reported[u] + 1}) ELSE reported[u]]
      /\ mail' = mail /\ uidNext' = uidNext
  BY DEF Report
<1>4. last' \in uids /\ \A u \in uids : u <= last'
  BY <1>1, <1>2, <1>3
<1>5. ASSUME NEW u \in uids
      PROVE  reported[u] = 0
  <2>1. u \in Uids /\ u \in Nat /\ last \in Int /\ last < u /\ reported[u] \in 0..1
    BY <1>1, <1>3 DEF FeedInv, FeedTypeOK
  <2>2. ~(u <= last)
    BY <2>1
  <2> QED
    BY <1>3, <2>1, <2>2 DEF FeedInv
<1>6. ASSUME NEW u \in Uids
      PROVE  reported'[u] = IF u \in uids THEN 1 ELSE reported[u]
  BY <1>3, <1>5, FirstReport
<1> QED
  BY <1>1, <1>3, <1>4, <1>5, <1>6

\* A report keeps the invariant,
LEMMA ReportKeeps ==
  ASSUME FeedInv, NEW uids \in Batches, Report(uids)
  PROVE  FeedInv'
<1>1. /\ uids \in SUBSET Uids
      /\ last' \in uids /\ \A u \in uids : u <= last'
      /\ \A u \in Uids : reported'[u] = IF u \in uids THEN 1 ELSE reported[u]
      /\ \A u \in uids : last < u /\ u < uidNext
      /\ mail' = mail /\ uidNext' = uidNext
  BY ReportIsNews
<1>2. last # Unknown /\ reported' = [u \in Uids |-> reported'[u]]
  BY DEF Report
<1>3. /\ mail \in SUBSET Uids /\ uidNext \in 1..MaxUid + 1 /\ last \in Int
      /\ \A u \in Uids : reported[u] \in 0..1 /\ u \in Nat
      /\ \A u \in Uids : reported[u] > 0 => u <= last
  BY <1>2, FeedAssumption DEF FeedInv, FeedTypeOK, Uids
<1>4. MaxUid \in Nat /\ uidNext \in Int /\ last' \in Uids /\ last' \in Int
  BY <1>1, <1>3, FeedAssumption DEF Uids
<1>5. reported' \in [Uids -> 0..1]
  BY <1>1, <1>2, <1>3
<1>6. FeedTypeOK' /\ (last < uidNext)'
  BY <1>1, <1>3, <1>4, <1>5 DEF FeedTypeOK
<1>7. ASSUME NEW u \in Uids, reported'[u] > 0
      PROVE  u < uidNext' /\ u <= last'
  <2>1. CASE u \in uids
    BY <1>1, <2>1
  <2>2. CASE u \notin uids
    <3>1. u <= last /\ last < last'
      BY <1>1, <1>3, <1>7, <2>2
    <3>2. u < uidNext
      BY <1>1, <1>7, <2>2 DEF FeedInv
    <3> QED
      BY <1>1, <1>3, <1>4, <3>1, <3>2
  <2> QED
    BY <2>1, <2>2
<1> QED
  BY <1>6, <1>7 DEF FeedInv

\* and so does everything else that happens to a mailbox.
LEMMA FeedStepKeeps == FeedInv /\ [FeedNext]_feedVars => FeedInv'
<1> SUFFICES ASSUME FeedInv, [FeedNext]_feedVars PROVE FeedInv'
  OBVIOUS
<1>1. /\ mail \in SUBSET Uids /\ uidNext \in 1..MaxUid + 1 /\ uidNext \in Int
      /\ last \in Int /\ reported \in [Uids -> 0..1]
      /\ MaxUid \in Nat /\ \A u \in Uids : u \in Nat
  BY FeedAssumption DEF FeedInv, FeedTypeOK, Uids
<1>2. CASE Arrive
  <2>1. /\ uidNext \in Uids /\ mail' = mail \cup {uidNext} /\ uidNext' = uidNext + 1
        /\ uidNext' \in 1..MaxUid + 1 /\ last' = last /\ reported' = reported
    BY <1>1, <1>2 DEF Arrive, Uids
  <2>2. FeedTypeOK'
    BY <1>1, <2>1 DEF FeedTypeOK
  <2>3. (last < uidNext)' /\ \A u \in Uids : reported'[u] > 0 => u < uidNext'
    BY <1>1, <2>1 DEF FeedInv
  <2> QED
    BY <2>1, <2>2, <2>3 DEF FeedInv
<1>3. CASE Expunge
  BY <1>3 DEF Expunge, FeedInv, FeedTypeOK
<1>4. CASE Rebase
  <2>1. last' = uidNext - 1 /\ mail' = mail /\ uidNext' = uidNext /\ reported' = reported
    BY <1>4 DEF Rebase
  <2>2. FeedTypeOK' /\ (last < uidNext)'
    BY <1>1, <2>1 DEF FeedTypeOK
  <2>3. \A u \in Uids : reported'[u] > 0 => u < uidNext' /\ u <= last'
    BY <1>1, <2>1 DEF FeedInv
  <2> QED
    BY <2>2, <2>3 DEF FeedInv
<1>5. CASE Lose
  <2>1. last' = Unknown /\ mail' = mail /\ uidNext' = uidNext /\ reported' = reported
    BY <1>5 DEF Lose
  <2>2. FeedTypeOK' /\ (last < uidNext)'
    BY <1>1, <2>1 DEF FeedTypeOK, Unknown
  <2> QED
    BY <2>1, <2>2 DEF FeedInv
<1>6. ASSUME NEW uids \in Batches, Report(uids)
      PROVE  FeedInv'
  BY <1>6, ReportKeeps
<1>7. CASE UNCHANGED feedVars
  BY <1>7 DEF feedVars, FeedInv, FeedTypeOK
<1> QED
  BY <1>2, <1>3, <1>4, <1>5, <1>6, <1>7 DEF FeedNext

\* An empty mailbox without a connection.
LEMMA FeedInitKept == FeedInit => FeedInv
<1> SUFFICES ASSUME FeedInit PROVE FeedInv
  OBVIOUS
<1>1. MaxUid \in Nat
  BY FeedAssumption
<1>2. mail = {} /\ uidNext = 1 /\ last = Unknown /\ reported = [u \in Uids |-> 0]
  BY DEF FeedInit
<1> QED
  BY <1>1, <1>2 DEF FeedInv, FeedTypeOK, Unknown

(* No message is reported twice by a feed, however often its connection is *)
(* lost and made again. AccountWatcher implements the feed for an account  *)
(* with one mailbox (FeedImplemented in AccountWatcherProofs).             *)
THEOREM FeedReportsOnce == FeedSpec => []ReportedOnce
<1>1. FeedInv => ReportedOnce
  BY DEF FeedInv, FeedTypeOK, ReportedOnce
<1> QED
  BY <1>1, FeedInitKept, FeedStepKeeps, PTL DEF FeedSpec

-----------------------------------------------------------------------------
(* The order of the events of a batch.                                     *)

\* Ascending lists the UIDs of a set,
LEMMA AscendingLists ==
  ASSUME NEW S \in SUBSET Uids
  PROVE  /\ Ascending(S) \in Seq(S) /\ Ascending(S) \in Seq(Uids)
         /\ Len(Ascending(S)) = Cardinality(S)
         /\ \A i \in 1..Cardinality(S) :
              Ascending(S)[i] \in S /\ Rank(S, Ascending(S)[i]) = Cardinality(S) - i
<1> DEFINE n == Cardinality(S)
           s == Ascending(S)
<1>1. IsFiniteSet(S) /\ S \in SUBSET Nat /\ n \in Nat
  BY FinitelyManyUids, FS_CardinalityType
<1>2. ASSUME NEW i \in 1..n
      PROVE  s[i] \in S /\ Rank(S, s[i]) = n - i
  <2>1. n - i \in 0..n - 1
    BY <1>1
  <2>2. \E u \in S : Rank(S, u) = n - i
    BY <1>1, <2>1, RanksNumber
  <2>3. s[i] = CHOOSE u \in S : Rank(S, u) = n - i
    BY DEF Ascending, Rank, Above
  <2> QED
    BY <2>2, <2>3
<1>3. s = [i \in 1..n |-> s[i]]
  BY DEF Ascending
<1> HIDE DEF s
<1>4. s \in [1..n -> S] /\ s \in [1..n -> Uids]
  BY <1>2, <1>3
<1>5. s \in Seq(S) /\ s \in Seq(Uids) /\ Len(s) = n
  BY <1>1, <1>4
<1> QED
  BY <1>2, <1>5 DEF s

\* each of them once.
LEMMA AscendingRepeatsNone ==
  ASSUME NEW S \in SUBSET Uids, NEW i \in 1..Cardinality(S), NEW j \in 1..Cardinality(S),
         Ascending(S)[i] = Ascending(S)[j]
  PROVE  i = j
<1>1. Cardinality(S) \in Nat
  BY FinitelyManyUids, FS_CardinalityType
<1>2. Cardinality(S) - i = Cardinality(S) - j
  BY AscendingLists
<1> QED
  BY <1>1, <1>2

-----------------------------------------------------------------------------
(* The composition.                                                        *)

\* Each event is about a message of its own,
Distinct == \A i, j \in 1..Len(event) : event[i] = event[j] => i = j

\* which counts as reported.
EventsReported == \A i \in 1..Len(event) : reported[event[i]] = 1

\* The inductive invariant joins those of the two parts with what relates them.
NotifyInv == NotifyTypeOK /\ DeliveryInv /\ FeedInv /\ Distinct /\ EventsReported

\* A batch is a burst of events, as EventDelivery has it.
LEMMA EmitNewMailIsEmit ==
  ASSUME NotifyInv, NEW uids \in Batches, EmitNewMail(uids)
  PROVE  /\ Cardinality(uids) \in Events
         /\ emitted' = emitted + Cardinality(uids)
<1>1. uids \in SUBSET Uids /\ uids # {} /\ IsFiniteSet(uids)
  BY FinitelyManyUids DEF Batches
<1>2. Cardinality(uids) \in Nat /\ Cardinality(uids) # 0
  BY <1>1, FS_CardinalityType, FS_EmptySet
<1>3. emitted \in Nat /\ emitted + Cardinality(uids) <= NumEvents /\ NumEvents \in Nat
      /\ emitted' = emitted + Cardinality(uids)
  BY DeliveryAssumption DEF NotifyInv, NotifyTypeOK, DeliveryTypeOK, EmitNewMail, Emit
<1> QED
  BY <1>2, <1>3 DEF Events

\* A new event is about a message that was not reported before.
LEMMA EmitNewMailKeeps ==
  ASSUME NotifyInv, NEW uids \in Batches, EmitNewMail(uids)
  PROVE  NotifyInv'
<1> DEFINE n == Cardinality(uids)
           new == Ascending(uids)
<1>1. n \in Events /\ Emit(n) /\ Report(uids) /\ event' = event \o new /\ baseline' = baseline
  BY EmitNewMailIsEmit DEF EmitNewMail
<1>2. DeliveryInv' /\ FeedInv'
  BY <1>1, EmitKept, ReportKeeps DEF NotifyInv
<1>3. /\ uids \in SUBSET Uids
      /\ \A u \in uids : reported[u] = 0
      /\ \A u \in Uids : reported'[u] = IF u \in uids THEN 1 ELSE reported[u]
  BY <1>1, ReportIsNews DEF NotifyInv
<1>4. /\ new \in Seq(Uids) /\ Len(new) = n
      /\ \A i \in 1..n : new[i] \in uids
      /\ \A i, j \in 1..n : new[i] = new[j] => i = j
  BY <1>3, AscendingLists, AscendingRepeatsNone
<1> HIDE DEF new
<1>5. event \in Seq(Uids) /\ Len(event) \in Nat /\ n \in Nat
  BY <1>1, LenProperties, DeliveryAssumption DEF NotifyInv, NotifyTypeOK, Events
<1>6. /\ event' \in Seq(Uids) /\ Len(event') = Len(event) + n
      /\ \A i \in 1..Len(event) + n :
           event'[i] = IF i <= Len(event) THEN event[i] ELSE new[i - Len(event)]
  <2>1. /\ event \o new \in Seq(Uids)
        /\ Len(event \o new) = Len(event) + Len(new)
        /\ \A i \in 1..Len(event) + Len(new) :
             (event \o new)[i] = IF i <= Len(event) THEN event[i] ELSE new[i - Len(event)]
    BY <1>4, <1>5, ConcatProperties
  <2> QED
    BY <1>1, <1>4, <2>1
<1>7. ASSUME NEW i \in 1..Len(event) + n
      PROVE  IF i <= Len(event)
             THEN /\ i \in 1..Len(event)
                  /\ event'[i] = event[i] /\ event'[i] \in Uids
                  /\ reported[event'[i]] = 1
             ELSE /\ i - Len(event) \in 1..n
                  /\ event'[i] = new[i - Len(event)] /\ event'[i] \in uids
                  /\ reported[event'[i]] = 0
  <2>1. CASE i <= Len(event)
    <3>1. i \in 1..Len(event) /\ event'[i] = event[i]
      BY <1>5, <1>6, <2>1
    <3>2. event[i] \in Uids
      BY <1>5, <3>1, ElementOfSeq
    <3>3. reported[event[i]] = 1
      BY <3>1 DEF NotifyInv, EventsReported
    <3> QED
      BY <2>1, <3>1, <3>2, <3>3
  <2>2. CASE ~(i <= Len(event))
    <3>1. i - Len(event) \in 1..n /\ event'[i] = new[i - Len(event)]
      BY <1>5, <1>6, <2>2
    <3>2. event'[i] \in uids
      BY <1>4, <3>1
    <3> QED
      BY <1>3, <2>2, <3>1, <3>2
  <2> QED
    BY <2>1, <2>2
<1>8. Distinct'
  <2> SUFFICES ASSUME NEW i \in 1..Len(event) + n, NEW j \in 1..Len(event) + n,
                      event'[i] = event'[j]
               PROVE  i = j
    BY <1>6 DEF Distinct
  <2>1. CASE i <= Len(event) /\ j <= Len(event)
    BY <1>7, <2>1 DEF NotifyInv, Distinct
  <2>2. CASE ~(i <= Len(event)) /\ ~(j <= Len(event))
    <3>1. i - Len(event) = j - Len(event)
      BY <1>4, <1>7, <2>2
    <3> QED
      BY <1>5, <3>1
  <2>3. (i <= Len(event)) <=> (j <= Len(event))
    BY <1>7
  <2> QED
    BY <2>1, <2>2, <2>3
<1>9. EventsReported'
  <2> SUFFICES ASSUME NEW i \in 1..Len(event) + n
               PROVE  reported'[event'[i]] = 1
    BY <1>6 DEF EventsReported
  <2>1. event'[i] \in Uids /\ (event'[i] \in uids \/ reported[event'[i]] = 1)
    BY <1>3, <1>7
  <2> QED
    BY <1>3, <2>1
<1>10. NotifyTypeOK'
  <2>1. DeliveryTypeOK' /\ emitted' = emitted + n /\ baseline' \in 0..MaxUid
    BY <1>1, <1>2, EmitNewMailIsEmit DEF DeliveryInv, NotifyInv, NotifyTypeOK
  <2> QED
    BY <1>6, <2>1 DEF NotifyInv, NotifyTypeOK
<1> QED
  BY <1>2, <1>8, <1>9, <1>10 DEF NotifyInv

\* Every step keeps the invariant.
LEMMA NotifyStepKeeps == NotifyInv /\ [NotifyNext]_notifyVars => NotifyInv'
<1> SUFFICES ASSUME NotifyInv, [NotifyNext]_notifyVars PROVE NotifyInv'
  OBVIOUS
<1>1. ASSUME UNCHANGED deliveryVars, [FeedNext]_feedVars, UNCHANGED <<event, reported>>,
             baseline' \in 0..MaxUid
      PROVE  NotifyInv'
  <2>1. FeedInv'
    BY <1>1, FeedStepKeeps DEF NotifyInv
  <2>2. DeliveryInv' /\ NotifyTypeOK'
    BY <1>1 DEF NotifyInv, DeliveryInv, NotifyTypeOK, DeliveryTypeOK, deliveryVars
  <2>3. Distinct' /\ EventsReported'
    BY <1>1 DEF NotifyInv, Distinct, EventsReported
  <2> QED
    BY <2>1, <2>2, <2>3 DEF NotifyInv
<1>2. baseline \in 0..MaxUid
  BY DEF NotifyInv, NotifyTypeOK
<1>3. CASE MailboxChanges
  <2>1. UNCHANGED <<event, reported>> /\ UNCHANGED deliveryVars /\ baseline' = baseline
    BY <1>3 DEF MailboxChanges, Arrive, Expunge
  <2> QED
    BY <1>1, <1>2, <1>3, <2>1 DEF MailboxChanges, FeedNext
<1>4. CASE ConnectionLost
  <2>1. UNCHANGED <<event, reported>> /\ UNCHANGED deliveryVars /\ baseline' = baseline
    BY <1>4 DEF ConnectionLost, Lose
  <2> QED
    BY <1>1, <1>2, <1>4, <2>1 DEF ConnectionLost, FeedNext
<1>5. CASE ConnectionBack
  <2>1. UNCHANGED <<event, reported>> /\ UNCHANGED deliveryVars
        /\ baseline' = uidNext - 1
    BY <1>5 DEF ConnectionBack, Rebase
  <2>2. baseline' \in 0..MaxUid
    BY <2>1, FeedAssumption DEF NotifyInv, FeedInv, FeedTypeOK
  <2> QED
    BY <1>1, <1>5, <2>1, <2>2 DEF ConnectionBack, FeedNext
<1>6. ASSUME NEW uids \in Batches, EmitNewMail(uids)
      PROVE  NotifyInv'
  BY <1>6, EmitNewMailKeeps
<1>7. CASE Deliver
  <2>1. PICK p \in Deliveries : Respond(p)
    BY <1>7 DEF Deliver
  <2>2. UNCHANGED feedVars /\ UNCHANGED <<event, baseline>>
    BY <1>7 DEF Deliver
  <2>3. DeliveryInv' /\ emitted' = emitted
    BY <2>1, PostOkKept, RetryKept, GiveUpKept
       DEF NotifyInv, Respond, PostOk, Retry, GiveUp
  <2>4. FeedInv'
    BY <2>2 DEF NotifyInv, FeedInv, FeedTypeOK, feedVars
  <2> QED
    BY <2>2, <2>3, <2>4
       DEF NotifyInv, NotifyTypeOK, DeliveryInv, Distinct, EventsReported, feedVars
<1>8. CASE UNCHANGED notifyVars
  <2>1. /\ UNCHANGED deliveryVars /\ UNCHANGED feedVars /\ UNCHANGED <<event, reported>>
        /\ baseline' = baseline
    BY <1>8 DEF notifyVars, feedVars
  <2> QED
    BY <1>1, <1>2, <2>1
<1> QED
  BY <1>3, <1>4, <1>5, <1>6, <1>7, <1>8 DEF NotifyNext

\* Before the first event.
LEMMA NotifyInitKept == NotifyInit => NotifyInv
<1> SUFFICES ASSUME NotifyInit PROVE NotifyInv
  OBVIOUS
<1>1. DeliveryInv /\ FeedInv
  BY InitKept, FeedInitKept DEF NotifyInit
<1>2. event = <<>> /\ baseline = 0 /\ emitted = 0
  BY DEF NotifyInit, DeliveryInit
<1>3. event \in Seq(Uids) /\ Len(event) = 0
  BY <1>2, EmptySeq
<1> QED
  BY <1>1, <1>2, <1>3, FeedAssumption
     DEF NotifyInv, NotifyTypeOK, DeliveryInv, Distinct, EventsReported

(* The invariant holds in every state.                                     *)
THEOREM NotifyInvariant == NotifySpec => []NotifyInv
BY NotifyInitKept, NotifyStepKeeps, PTL DEF NotifySpec

(* The types of the composition, with an event for each number given out.  *)
THEOREM NotifyTyped == NotifySpec => []NotifyTypeOK
<1>1. NotifyInv => NotifyTypeOK
  BY DEF NotifyInv
<1> QED
  BY <1>1, NotifyInvariant, PTL

(* Delivering the events does not disturb the feed.                        *)
THEOREM FeedKept == NotifySpec => FeedSpec
<1>1. NotifyInit => FeedInit
  BY DEF NotifyInit
<1>2. [NotifyNext]_notifyVars => [FeedNext]_feedVars
  BY DEF NotifyNext, MailboxChanges, ConnectionLost, ConnectionBack, EmitNewMail, Deliver,
         FeedNext, notifyVars, feedVars
<1> QED
  BY <1>1, <1>2, PTL DEF NotifySpec, FeedSpec

(* The feed uses the dispatchers as their specification allows: what is    *)
(* proved of the deliveries (AttemptsBounded, LossesTraced) holds here too. *)
THEOREM DeliveriesKept == NotifySpec => DeliverySpec
<1>1. NotifyInit => DeliveryInit
  BY DEF NotifyInit
<1>2. NotifyInv /\ [NotifyNext]_notifyVars => [DeliveryNext]_deliveryVars
  <2> SUFFICES ASSUME NotifyInv, [NotifyNext]_notifyVars
               PROVE  [DeliveryNext]_deliveryVars
    OBVIOUS
  <2>1. ASSUME NEW uids \in Batches, EmitNewMail(uids)
        PROVE  \E n \in Events : Emit(n)
    BY <2>1, EmitNewMailIsEmit DEF EmitNewMail
  <2>2. CASE Deliver
    BY <2>2 DEF Deliver, DeliveryNext
  <2>3. MailboxChanges \/ ConnectionLost \/ ConnectionBack => UNCHANGED deliveryVars
    BY DEF MailboxChanges, ConnectionLost, ConnectionBack
  <2>4. UNCHANGED notifyVars => UNCHANGED deliveryVars
    BY DEF notifyVars
  <2> QED
    BY <2>1, <2>2, <2>3, <2>4 DEF NotifyNext, DeliveryNext
<1> QED
  BY <1>1, <1>2, NotifyInvariant, PTL DEF NotifySpec, DeliverySpec

\* The copies of a message are the POSTs of one delivery.
LEMMA CopiesAreAttempts ==
  ASSUME NotifyInv, NEW d \in Dispatchers, NEW u \in Uids
  PROVE  Cardinality(Copies(d, u)) <= MaxAttempts
<1> DEFINE attempt == [x \in Copies(d, u) |-> x[2]]
<1>1. /\ emitted \in Nat /\ NumEvents \in Nat /\ MaxAttempts \in Nat /\ Len(event) = emitted
      /\ \A p \in Deliveries : delivery[p] \in DeliveryRecords /\ WellKept(delivery[p])
  BY DeliveryAssumption DEF NotifyInv, NotifyTypeOK, DeliveryInv, DeliveryTypeOK
<1>2. ASSUME NEW p \in About(d, u), NEW q \in About(d, u)
      PROVE  p = q
  <2>1. /\ p \in Dispatchers \X Events /\ q \in Dispatchers \X Events
        /\ p[1] = d /\ q[1] = d /\ p[2] <= emitted /\ q[2] <= emitted
        /\ event[p[2]] = event[q[2]]
    BY DEF About, Deliveries
  <2>2. p[2] \in 1..Len(event) /\ q[2] \in 1..Len(event)
    BY <1>1, <2>1 DEF Events
  <2>3. p[2] = q[2]
    BY <2>1, <2>2 DEF NotifyInv, Distinct
  <2> QED
    BY <2>1, <2>3
<1>3. ASSUME NEW x \in Copies(d, u)
      PROVE  /\ x = <<x[1], x[2]>> /\ x[1] \in About(d, u)
             /\ x[2] \in 1..MaxAttempts
  <2>1. PICK p \in About(d, u) : x \in {p} \X (1..delivery[p].posts)
    BY DEF Copies
  <2>2. p \in Deliveries
    BY DEF About
  <2>3. delivery[p].posts \in Nat /\ delivery[p].posts <= MaxAttempts
    BY <1>1, <2>2 DEF DeliveryRecords, WellKept, Unsent
  <2> QED
    BY <1>1, <2>1, <2>3
<1>4. ASSUME NEW x \in Copies(d, u), NEW y \in Copies(d, u), attempt[x] = attempt[y]
      PROVE  x = y
  <2>1. x[1] = y[1] /\ x[2] = y[2]
    BY <1>2, <1>3, <1>4
  <2> QED
    BY <1>3, <2>1
<1>5. attempt \in [Copies(d, u) -> 1..MaxAttempts]
  BY <1>3
<1>6. attempt \in Injection(Copies(d, u), 1..MaxAttempts)
  BY <1>4, <1>5 DEF Injection, IsInjective
<1>7. IsFiniteSet(1..MaxAttempts) /\ Cardinality(1..MaxAttempts) = MaxAttempts
  BY <1>1, FS_Interval
<1> QED
  BY <1>6, <1>7, FS_Injection

(* However often connections are lost and endpoints fail, no endpoint gets *)
(* a message more than MAX_ATTEMPTS times.                                 *)
THEOREM OneDeliveryPerMessage == NotifySpec => []CopiesBounded
<1>1. NotifyInv => CopiesBounded
  BY CopiesAreAttempts DEF CopiesBounded
<1> QED
  BY <1>1, NotifyInvariant, PTL

=============================================================================
