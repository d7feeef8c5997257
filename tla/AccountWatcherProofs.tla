------------------------- MODULE AccountWatcherProofs -------------------------
(***************************************************************************)
(* Theorems of AccountWatcher, for every number of clients, links, UIDs    *)
(* and failures.  The watcher is a WatcherSupervision (WatcherSupervised), *)
(* so what is proved of the supervision holds of it; the rest is layered   *)
(* on that, each invariant using those before it:                          *)
(*   OwnInv     types;                                                     *)
(*   MirrorInv  the message count is the session's;                        *)
(*   Chain      the enrichments form one chain, worked off from its head;  *)
(*   MarksInv   a pending fetch holds the watermark of its mailbox;        *)
(*   FeedInv    with one mailbox, what is reported and what is not;        *)
(*   CoverInv   nothing is passed over, though attempts overlap;           *)
(*   OnceInv    nothing is reported twice, though answers come late.       *)
(*                                                                         *)
(* Serial (WatcherSupervisionProofs): attempts do not overlap.  OneFeed    *)
(* adds one mailbox and no answer after logout, CoverInv needs one mailbox *)
(* that is not renumbered, OnceInv needs Serial and one mailbox.  README,  *)
(* Proofs: what TLC finds when one of them is dropped.                     *)
(***************************************************************************)
EXTENDS AccountWatcher, WatcherSupervisionProofs, UidRanks, SequenceTheorems

USE DEF maps, rotation, enrichment, session, server, history, ownVars, vars

-----------------------------------------------------------------------------
\* Each action of the watcher is an action of the supervision or leaves it alone.
LEMMA NextIsSup == ASSUME Next PROVE [SupNext]_supVars
<1>1. ~crashed
  BY DEF Next
<1>2. ASSUME NEW t \in Clients, EnrichmentDrained(t)
      PROVE  SupNext
  BY <1>1, <1>2 DEF EnrichmentDrained, SupNext, ThreadStep
<1>3. ASSUME NEW l \in Links,
             EmitNewMail(l) \/ FetchListed(l) \/ FetchResolved(l) \/ FetchRejected(l)
      PROVE  UNCHANGED supVars
  BY <1>3 DEF EmitNewMail, FetchListed, FetchResolved, FetchRejected
<1>4. ASSUME NEW t \in Clients, Settlement(t)
      PROVE  SupNext
  <2>1. ThreadStep(t) \/ LogoutCompletes(t) \/ ErrorWithoutListener(t)
    BY <1>4 DEF Settlement, ConnectedAfterStop, ConnectedOpensFirst, FirstOpened,
           AttemptRejected, ReconnectFailed, SupervisionOnly, NextOpened, NextOpenRejected,
           ThreadStep
  <2> QED
    BY <1>1, <2>1 DEF SupNext, ClientStep
<1>5. ASSUME NEW c \in Clients,
             StartWatcher(c) \/ ReconnectTimerFires(c) \/ IdleResolved(c) \/ IdleRejected(c)
             \/ ConnectionEvent(c)
      PROVE  SupNext
  BY <1>1, <1>5 DEF StartWatcher, ReconnectTimerFires, IdleResolved, IdleRejected,
         ConnectionEvent, SupNext, ClientStep
<1>6. ASSUME NEW c \in Clients, HandleExists(c) \/ HandleExpunge(c)
      PROVE  UNCHANGED supVars
  BY <1>6 DEF HandleExists, HandleExpunge
<1>7. ASSUME NEW m \in Mailboxes, Deliver(m) \/ Purge(m) \/ Rebuild(m)
      PROVE  UNCHANGED supVars
  BY <1>7 DEF Deliver, Purge, Rebuild
<1>8. ASSUME StopWatcher \/ TimerExpires
      PROVE  SupNext
  BY <1>1, <1>8 DEF StopWatcher, SupNext
<1>9. CASE Callbacks
  BY <1>2, <1>3, <1>9 DEF Callbacks
<1>10. CASE Events
  BY <1>3, <1>4, <1>5, <1>6, <1>7, <1>8, <1>10 DEF Events
<1> QED
  BY <1>9, <1>10 DEF Next

(* The watcher with its mailboxes does to the connection only what the     *)
(* supervision does: connecting, dropping, reconnecting and stopping are   *)
(* the same with and without the handling of mailboxes.                    *)
THEOREM WatcherSupervised == Spec => SupSpec
<1>1. Init => SupInit
  BY DEF Init
<1>2. [Next]_vars => [SupNext]_supVars
  BY NextIsSup
<1> QED
  BY <1>1, <1>2, PTL DEF Spec, SupSpec

-----------------------------------------------------------------------------
(* Types.                                                                  *)

\* TypeOK without the part of the supervision.
OwnTypeOK ==
  /\ activeMailboxIndex \in 0..Max(MailboxCounts)
  /\ activeMailbox \in 0..Max(MailboxCounts)
  /\ mailboxCounts \in [Mailboxes -> Int]
  /\ mailboxUidWatermarks \in [Mailboxes -> Int]
  /\ mailboxUidValidity \in [Mailboxes -> Int]
  /\ pendingEnrichment \in Links \cup {NoLink}
  /\ opens \in [Clients -> 0..Max(MailboxCounts)]
  /\ awaits \in [Clients -> Links \cup {NoLink}]
  /\ link \in [Links -> LinkRecords]
  /\ wire \in [Clients -> Seq(Clients \cup Links)]
  /\ selected \in [Clients -> 0..Max(MailboxCounts)]
  /\ view \in [Clients -> SUBSET Uids]
  /\ mail \in [Mailboxes -> SUBSET Uids]
  /\ uidNext \in [Mailboxes -> 1..(MaxUid + 1)]
  /\ uidValidity \in [Mailboxes -> 0..MaxRebuilds]
  /\ reports \in [Mailboxes -> [Uids -> 0..2]]
  /\ baseline \in [Mailboxes -> Int]

\* A mailboxOpen under way is for a mailbox.
OpensMailbox ==
  \A t \in Clients : pc[t] \in {"opening", "reopening"} => opens[t] \in Mailboxes

\* A call of emitNewMail is for a mailbox, its fetch on a client.
LinksAim ==
  \A l \in Links :
    /\ link[l].st # "free" => link[l].box \in Mailboxes
    /\ Fetching(l) => link[l].to \in Clients

\* Types, inductively.
OwnInv == OwnTypeOK /\ OpensMailbox /\ LinksAim

\* Mailboxes are numbered from 1, and 0 is none of them.
LEMMA MailboxRange ==
  /\ Max(MailboxCounts) \in Nat
  /\ Mailboxes \subseteq 0..Max(MailboxCounts)
  /\ \A n \in MailboxCounts : n \in Nat /\ n <= Max(MailboxCounts)
  /\ \A m \in 0..Max(MailboxCounts) : m # 0 => m \in Mailboxes
  /\ 0 \notin Mailboxes /\ 0 \in 0..Max(MailboxCounts)
<1>1. MailboxCounts \in SUBSET Nat /\ IsFiniteSet(MailboxCounts) /\ MailboxCounts # {}
  BY SupervisionAssumption, WatcherAssumption
<1>2. Max(MailboxCounts) \in Nat /\ \A n \in MailboxCounts : Max(MailboxCounts) >= n
  BY <1>1, HasMax
<1> QED
  BY <1>1, <1>2 DEF Mailboxes

\* Sets of UIDs are finite and have a highest member.
LEMMA UidSets ==
  ASSUME NEW S \in SUBSET Uids
  PROVE  /\ IsFiniteSet(S) /\ S \in SUBSET Nat
         /\ Cardinality(S) \in 0..MaxUid
         /\ S # {} => Max(S) \in S /\ \A u \in S : u <= Max(S)
<1>1. MaxUid \in Nat
  BY WatcherAssumption
<1>2. IsFiniteSet(1..MaxUid) /\ Cardinality(1..MaxUid) = MaxUid
  BY <1>1, FS_Interval
<1>3. IsFiniteSet(S) /\ Cardinality(S) <= MaxUid /\ Cardinality(S) \in Nat
  BY <1>2, FS_Subset, FS_CardinalityType DEF Uids
<1>4. S \in SUBSET Nat
  BY <1>1 DEF Uids
<1>5. ASSUME S # {}
      PROVE  Max(S) \in S /\ \A u \in S : u <= Max(S)
  <2>1. Max(S) \in S /\ \A u \in S : Max(S) >= u
    BY <1>3, <1>4, <1>5, HasMax
  <2> QED
    BY <1>4, <2>1
<1> QED
  BY <1>1, <1>3, <1>4, <1>5

\* The history counts reports up to 2.
LEMMA CountedReport == \A n \in 0..2 : Min({2, n + 1}) \in 0..2
<1> SUFFICES ASSUME NEW n \in 0..2 PROVE Min({2, n + 1}) \in 0..2
  OBVIOUS
<1>1. \E x \in {2, n + 1} : \A y \in {2, n + 1} : x <= y
  OBVIOUS
<1>2. Min({2, n + 1}) \in {2, n + 1} /\ Min({2, n + 1}) <= 2
  BY <1>1 DEF Min
<1> QED
  BY <1>2

\* An answered command leaves a sequence of commands,
LEMMA WithoutType ==
  ASSUME NEW S, NEW w \in Seq(S), NEW cmd
  PROVE  Without(w, cmd) \in Seq(S)
<1>1. CASE \A i \in 1..Len(w) : w[i] # cmd
  BY <1>1 DEF Without
<1>2. CASE ~ \A i \in 1..Len(w) : w[i] # cmd
  <2> DEFINE i == CHOOSE i \in 1..Len(w) : w[i] = cmd
  <2>1. i \in 1..Len(w) /\ Len(w) \in Nat
    BY <1>2, LenProperties
  <2> HIDE DEF i
  <2>2. i - 1 \in Int /\ i + 1 \in Int /\ 1 \in Int /\ Len(w) \in Int
    BY <2>1
  <2>3. (\A j \in 1..i - 1 : w[j] \in S) /\ (\A j \in i + 1..Len(w) : w[j] \in S)
    BY <2>1, ElementOfSeq
  <2>4. SubSeq(w, 1, i - 1) \in Seq(S) /\ SubSeq(w, i + 1, Len(w)) \in Seq(S)
    BY <2>2, <2>3, SubSeqProperties
  <2>5. SubSeq(w, 1, i - 1) \o SubSeq(w, i + 1, Len(w)) \in Seq(S)
    BY <2>4, ConcatProperties
  <2> QED
    BY <1>2, <2>5 DEF Without, i
<1> QED
  BY <1>1, <1>2

\* also where a retry is issued behind it.
LEMMA WireType ==
  ASSUME NEW w \in [Clients -> Seq(Clients \cup Links)], NEW c \in Clients,
         NEW cmd \in Clients \cup Links
  PROVE  /\ [w EXCEPT ![c] = Without(@, cmd)] \in [Clients -> Seq(Clients \cup Links)]
         /\ Issued(w, c, cmd) \in [Clients -> Seq(Clients \cup Links)]
<1>1. Without(w[c], cmd) \in Seq(Clients \cup Links)
  BY WithoutType
<1>2. Append(w[c], cmd) \in Seq(Clients \cup Links)
  OBVIOUS
<1> QED
  BY <1>1, <1>2 DEF Issued

\* The records of the chain: a call that waits for prev,
LEMMA NewLinkType ==
  ASSUME NEW m \in Mailboxes, NEW prev \in Links \cup {NoLink}
  PROVE  /\ NewLink(m, prev) \in LinkRecords
         /\ NewLink(m, prev).st = "waiting" /\ NewLink(m, prev).box = m
         /\ NewLink(m, prev).prev = prev
<1>1. m \in 0..Max(MailboxCounts) /\ 0 \in 0..FetchAttempts /\ {} \in SUBSET Uids
  BY MailboxRange, WatcherAssumption
<1> QED
  BY <1>1 DEF NewLink, LinkRecords

\* one that is not in use,
LEMMA FreeLinkType == FreeLink \in LinkRecords /\ FreeLink.st = "free" /\ FreeLink.prev = NoLink
<1>1. 0 \in 0..Max(MailboxCounts) /\ 0 \in 0..FetchAttempts /\ {} \in SUBSET Uids
  BY MailboxRange, WatcherAssumption
<1>2. FreeLink = [st |-> "free", box |-> 0, prev |-> NoLink, to |-> NoClient, above |-> 0,
                  attempt |-> 0, got |-> {}]
  BY DEF FreeLink, NewLink
<1> QED
  BY <1>1, <1>2 DEF LinkRecords

\* and what a settled promise leaves of the others.
LEMMA SettleType ==
  ASSUME OwnInv, NEW l \in Links, Settle(l)
  PROVE  /\ link' \in [Links -> LinkRecords]
         /\ pendingEnrichment' \in Links \cup {NoLink}
         /\ awaits' \in [Clients -> Links \cup {NoLink}]
         /\ LinksAim'
         /\ \A k \in Links :
              IF k = l THEN link'[k].st = "free" /\ link'[k].prev = NoLink
              ELSE /\ link'[k].st = link[k].st /\ link'[k].box = link[k].box
                   /\ link'[k].to = link[k].to /\ link'[k].above = link[k].above
                   /\ link'[k].got = link[k].got /\ link'[k].attempt = link[k].attempt
                   /\ link'[k].prev = IF link[k].prev = l THEN NoLink ELSE link[k].prev
<1>1. /\ link' = [k \in Links |->
                   IF k = l THEN FreeLink
                   ELSE [link[k] EXCEPT !.prev = IF @ = l THEN NoLink ELSE @]]
      /\ pendingEnrichment' = IF pendingEnrichment = l THEN NoLink ELSE pendingEnrichment
      /\ awaits' = [t \in Clients |-> IF awaits[t] = l THEN NoLink ELSE awaits[t]]
  BY DEF Settle
<1>2. /\ link \in [Links -> LinkRecords] /\ pendingEnrichment \in Links \cup {NoLink}
      /\ awaits \in [Clients -> Links \cup {NoLink}]
  BY DEF OwnInv, OwnTypeOK
<1>3. ASSUME NEW k \in Links, k # l
      PROVE  /\ link'[k] \in LinkRecords
             /\ link'[k].st = link[k].st /\ link'[k].box = link[k].box
             /\ link'[k].to = link[k].to /\ link'[k].above = link[k].above
             /\ link'[k].got = link[k].got /\ link'[k].attempt = link[k].attempt
             /\ link'[k].prev = IF link[k].prev = l THEN NoLink ELSE link[k].prev
  <2>1. link'[k] = [link[k] EXCEPT !.prev = IF @ = l THEN NoLink ELSE @]
    BY <1>1, <1>3
  <2>2. link[k] \in LinkRecords
    BY <1>2
  <2> QED
    BY <2>1, <2>2 DEF LinkRecords
<1>4. link'[l] = FreeLink
  BY <1>1
<1>5. \A k \in Links : link'[k] \in LinkRecords
  BY <1>3, <1>4, FreeLinkType
<1>6. link' \in [Links -> LinkRecords]
  BY <1>1, <1>5
<1>7. LinksAim'
  BY <1>3, <1>4, FreeLinkType DEF OwnInv, LinksAim, Fetching
<1> QED
  BY <1>1, <1>2, <1>3, <1>4, <1>6, <1>7, FreeLinkType

\* Forgetting the mailboxes keeps the types.
LEMMA ForgetType ==
  ASSUME OwnInv, ForgetMailboxes, wire' \in [Clients -> Seq(Clients \cup Links)],
         UNCHANGED <<activeMailboxIndex, awaits, link, opens, session, server, history>>
  PROVE  OwnTypeOK' /\ LinksAim'
<1>1. AllUnknown \in [Mailboxes -> Int]
  BY DEF AllUnknown, Unknown
<1>2. OwnTypeOK'
  BY <1>1, MailboxRange DEF OwnInv, OwnTypeOK, ForgetMailboxes
<1>3. LinksAim'
  BY DEF OwnInv, LinksAim, Fetching
<1> QED
  BY <1>2, <1>3

\* So does a thread that stops opening.
LEMMA OpensKept ==
  ASSUME SupTypeOK, OwnInv, UNCHANGED opens, NEW t \in Clients,
         NEW where, where \notin {"opening", "reopening"}, pc' = [pc EXCEPT ![t] = where]
  PROVE  OpensMailbox'
BY DEF SupTypeOK, OwnInv, OpensMailbox

\* Each handler keeps the types: start() and the timer,
LEMMA StartTyped ==
  ASSUME SupTypeOK, OwnInv, NEW c \in Clients, StartWatcher(c) \/ ReconnectTimerFires(c)
  PROVE  OwnInv'
<1>1. /\ pc' = [pc EXCEPT ![c] = "connecting"]
      /\ selected' = [selected EXCEPT ![c] = 0] /\ view' = [view EXCEPT ![c] = {}]
      /\ UNCHANGED <<rotation, maps, enrichment, opens, wire, server, history>>
  BY DEF StartWatcher, ReconnectTimerFires, Start, TimerFires, ConnectAndWatch, FreshClient
<1>2. OwnTypeOK'
  BY <1>1, MailboxRange DEF OwnInv, OwnTypeOK
<1>3. LinksAim'
  BY <1>1 DEF OwnInv, LinksAim, Fetching
<1> QED
  BY <1>1, <1>2, <1>3, OpensKept DEF OwnInv

\* stop(),
LEMMA StopTyped ==
  ASSUME SupTypeOK, OwnInv, StopWatcher
  PROVE  OwnInv'
<1>1. pc' = pc /\ opens' = opens
  BY DEF StopWatcher, Stop, threads
<1>2. OpensMailbox'
  BY <1>1 DEF OwnInv, OpensMailbox
<1>3. wire' \in [Clients -> Seq(Clients \cup Links)]
  BY DEF StopWatcher, OwnInv, OwnTypeOK
<1> QED
  BY <1>2, <1>3, ForgetType DEF StopWatcher, OwnInv

\* drops and failed opens,
LEMMA ForgetTyped ==
  ASSUME SupTypeOK, OwnInv, NEW t \in Clients,
         \/ ConnectedAfterStop(t) \/ ReconnectFailed(t)
         \/ NextOpenRejected(t) \/ IdleRejected(t) \/ ConnectionEvent(t)
  PROVE  OwnInv'
<1>1. wire \in [Clients -> Seq(Clients \cup Links)]
  BY DEF OwnInv, OwnTypeOK
<1>3. CASE ConnectedAfterStop(t)
  <2>1. pc' = [pc EXCEPT ![t] = "stopping"] /\ opens' = opens
    BY <1>3 DEF ConnectedAfterStop, ConnectAfterStop
  <2> QED
    BY <1>1, <1>3, <2>1, ForgetType, OpensKept DEF ConnectedAfterStop, OwnInv
<1>4. CASE ReconnectFailed(t)
  <2>1. pc' = [pc EXCEPT ![t] = "free"] /\ opens' = opens
    BY <1>4 DEF ReconnectFailed, HandleReconnectFailure
  <2> QED
    BY <1>1, <1>4, <2>1, ForgetType, OpensKept DEF ReconnectFailed, OwnInv
<1>5. CASE NextOpenRejected(t)
  <2>1. pc' = [pc EXCEPT ![t] = "free"] /\ opens' = opens /\ wire' = Answered(on[t], t)
    BY <1>5 DEF NextOpenRejected, ReopenFails
  <2>2. wire' \in [Clients -> Seq(Clients \cup Links)]
    BY <1>1, <2>1, WireType DEF Answered, SupTypeOK
  <2> QED
    BY <1>5, <2>1, <2>2, ForgetType, OpensKept DEF NextOpenRejected, OwnInv
<1>6. CASE IdleRejected(t)
  <2>1. pc' = [pc EXCEPT ![t] = "free"] /\ opens' = opens /\ wire' = wire
    BY <1>6 DEF IdleRejected, IdleFails
  <2>2. CASE StillCurrent(t)
    BY <1>1, <1>6, <2>1, <2>2, ForgetType, OpensKept DEF IdleRejected, OwnInv
  <2>3. CASE ~StillCurrent(t)
    BY <1>6, <2>1, <2>3, OpensKept DEF IdleRejected, OwnInv, OwnTypeOK, LinksAim, Fetching
  <2> QED
    BY <2>2, <2>3
<1>7. CASE ConnectionEvent(t)
  <2>1. pc' = pc /\ opens' = opens /\ wire' = wire
    BY <1>7 DEF ConnectionEvent, HandleError, HandleClose, ClientEvent, threads
  <2>2. OpensMailbox'
    BY <2>1 DEF OwnInv, OpensMailbox
  <2>3. CASE started
    BY <1>1, <1>7, <2>1, <2>2, <2>3, ForgetType DEF ConnectionEvent, OwnInv
  <2>4. CASE ~started
    BY <1>7, <2>1, <2>2, <2>4 DEF ConnectionEvent, OwnInv, OwnTypeOK, LinksAim, Fetching
  <2> QED
    BY <2>3, <2>4
<1> QED
  BY <1>3, <1>4, <1>5, <1>6, <1>7

\* the call of mailboxOpen,
LEMMA OpenTyped ==
  ASSUME SupTypeOK, OwnInv, NEW t \in Clients, NEW c \in Clients, NEW index \in Mailboxes,
         OpenActiveMailbox(t, c, index), NEW where, pc' = [pc EXCEPT ![t] = where],
         UNCHANGED <<maps, enrichment, session, server, history>>
  PROVE  OwnInv'
<1>1. /\ activeMailboxIndex' = index /\ activeMailbox' = index
      /\ opens' = [opens EXCEPT ![t] = index] /\ wire' = Issued(wire, c, t)
      /\ index \in 0..Max(MailboxCounts)
  BY MailboxRange DEF OpenActiveMailbox
<1>2. wire' \in [Clients -> Seq(Clients \cup Links)]
  BY <1>1, WireType DEF OwnInv, OwnTypeOK
<1>3. OwnTypeOK'
  BY <1>1, <1>2 DEF OwnInv, OwnTypeOK
<1>4. OpensMailbox'
  BY <1>1 DEF OwnInv, OwnTypeOK, OpensMailbox, SupTypeOK
<1>5. LinksAim'
  BY DEF OwnInv, LinksAim, Fetching
<1> QED
  BY <1>3, <1>4, <1>5 DEF OwnInv

\* the first of them after connect(),
LEMMA ConnectedTyped ==
  ASSUME SupTypeOK, OwnInv, NEW c \in Clients, ConnectedOpensFirst(c)
  PROVE  OwnInv'
<1>1. numMailboxes > 0 /\ pc' = [pc EXCEPT ![c] = "opening"]
  BY DEF ConnectedOpensFirst, ConnectThenOpen
<1>2. 1 \in Mailboxes
  BY <1>1, MailboxRange DEF SupTypeOK, Mailboxes
<1>3. /\ OpenActiveMailbox(c, c, 1)
      /\ UNCHANGED <<maps, enrichment, session, server, history>>
  BY DEF ConnectedOpensFirst
<1> QED
  BY <1>1, <1>2, <1>3, OpenTyped

\* the round-robin,
LEMMA NextIndexType ==
  ASSUME SupTypeOK, OwnInv, numMailboxes > 1
  PROVE  NextIndex \in 1..numMailboxes /\ NextIndex \in Mailboxes
<1>1. numMailboxes \in Nat /\ numMailboxes <= Max(MailboxCounts) /\ Max(MailboxCounts) \in Nat
  BY MailboxRange DEF SupTypeOK
<1>2. activeMailboxIndex \in Nat
  BY MailboxRange DEF OwnInv, OwnTypeOK
<1>3. activeMailboxIndex % numMailboxes \in 0..numMailboxes - 1
  BY <1>1, <1>2
<1> QED
  BY <1>1, <1>3 DEF NextIndex, Mailboxes

\* its step after an IDLE,
LEMMA DrainedTyped ==
  ASSUME SupTypeOK, OwnInv, NEW t \in Clients, EnrichmentDrained(t)
  PROVE  OwnInv'
<1>1. CASE DrainedReopen(t) /\ OpenActiveMailbox(t, on[t], NextIndex)
  <2>1. numMailboxes > 1 /\ pc' = [pc EXCEPT ![t] = "reopening"]
        /\ UNCHANGED <<maps, enrichment, session, server, history>>
    BY <1>1 DEF EnrichmentDrained, DrainedReopen
  <2>2. on[t] \in Clients
    BY DEF SupTypeOK
  <2> QED
    BY <1>1, <2>1, <2>2, NextIndexType, OpenTyped
<1>2. CASE /\ DrainedStale(t) \/ DrainedIdleAgain(t)
           /\ UNCHANGED <<rotation, opens, wire>>
  <2>1. PICK where \in {"free", "idling"} : pc' = [pc EXCEPT ![t] = where]
    BY <1>2 DEF DrainedStale, DrainedIdleAgain, BeginIdle
  <2>2. OpensMailbox'
    BY <1>2, <2>1, OpensKept
  <2> QED
    BY <1>2, <2>2 DEF EnrichmentDrained, OwnInv, OwnTypeOK, LinksAim, Fetching
<1> QED
  BY <1>1, <1>2 DEF EnrichmentDrained

\* an open that resolves,
LEMMA MailboxOpenedType ==
  ASSUME SupTypeOK, OwnInv, NEW t \in Clients, opens[t] \in Mailboxes, MailboxOpened(t)
  PROVE  /\ wire' \in [Clients -> Seq(Clients \cup Links)]
         /\ selected' \in [Clients -> 0..Max(MailboxCounts)]
         /\ view' \in [Clients -> SUBSET Uids]
         /\ mailboxCounts' \in [Mailboxes -> Int]
         /\ mailboxUidWatermarks' \in [Mailboxes -> Int]
         /\ mailboxUidValidity' \in [Mailboxes -> Int]
         /\ baseline' \in [Mailboxes -> Int]
<1> DEFINE m == opens[t]
           c == on[t]
<1>1. c \in Clients /\ m \in Mailboxes /\ m \in 0..Max(MailboxCounts)
  BY MailboxRange DEF SupTypeOK
<1>2. /\ wire' = Answered(c, t) /\ selected' = [selected EXCEPT ![c] = m]
      /\ view' = [view EXCEPT ![c] = mail[m]] /\ CountOpened(m)
      /\ \/ \E known \in BOOLEAN : UpdateUidWatermark(m, known)
         \/ UNCHANGED <<mailboxUidValidity, mailboxUidWatermarks, baseline>>
  BY DEF MailboxOpened
<1> HIDE DEF m, c
<1>3. Baseline(m) \in Int /\ uidValidity[m] \in Int /\ Cardinality(mail[m]) \in Int
      /\ mail[m] \in SUBSET Uids
  <2>1. mail[m] \in SUBSET Uids /\ uidNext[m] \in Int /\ uidValidity[m] \in Int
    BY <1>1, WatcherAssumption DEF OwnInv, OwnTypeOK
  <2> QED
    BY <2>1, UidSets, WatcherAssumption DEF Baseline
<1>4. wire' \in [Clients -> Seq(Clients \cup Links)]
  BY <1>1, <1>2, WireType DEF OwnInv, OwnTypeOK, Answered
<1>5. /\ selected' \in [Clients -> 0..Max(MailboxCounts)]
      /\ view' \in [Clients -> SUBSET Uids]
      /\ mailboxCounts' \in [Mailboxes -> Int]
  <2>1. /\ selected \in [Clients -> 0..Max(MailboxCounts)] /\ view \in [Clients -> SUBSET Uids]
        /\ mailboxCounts \in [Mailboxes -> Int]
    BY DEF OwnInv, OwnTypeOK
  <2>2. \E k \in Int : mailboxCounts' = [mailboxCounts EXCEPT ![m] = k]
    BY <1>1, <1>2, <1>3, <2>1 DEF CountOpened
  <2> QED
    BY <1>1, <1>2, <1>3, <2>1, <2>2
<1>6. /\ mailboxUidWatermarks' \in [Mailboxes -> Int]
      /\ mailboxUidValidity' \in [Mailboxes -> Int]
      /\ baseline' \in [Mailboxes -> Int]
  <2>1. /\ mailboxUidWatermarks \in [Mailboxes -> Int] /\ baseline \in [Mailboxes -> Int]
        /\ mailboxUidValidity \in [Mailboxes -> Int]
    BY DEF OwnInv, OwnTypeOK
  <2>2. ASSUME NEW known \in BOOLEAN, UpdateUidWatermark(m, known)
        PROVE  /\ mailboxUidWatermarks' \in [Mailboxes -> Int]
               /\ mailboxUidValidity' \in [Mailboxes -> Int]
               /\ baseline' \in [Mailboxes -> Int]
    <3>1. \A f \in [Mailboxes -> Int] : \A v \in Int : [f EXCEPT ![m] = v] \in [Mailboxes -> Int]
      BY <1>1
    <3>2. PICK w, b, v \in Int :
            /\ mailboxUidWatermarks' = [mailboxUidWatermarks EXCEPT ![m] = w]
            /\ baseline' = [baseline EXCEPT ![m] = b]
            /\ mailboxUidValidity' = [mailboxUidValidity EXCEPT ![m] = v]
      BY <1>1, <1>3, <2>1, <2>2 DEF UpdateUidWatermark
    <3> QED
      BY <1>3, <2>1, <3>1, <3>2
  <2> QED
    BY <1>2, <2>1, <2>2
<1> QED
  BY <1>4, <1>5, <1>6

\* the first and the later ones,
LEMMA OpenedTyped ==
  ASSUME SupTypeOK, OwnInv, NEW t \in Clients, FirstOpened(t) \/ NextOpened(t)
  PROVE  OwnInv'
<1>1. pc[t] \in {"opening", "reopening"} /\ BeginIdle(t) /\ MailboxOpened(t)
      /\ UNCHANGED <<rotation, enrichment, opens, server, reports>>
  BY DEF FirstOpened, OpenOk, NextOpened, ReopenOk
<1>2. opens[t] \in Mailboxes
  BY <1>1 DEF OwnInv, OpensMailbox
<1>3. PICK where \in {"free", "idling"} : pc' = [pc EXCEPT ![t] = where]
  BY <1>1 DEF BeginIdle
<1>4. OpensMailbox'
  BY <1>1, <1>3, OpensKept
<1>5. OwnTypeOK'
  BY <1>1, <1>2, MailboxOpenedType DEF OwnInv, OwnTypeOK
<1>6. LinksAim'
  BY <1>1 DEF OwnInv, LinksAim, Fetching
<1> QED
  BY <1>4, <1>5, <1>6 DEF OwnInv

\* the steps that only move a thread,
LEMMA ThreadTyped ==
  ASSUME SupTypeOK, OwnInv, NEW t \in Clients,
         AttemptRejected(t) \/ SupervisionOnly(t) \/ IdleResolved(t)
  PROVE  OwnInv'
<1>1. CASE AttemptRejected(t)
  <2>1. pc' = [pc EXCEPT ![t] = "failing"] /\ opens' = opens /\ wire' = Answered(on[t], t)
        /\ UNCHANGED <<rotation, maps, enrichment, opens, session, server, history>>
    BY <1>1 DEF AttemptRejected, AttemptFails
  <2>2. wire' \in [Clients -> Seq(Clients \cup Links)]
    BY <2>1, WireType DEF OwnInv, OwnTypeOK, Answered, SupTypeOK
  <2>3. OpensMailbox'
    BY <2>1, OpensKept
  <2> QED
    BY <2>1, <2>2, <2>3 DEF OwnInv, OwnTypeOK, LinksAim, Fetching
<1>2. CASE SupervisionOnly(t)
  <2>1. pc' = pc \/ pc' = [pc EXCEPT ![t] = "free"]
    BY <1>2 DEF SupervisionOnly, ConnectNothingToWatch, StartRejects, StopUnwinds,
           LogoutCompletes, ErrorWithoutListener, threads
  <2>2. UNCHANGED ownVars
    BY <1>2 DEF SupervisionOnly
  <2>3. OpensMailbox'
    BY <2>1, <2>2, OpensKept DEF OwnInv, OpensMailbox
  <2> QED
    BY <2>2, <2>3 DEF OwnInv, OwnTypeOK, LinksAim, Fetching
<1>3. CASE IdleResolved(t)
  <2>1. PICK where \in {"free", "draining"} : pc' = [pc EXCEPT ![t] = where]
    BY <1>3 DEF IdleResolved, IdleEnds
  <2>2. OpensMailbox'
    BY <1>3, <2>1, OpensKept DEF IdleResolved
  <2>3. awaits' \in [Clients -> Links \cup {NoLink}]
    BY <1>3 DEF IdleResolved, OwnInv, OwnTypeOK
  <2> QED
    BY <1>3, <2>2, <2>3 DEF IdleResolved, OwnInv, OwnTypeOK, LinksAim, Fetching
<1> QED
  BY <1>1, <1>2, <1>3

\* EXISTS,
LEMMA ExistsTyped ==
  ASSUME SupTypeOK, OwnInv, NEW c \in Clients, HandleExists(c)
  PROVE  OwnInv'
<1>1. /\ selected[c] # 0
      /\ view' = [view EXCEPT ![c] = @ \cup mail[selected[c]]]
      /\ UNCHANGED <<supVars, rotation, mailboxUidWatermarks, mailboxUidValidity, awaits,
                     opens, wire, selected, server, history>>
  BY DEF HandleExists
<1>2. selected[c] \in Mailboxes
  BY <1>1, MailboxRange DEF OwnInv, OwnTypeOK
<1>3. view' \in [Clients -> SUBSET Uids]
  BY <1>1, <1>2 DEF OwnInv, OwnTypeOK
<1>4. CASE UNCHANGED <<mailboxCounts, pendingEnrichment, link>>
  BY <1>1, <1>3, <1>4 DEF OwnInv, OwnTypeOK, LinksAim, Fetching, OpensMailbox, supVars, threads
<1>5. CASE /\ activeMailbox # 0
           /\ mailboxCounts' = [mailboxCounts EXCEPT ![activeMailbox] = Cardinality(view'[c])]
           /\ UNCHANGED <<pendingEnrichment, link>> \/ ChainEnrichment(activeMailbox)
  <2>1. activeMailbox \in Mailboxes
    BY <1>5, MailboxRange DEF OwnInv, OwnTypeOK
  <2>2. Cardinality(view'[c]) \in Int
    BY <1>3, UidSets
  <2>3. mailboxCounts' \in [Mailboxes -> Int]
    BY <1>5, <2>1, <2>2 DEF OwnInv, OwnTypeOK
  <2>4. /\ pendingEnrichment' \in Links \cup {NoLink} /\ link' \in [Links -> LinkRecords]
        /\ LinksAim'
    <3>1. CASE UNCHANGED <<pendingEnrichment, link>>
      BY <3>1 DEF OwnInv, OwnTypeOK, LinksAim, Fetching
    <3>2. CASE ChainEnrichment(activeMailbox)
      <4>1. PICK l \in Links :
              /\ link[l].st = "free"
              /\ link' = [link EXCEPT ![l] = NewLink(activeMailbox, pendingEnrichment)]
              /\ pendingEnrichment' = l
        BY <3>2 DEF ChainEnrichment
      <4>2. pendingEnrichment \in Links \cup {NoLink} /\ link \in [Links -> LinkRecords]
        BY DEF OwnInv, OwnTypeOK
      <4>3. /\ NewLink(activeMailbox, pendingEnrichment) \in LinkRecords
            /\ NewLink(activeMailbox, pendingEnrichment).st = "waiting"
            /\ NewLink(activeMailbox, pendingEnrichment).box = activeMailbox
        BY <2>1, <4>2, NewLinkType
      <4>4. LinksAim'
        BY <2>1, <4>1, <4>2, <4>3 DEF OwnInv, LinksAim, Fetching
      <4> QED
        BY <4>1, <4>2, <4>3, <4>4
    <3> QED
      BY <1>5, <3>1, <3>2
  <2> QED
    BY <1>1, <1>3, <2>3, <2>4 DEF OwnInv, OwnTypeOK, OpensMailbox, supVars, threads
<1> QED
  BY <1>4, <1>5 DEF HandleExists

\* EXPUNGE,
LEMMA ExpungeTyped ==
  ASSUME SupTypeOK, OwnInv, NEW c \in Clients, HandleExpunge(c)
  PROVE  OwnInv'
<1>1. /\ \E u \in view[c] \ mail[selected[c]] : view' = [view EXCEPT ![c] = @ \ {u}]
      /\ mailboxCounts' = CountExpunged
      /\ UNCHANGED <<supVars, rotation, mailboxUidWatermarks, mailboxUidValidity, enrichment,
                     opens, wire, selected, server, history>>
  BY DEF HandleExpunge
<1>2. view' \in [Clients -> SUBSET Uids] /\ mailboxCounts' \in [Mailboxes -> Int]
  BY <1>1 DEF OwnInv, OwnTypeOK, CountExpunged
<1> QED
  BY <1>1, <1>2 DEF OwnInv, OwnTypeOK, LinksAim, Fetching, OpensMailbox, supVars, threads

\* the start of an enrichment,
LEMMA EmitTyped ==
  ASSUME SupTypeOK, OwnInv, NEW l \in Links, EmitNewMail(l)
  PROVE  OwnInv'
<1> DEFINE m == link[l].box
           k == [link[l] EXCEPT !.st = "fetching", !.to = client, !.attempt = 1,
                                !.above = mailboxUidWatermarks[m]]
<1>1. /\ link[l].st = "waiting"
      /\ UNCHANGED <<supVars, rotation, maps, opens, session, server, history>>
      /\ \/ Settle(l) /\ UNCHANGED wire
         \/ /\ client # NoClient
            /\ link' = [link EXCEPT ![l] = k]
            /\ wire' = Issued(wire, client, l)
            /\ UNCHANGED <<pendingEnrichment, awaits>>
  BY DEF EmitNewMail, LinkDue
<1>2. link \in [Links -> LinkRecords] /\ m \in Mailboxes
  BY <1>1 DEF OwnInv, OwnTypeOK, LinksAim
<1>3. OpensMailbox'
  BY <1>1 DEF OwnInv, OpensMailbox, supVars, threads
<1>4. CASE Settle(l) /\ UNCHANGED wire
  BY <1>1, <1>3, <1>4, SettleType DEF OwnInv, OwnTypeOK
<1>5. CASE /\ client # NoClient
           /\ link' = [link EXCEPT ![l] = k]
           /\ wire' = Issued(wire, client, l)
           /\ UNCHANGED <<pendingEnrichment, awaits>>
  <2>1. client \in Clients /\ 1 \in 0..FetchAttempts /\ mailboxUidWatermarks[m] \in Int
    BY <1>2, <1>5, WatcherAssumption, SMTT(30) DEF SupTypeOK, OwnInv, OwnTypeOK
  <2>2. link[l] \in LinkRecords
    BY <1>2
  <2>3. k \in LinkRecords /\ k.st = "fetching" /\ k.to = client /\ k.box = m
    BY <2>1, <2>2 DEF LinkRecords
  <2> HIDE DEF k, m
  <2>4. link' \in [Links -> LinkRecords] /\ wire' \in [Clients -> Seq(Clients \cup Links)]
    BY <1>2, <1>5, <2>1, <2>3, WireType DEF OwnInv, OwnTypeOK
  <2>5. LinksAim'
    BY <1>2, <1>5, <2>1, <2>3 DEF OwnInv, LinksAim, Fetching
  <2> QED
    BY <1>1, <1>3, <1>5, <2>4, <2>5 DEF OwnInv, OwnTypeOK
<1> QED
  BY <1>1, <1>4, <1>5

\* the result of a FETCH,
LEMMA FetchAllType ==
  ASSUME OwnInv, NEW c \in Clients, selected[c] # 0, NEW from
  PROVE  FetchAll(c, from) \in SUBSET (view[c] \cap mail[selected[c]])
<1> DEFINE here == view[c] \cap mail[selected[c]]
<1>1. here \in SUBSET Uids
  BY DEF OwnInv, OwnTypeOK
<1>2. here # {} => Max(here) \in here
  BY <1>1, UidSets
<1> HIDE DEF here
<1>3. FetchAll(c, from) = LET new == {u \in here : u >= from}
                          IN IF new = {} /\ here # {} THEN {Max(here)} ELSE new
  BY DEF FetchAll, here
<1>4. FetchAll(c, from) \in SUBSET here
  BY <1>2, <1>3
<1> QED
  BY <1>4 DEF here

\* its listing,
LEMMA ListedTyped ==
  ASSUME SupTypeOK, OwnInv, NEW l \in Links, FetchListed(l)
  PROVE  OwnInv'
<1> DEFINE c == link[l].to
           got == FetchAll(c, RangeStart(l))
<1>1. /\ link[l].st = "fetching" /\ selected[c] # 0
      /\ link' = [link EXCEPT ![l].st = "listed", ![l].got = got]
      /\ UNCHANGED <<supVars, rotation, maps, pendingEnrichment, awaits, opens, wire, session,
                     server, history>>
  BY DEF FetchListed
<1>2. c \in Clients /\ link \in [Links -> LinkRecords]
  BY <1>1 DEF OwnInv, OwnTypeOK, LinksAim, Fetching
<1>3. got \in SUBSET Uids
  BY <1>1, <1>2, FetchAllType DEF OwnInv, OwnTypeOK
<1> HIDE DEF got
<1>4. link[l] \in LinkRecords /\ link' = [link EXCEPT ![l] = link'[l]]
      /\ link'[l] = [link[l] EXCEPT !.st = "listed", !.got = got]
  BY <1>1, <1>2
<1>5. link'[l] \in LinkRecords /\ link'[l].box = link[l].box /\ link'[l].to = link[l].to
  BY <1>3, <1>4 DEF LinkRecords
<1>6. link' \in [Links -> LinkRecords]
  BY <1>2, <1>4, <1>5
<1>7. LinksAim'
  BY <1>1, <1>2, <1>4, <1>5 DEF OwnInv, LinksAim, Fetching
<1> QED
  BY <1>1, <1>6, <1>7 DEF OwnInv, OwnTypeOK, OpensMailbox, supVars, threads

\* its resolution,
LEMMA ResolvedTyped ==
  ASSUME SupTypeOK, OwnInv, NEW l \in Links, FetchResolved(l)
  PROVE  OwnInv'
<1> DEFINE c == link[l].to
           m == link[l].box
           uids == NewUids(l)
<1>1. /\ link[l].st = "listed" /\ Settle(l) /\ wire' = Answered(c, l)
      /\ UNCHANGED <<supVars, rotation, mailboxCounts, mailboxUidValidity, opens, session,
                     server, baseline>>
      /\ \/ UNCHANGED <<mailboxUidWatermarks, reports>>
         \/ /\ uids # {}
            /\ mailboxUidWatermarks' = [mailboxUidWatermarks EXCEPT ![m] = Max(uids)]
            /\ reports' = [reports EXCEPT ![m] =
                             [u \in Uids |-> IF u \in uids THEN Min({2, @[u] + 1}) ELSE @[u]]]
  BY DEF FetchResolved
<1>2. c \in Clients /\ m \in Mailboxes
  BY <1>1 DEF OwnInv, LinksAim, Fetching
<1>3. uids \in SUBSET Uids
  BY DEF OwnInv, OwnTypeOK, LinkRecords, NewUids
<1> HIDE DEF uids, m, c
<1>4. mailboxUidWatermarks' \in [Mailboxes -> Int]
  <2>1. uids \in SUBSET Nat /\ (uids # {} => Max(uids) \in uids)
    BY <1>3, UidSets
  <2>2. ASSUME uids # {}
        PROVE  Max(uids) \in Int
    <3>1. Max(uids) \in Nat
      BY <2>1, <2>2
    <3> QED
      BY <3>1
  <2> QED
    BY <1>1, <1>2, <2>2 DEF OwnInv, OwnTypeOK
<1>5. reports' \in [Mailboxes -> [Uids -> 0..2]]
  <2>1. reports \in [Mailboxes -> [Uids -> 0..2]]
    BY DEF OwnInv, OwnTypeOK
  <2> DEFINE booked == [u \in Uids |-> IF u \in uids THEN Min({2, reports[m][u] + 1})
                                        ELSE reports[m][u]]
  <2>2. \A u \in Uids : reports[m][u] \in 0..2
    BY <1>2, <2>1
  <2>3. booked \in [Uids -> 0..2]
    BY <2>2, CountedReport
  <2>4. reports' = reports \/ reports' = [reports EXCEPT ![m] = booked]
    BY <1>1
  <2> QED
    BY <1>2, <2>1, <2>3, <2>4
<1>6. wire' \in [Clients -> Seq(Clients \cup Links)]
  BY <1>1, <1>2, WireType DEF OwnInv, OwnTypeOK, Answered
<1> QED
  BY <1>1, <1>4, <1>5, <1>6, SettleType DEF OwnInv, OwnTypeOK, OpensMailbox, supVars, threads

\* its rejection,
LEMMA RejectedTyped ==
  ASSUME SupTypeOK, OwnInv, NEW l \in Links, FetchRejected(l)
  PROVE  OwnInv'
<1> DEFINE c == link[l].to
<1>1. /\ Fetching(l)
      /\ UNCHANGED <<supVars, rotation, maps, opens, session, server, history>>
      /\ \/ Settle(l) /\ wire' = Answered(c, l)
         \/ /\ MayRetry(l)
            /\ link' = [link EXCEPT ![l].st = "fetching", ![l].got = {}, ![l].attempt = @ + 1]
            /\ wire' = Issued(Answered(c, l), c, l)
            /\ UNCHANGED <<pendingEnrichment, awaits>>
  BY DEF FetchRejected
<1>2. c \in Clients /\ link \in [Links -> LinkRecords]
  BY <1>1 DEF OwnInv, OwnTypeOK, LinksAim
<1>3. Answered(c, l) \in [Clients -> Seq(Clients \cup Links)]
  BY <1>2, WireType DEF OwnInv, OwnTypeOK, Answered
<1>4. Issued(Answered(c, l), c, l) \in [Clients -> Seq(Clients \cup Links)]
  BY <1>2, <1>3, WireType
<1>5. OpensMailbox'
  BY <1>1 DEF OwnInv, OpensMailbox, supVars, threads
<1>6. CASE Settle(l) /\ wire' = Answered(c, l)
  BY <1>1, <1>3, <1>5, <1>6, SettleType DEF OwnInv, OwnTypeOK
<1>7. CASE /\ MayRetry(l)
           /\ link' = [link EXCEPT ![l].st = "fetching", ![l].got = {}, ![l].attempt = @ + 1]
           /\ wire' = Issued(Answered(c, l), c, l)
           /\ UNCHANGED <<pendingEnrichment, awaits>>
  <2>1. link[l] \in LinkRecords /\ link' = [link EXCEPT ![l] = link'[l]]
        /\ link'[l] = [link[l] EXCEPT !.st = "fetching", !.got = {}, !.attempt = @ + 1]
    BY <1>2, <1>7
  <2>2. link[l].attempt \in 0..FetchAttempts /\ link[l].attempt + 1 \in 0..FetchAttempts
    BY <1>7, <2>1, WatcherAssumption DEF MayRetry, LinkRecords
  <2>3. link'[l] \in LinkRecords /\ link'[l].box = link[l].box /\ link'[l].to = link[l].to
    BY <2>1, <2>2 DEF LinkRecords
  <2>4. link' \in [Links -> LinkRecords]
    BY <1>2, <2>1, <2>3
  <2>5. LinksAim'
    BY <1>1, <1>2, <2>1, <2>3 DEF OwnInv, LinksAim, Fetching
  <2> QED
    BY <1>1, <1>4, <1>5, <1>7, <2>4, <2>5 DEF OwnInv, OwnTypeOK
<1> QED
  BY <1>1, <1>6, <1>7

\* and the server.
LEMMA ServerTyped ==
  ASSUME SupTypeOK, OwnInv, NEW m \in Mailboxes, Deliver(m) \/ Purge(m) \/ Rebuild(m)
  PROVE  OwnInv'
<1>1. UNCHANGED <<supVars, rotation, maps, enrichment, opens, wire, session, baseline>>
  BY DEF Deliver, Purge, Rebuild
<1>2. /\ mail \in [Mailboxes -> SUBSET Uids]
      /\ uidNext \in [Mailboxes -> 1..(MaxUid + 1)]
      /\ uidValidity \in [Mailboxes -> 0..MaxRebuilds]
      /\ reports \in [Mailboxes -> [Uids -> 0..2]]
      /\ MaxUid \in Nat /\ MaxRebuilds \in Nat
  BY WatcherAssumption DEF OwnInv, OwnTypeOK
<1>3. /\ mail' \in [Mailboxes -> SUBSET Uids]
      /\ uidNext' \in [Mailboxes -> 1..(MaxUid + 1)]
      /\ uidValidity' \in [Mailboxes -> 0..MaxRebuilds]
      /\ reports' \in [Mailboxes -> [Uids -> 0..2]]
  <2>1. CASE Deliver(m)
    <3>1. uidNext[m] \in Uids /\ uidNext[m] + 1 \in 1..(MaxUid + 1)
      BY <1>2, <2>1 DEF Deliver, Uids
    <3> QED
      BY <1>2, <2>1, <3>1 DEF Deliver
  <2>2. CASE Purge(m)
    BY <1>2, <2>2 DEF Purge
  <2>3. CASE Rebuild(m)
    <3>1. Cardinality(mail[m]) \in 0..MaxUid
      BY <1>2, UidSets
    <3>2. 1..Cardinality(mail[m]) \in SUBSET Uids /\ Cardinality(mail[m]) + 1 \in 1..(MaxUid + 1)
      BY <1>2, <3>1 DEF Uids
    <3>3. uidValidity[m] + 1 \in 0..MaxRebuilds
      BY <1>2, <2>3 DEF Rebuild
    <3>4. [u \in Uids |-> 0] \in [Uids -> 0..2]
      OBVIOUS
    <3> QED
      BY <1>2, <2>3, <3>2, <3>3, <3>4 DEF Rebuild
  <2> QED
    BY <2>1, <2>2, <2>3
<1> QED
  BY <1>1, <1>3 DEF OwnInv, OwnTypeOK, LinksAim, Fetching, OpensMailbox, supVars, threads

\* Every step keeps the types,
LEMMA OwnStep == ASSUME SupTypeOK, OwnInv, [Next]_vars PROVE OwnInv'
<1>1. CASE UNCHANGED vars
  BY <1>1 DEF OwnInv, OwnTypeOK, LinksAim, Fetching, OpensMailbox, supVars, threads
<1>2. CASE Callbacks
  BY <1>2, DrainedTyped, EmitTyped DEF Callbacks
<1>3. ASSUME NEW t \in Clients, Settlement(t)
      PROVE  OwnInv'
  BY <1>3, ForgetTyped, ConnectedTyped, OpenedTyped, ThreadTyped DEF Settlement
<1>4. CASE TimerExpires /\ UNCHANGED ownVars
  BY <1>4 DEF TimerExpires, OwnInv, OwnTypeOK, LinksAim, Fetching, OpensMailbox, threads
<1>5. CASE StopWatcher
  BY <1>5, StopTyped
<1>6. ASSUME NEW c \in Clients,
             \/ StartWatcher(c) \/ ReconnectTimerFires(c)
             \/ IdleResolved(c) \/ IdleRejected(c)
             \/ ConnectionEvent(c) \/ HandleExists(c) \/ HandleExpunge(c)
      PROVE  OwnInv'
  BY <1>6, StartTyped, ThreadTyped, ForgetTyped, ExistsTyped, ExpungeTyped
<1>7. ASSUME NEW l \in Links, FetchListed(l) \/ FetchResolved(l) \/ FetchRejected(l)
      PROVE  OwnInv'
  BY <1>7, ListedTyped, ResolvedTyped, RejectedTyped
<1>8. CASE Events
  BY <1>3, <1>4, <1>5, <1>6, <1>7, <1>8, ServerTyped DEF Events
<1> QED
  BY <1>1, <1>2, <1>8 DEF Next

\* which hold initially,
LEMMA OwnInit == ASSUME Init PROVE OwnInv
<1>1. FreeLink \in LinkRecords /\ FreeLink.st = "free"
  BY FreeLinkType
<1>2. <<>> \in Seq(Clients \cup Links)
  OBVIOUS
<1>3. 1 \in 1..(MaxUid + 1) /\ 0 \in 0..MaxRebuilds /\ 0 \in 0..Max(MailboxCounts)
  BY WatcherAssumption, MailboxRange
<1>4. AllUnknown \in [Mailboxes -> Int]
  BY DEF AllUnknown, Unknown
<1>5. OwnTypeOK
  BY <1>1, <1>2, <1>3, <1>4 DEF Init, OwnTypeOK
<1>6. OpensMailbox
  BY DEF Init, SupInit, OpensMailbox
<1>7. LinksAim
  BY <1>1 DEF Init, LinksAim, Fetching
<1> QED
  BY <1>5, <1>6, <1>7 DEF OwnInv

\* and so always.
LEMMA TypedInvariant == Spec => [](SupTypeOK /\ OwnInv)
<1>1. Init => SupTypeOK /\ OwnInv
  BY InitTypeOK, OwnInit DEF Init
<1>2. SupTypeOK /\ OwnInv /\ [Next]_vars => (SupTypeOK /\ OwnInv)'
  <2>1. [Next]_vars => [SupNext]_supVars
    BY NextIsSup
  <2> QED
    BY <2>1, TypeStep, OwnStep
<1> QED
  BY <1>1, <1>2, PTL DEF Spec

(* The state of the watcher keeps its types, with every kind of fault: an  *)
(* answer or event of an old client, or of a connection being logged out,  *)
(* never writes an undefined mailbox into the maps or the chain.           *)
THEOREM WatcherTyped == Spec => []TypeOK
<1>1. SupTypeOK /\ OwnInv => TypeOK
  BY DEF OwnInv, OwnTypeOK, TypeOK
<1> QED
  BY <1>1, TypedInvariant, PTL

-----------------------------------------------------------------------------
(* The message count.                                                      *)

\* A new connection has no mailbox selected.
Unselected == \A t \in Clients : pc[t] = "connecting" => selected[t] = 0

\* An open under way on the current client is for the active mailbox, and the client
\* selects nothing else meanwhile.
OpeningActive ==
  \A t \in Clients :
    pc[t] \in {"opening", "reopening"} /\ client = t => activeMailbox = opens[t]

\* Every mailboxOpen result says how many messages there are.
CountsGiven == "noExists" \notin Faults

\* The count mirrors the session, inductively.
MirrorInv == Unselected /\ OpeningActive /\ CountMirrorsSession

\* A thread past its open works on the client it made.
LEMMA SettledIsClient ==
  ASSUME SerialInv, NEW t \in Clients, Settled(t)
  PROVE  client = t /\ on[t] = t /\ started
BY DEF SerialInv, OwnWork, Settled, StillCurrent

\* Without a client there is nothing to mirror.
LEMMA NoClientMirrors ==
  ASSUME SerialInv, SerialInv', client' = NoClient, Unselected'
  PROVE  MirrorInv'
<1>1. \A t \in Clients : t # NoClient
  BY SupervisionAssumption
<1>2. OpeningActive'
  BY <1>1 DEF OpeningActive
<1>3. CountMirrorsSession'
  BY <1>1 DEF CountMirrorsSession, Settled, StillCurrent, SerialInv, OwnWork
<1> QED
  BY <1>2, <1>3 DEF MirrorInv

\* Moving a thread and losing a connection change no count.
LEMMA SameMirrors ==
  ASSUME SerialInv, SerialInv', MirrorInv,
         client' = client, started' => started,
         UNCHANGED <<activeMailbox, mailboxCounts, opens, session>>,
         \A t \in Clients : \/ pc'[t] = pc[t]
                            \/ pc'[t] \in {"free", "failing", "stopping"}
                            \/ pc[t] \in {"idling", "draining"} /\ pc'[t] \in {"idling", "draining"}
  PROVE  MirrorInv'
<1>1. Unselected'
  BY DEF MirrorInv, Unselected
<1>2. OpeningActive'
  BY DEF MirrorInv, OpeningActive
<1>3. ASSUME NEW t \in Clients, Settled(t)'
      PROVE  Settled(t)
  BY <1>3 DEF Settled, StillCurrent, SerialInv, OwnWork
<1>4. CountMirrorsSession'
  BY <1>3 DEF MirrorInv, CountMirrorsSession
<1> QED
  BY <1>1, <1>2, <1>4 DEF MirrorInv

\* Each handler keeps the mirror: those that forget the mailboxes,
LEMMA ForgetMirrors ==
  ASSUME Serial, SerialInv, SerialInv', OwnInv, MirrorInv, NEW t \in Clients,
         \/ ConnectedAfterStop(t) \/ ReconnectFailed(t)
         \/ NextOpenRejected(t) \/ IdleRejected(t) \/ ConnectionEvent(t)
  PROVE  MirrorInv'
<1>1. selected' = selected
  BY DEF ConnectedAfterStop, ReconnectFailed, NextOpenRejected, IdleRejected, ConnectionEvent
<1>2. pc' = pc \/ \E where \in {"stopping", "free"} : pc' = [pc EXCEPT ![t] = where]
  BY DEF ConnectedAfterStop, ReconnectFailed, NextOpenRejected, IdleRejected, ConnectionEvent,
         ConnectAfterStop, HandleReconnectFailure, ReopenFails, IdleFails,
         HandleError, HandleClose, ClientEvent, threads
<1>3. \A s \in Clients : pc'[s] = pc[s] \/ pc'[s] \in {"free", "stopping"}
  BY <1>2 DEF SerialInv, SupTypeOK
<1>4. Unselected'
  BY <1>1, <1>3 DEF MirrorInv, Unselected
<1>5. \/ client' = NoClient
      \/ /\ UNCHANGED <<client, activeMailbox, mailboxCounts, opens, session>>
         /\ started' = started
  BY DEF ConnectedAfterStop, ReconnectFailed, NextOpenRejected, IdleRejected, ConnectionEvent,
         ConnectAfterStop, StopNow, HandleReconnectFailure, ReopenFails, IdleFails,
         HandleError, HandleClose, ClientEvent, HandleConnectionDrop, ReleaseClient
<1> QED
  BY <1>3, <1>4, <1>5, NoClientMirrors, SameMirrors

\* start() and the timer,
LEMMA StartMirrors ==
  ASSUME Serial, SerialInv, SerialInv', OwnInv, MirrorInv, NEW c \in Clients,
         StartWatcher(c) \/ ReconnectTimerFires(c)
  PROVE  MirrorInv'
<1>1. client = NoClient
  <2>1. CASE StartWatcher(c)
    <3>1. starts = 0
      BY <2>1, SupervisionAssumption DEF StartWatcher, Start, Serial, SerialInv, SupTypeOK
    <3> QED
      BY <3>1 DEF SerialInv, Untouched
  <2>2. CASE ReconnectTimerFires(c)
    BY <2>2 DEF ReconnectTimerFires, TimerFires, SerialInv, NoTimerWithClient
  <2> QED
    BY <2>1, <2>2
<1>2. /\ client' = client /\ pc' = [pc EXCEPT ![c] = "connecting"]
      /\ selected' = [selected EXCEPT ![c] = 0]
  BY DEF StartWatcher, ReconnectTimerFires, Start, TimerFires, ConnectAndWatch, FreshClient
<1>3. Unselected'
  BY <1>2 DEF MirrorInv, Unselected, SerialInv, SupTypeOK, OwnInv, OwnTypeOK
<1> QED
  BY <1>1, <1>2, <1>3, NoClientMirrors

\* the first mailboxOpen,
LEMMA ConnectedMirrors ==
  ASSUME Serial, SerialInv, SerialInv', OwnInv, MirrorInv, NEW c \in Clients,
         ConnectedOpensFirst(c)
  PROVE  MirrorInv'
<1>1. /\ client' = c /\ pc' = [pc EXCEPT ![c] = "opening"]
      /\ activeMailbox' = 1 /\ opens' = [opens EXCEPT ![c] = 1] /\ selected' = selected
  BY DEF ConnectedOpensFirst, ConnectThenOpen, OpenActiveMailbox
<1>2. pc'[c] = "opening" /\ opens'[c] = 1 /\ \A t \in Clients : t # c => pc'[t] = pc[t]
  BY <1>1 DEF SerialInv, SupTypeOK, OwnInv, OwnTypeOK
<1>3. Unselected'
  BY <1>1, <1>2 DEF MirrorInv, Unselected
<1>4. OpeningActive'
  BY <1>1, <1>2 DEF OpeningActive
<1>5. CountMirrorsSession'
  BY <1>1, <1>2 DEF CountMirrorsSession, Settled, StillCurrent, SerialInv, OwnWork
<1> QED
  BY <1>3, <1>4, <1>5 DEF MirrorInv

\* the next one,
LEMMA DrainedMirrors ==
  ASSUME Serial, SerialInv, SerialInv', OwnInv, MirrorInv, NEW t \in Clients,
         EnrichmentDrained(t)
  PROVE  MirrorInv'
<1>1. /\ client' = client /\ started' = started
      /\ UNCHANGED <<mailboxCounts, session>> /\ pc[t] = "draining"
  BY DEF EnrichmentDrained, DrainedStale, DrainedIdleAgain, DrainedReopen, DrainDue
<1>2. CASE /\ DrainedStale(t) \/ DrainedIdleAgain(t)
           /\ UNCHANGED <<rotation, opens, wire>>
  <2>1. \E where \in {"free", "idling"} : pc' = [pc EXCEPT ![t] = where]
    BY <1>2 DEF DrainedStale, DrainedIdleAgain, BeginIdle
  <2>2. \A s \in Clients : pc'[s] = pc[s] \/ pc'[s] = "free" \/ (s = t /\ pc'[s] = "idling")
    BY <2>1 DEF SerialInv, SupTypeOK
  <2> QED
    BY <1>1, <1>2, <2>2, SameMirrors
<1>3. CASE DrainedReopen(t) /\ OpenActiveMailbox(t, on[t], NextIndex)
  <2>1. /\ started /\ client = t /\ pc' = [pc EXCEPT ![t] = "reopening"]
        /\ activeMailbox' = NextIndex /\ opens' = [opens EXCEPT ![t] = NextIndex]
    BY <1>3 DEF DrainedReopen, StillCurrent, SerialInv, OwnWork, OpenActiveMailbox
  <2>2. pc'[t] = "reopening" /\ opens'[t] = NextIndex /\ \A s \in Clients : s # t => pc'[s] = pc[s]
    BY <2>1 DEF SerialInv, SupTypeOK, OwnInv, OwnTypeOK
  <2>3. Unselected'
    BY <1>1, <2>2 DEF MirrorInv, Unselected
  <2>4. OpeningActive'
    BY <1>1, <2>1, <2>2 DEF OpeningActive
  <2>5. CountMirrorsSession'
    BY <1>1, <2>1, <2>2 DEF CountMirrorsSession, Settled, StillCurrent, SerialInv, OwnWork
  <2> QED
    BY <2>3, <2>4, <2>5 DEF MirrorInv
<1> QED
  BY <1>2, <1>3 DEF EnrichmentDrained

\* an open that resolves, which sets the count,
LEMMA OpenedMirrors ==
  ASSUME Serial, CountsGiven, SerialInv, SerialInv', OwnInv, MirrorInv, NEW t \in Clients,
         FirstOpened(t) \/ NextOpened(t)
  PROVE  MirrorInv'
<1> DEFINE m == opens[t]
<1>1. /\ pc[t] \in {"opening", "reopening"} /\ BeginIdle(t) /\ client' = client
      /\ started' = started /\ activeMailbox' = activeMailbox /\ opens' = opens
      /\ MailboxOpened(t)
  BY DEF FirstOpened, OpenOk, NextOpened, ReopenOk
<1>2. on[t] = t /\ client \in {t, NoClient} /\ m \in Mailboxes
  BY <1>1 DEF SerialInv, OwnWork, Attempts, OwnInv, OpensMailbox
<1>3. /\ selected' = [selected EXCEPT ![t] = m] /\ view' = [view EXCEPT ![t] = mail[m]]
      /\ mailboxCounts' = [mailboxCounts EXCEPT ![m] = Cardinality(mail[m])]
  BY <1>1, <1>2 DEF MailboxOpened, CountOpened, CountsGiven
<1>4. /\ selected'[t] = m /\ view'[t] = mail[m] /\ mailboxCounts'[m] = Cardinality(mail[m])
      /\ \A s \in Clients : s # t => selected'[s] = selected[s]
  BY <1>2, <1>3 DEF OwnInv, OwnTypeOK
<1>5. pc'[t] \in {"idling", "free"} /\ \A s \in Clients : s # t => pc'[s] = pc[s]
  BY <1>1 DEF BeginIdle, SerialInv, SupTypeOK
<1>6. Unselected'
  BY <1>4, <1>5 DEF MirrorInv, Unselected
<1>7. OpeningActive'
  BY <1>1, <1>5 DEF MirrorInv, OpeningActive
<1>8. CountMirrorsSession'
  <2> SUFFICES ASSUME NEW s \in Clients, Settled(s)'
               PROVE  /\ activeMailbox' = selected'[client']
                      /\ mailboxCounts'[activeMailbox'] = Cardinality(view'[client'])
    BY DEF CountMirrorsSession
  <2>1. client = s /\ s # NoClient
    BY <1>1, SupervisionAssumption DEF Settled, StillCurrent, SerialInv, OwnWork
  <2>2. client = t /\ client' = t
    BY <1>1, <1>2, <2>1
  <2>3. activeMailbox = m
    BY <1>1, <2>2 DEF MirrorInv, OpeningActive
  <2> QED
    BY <1>1, <1>4, <2>2, <2>3
<1> QED
  BY <1>6, <1>7, <1>8 DEF MirrorInv

\* (events reach the watcher from its current client only)
LEMMA AnnouncesToClient ==
  ASSUME SerialInv, MirrorInv, NEW c \in attached, c \in Clients, selected[c] # 0
  PROVE  c = client
BY DEF SerialInv, NoForgottenListeners, Connecting, MirrorInv, Unselected

\* EXISTS, which sets it,
LEMMA ExistsMirrors ==
  ASSUME Serial, SerialInv, SerialInv', OwnInv, MirrorInv, NEW c \in Clients, HandleExists(c)
  PROVE  MirrorInv'
<1>1. /\ c \in attached /\ selected[c] # 0
      /\ view' = [view EXCEPT ![c] = @ \cup mail[selected[c]]]
      /\ UNCHANGED <<supVars, rotation, opens, selected>>
      /\ activeMailbox # 0 =>
           mailboxCounts' = [mailboxCounts EXCEPT ![activeMailbox] = Cardinality(view'[c])]
  BY DEF HandleExists
<1>2. c = client
  BY <1>1, AnnouncesToClient
<1>3. Unselected' /\ OpeningActive'
  BY <1>1 DEF MirrorInv, Unselected, OpeningActive, supVars, threads
<1>4. CountMirrorsSession'
  <2> SUFFICES ASSUME NEW t \in Clients, Settled(t)
               PROVE  /\ activeMailbox = selected[client]
                      /\ mailboxCounts'[activeMailbox] = Cardinality(view'[client])
    BY <1>1 DEF CountMirrorsSession, Settled, StillCurrent, supVars, threads
  <2>1. activeMailbox = selected[client]
    BY DEF MirrorInv, CountMirrorsSession
  <2>2. activeMailbox # 0 /\ activeMailbox \in Mailboxes
    BY <1>1, <1>2, <2>1, MailboxRange DEF OwnInv, OwnTypeOK
  <2> QED
    BY <1>1, <1>2, <2>1, <2>2 DEF OwnInv, OwnTypeOK
<1> QED
  BY <1>3, <1>4 DEF MirrorInv

\* EXPUNGE, which lowers it,
LEMMA ExpungeMirrors ==
  ASSUME Serial, SerialInv, SerialInv', OwnInv, MirrorInv, NEW c \in Clients, HandleExpunge(c)
  PROVE  MirrorInv'
<1>1. /\ c \in attached /\ selected[c] # 0 /\ mailboxCounts' = CountExpunged
      /\ UNCHANGED <<supVars, rotation, opens, selected>>
  BY DEF HandleExpunge
<1>2. PICK u \in view[c] \ mail[selected[c]] : view' = [view EXCEPT ![c] = @ \ {u}]
  BY DEF HandleExpunge
<1>3. c = client
  BY <1>1, AnnouncesToClient
<1>4. Unselected' /\ OpeningActive'
  BY <1>1 DEF MirrorInv, Unselected, OpeningActive, supVars, threads
<1>5. CountMirrorsSession'
  <2> SUFFICES ASSUME NEW t \in Clients, Settled(t)
               PROVE  /\ activeMailbox = selected[client]
                      /\ mailboxCounts'[activeMailbox] = Cardinality(view'[client])
    BY <1>1 DEF CountMirrorsSession, Settled, StillCurrent, supVars, threads
  <2>1. activeMailbox = selected[client] /\ mailboxCounts[activeMailbox] = Cardinality(view[client])
    BY DEF MirrorInv, CountMirrorsSession
  <2>2. activeMailbox \in Mailboxes
    BY <1>1, <1>3, <2>1, MailboxRange DEF OwnInv, OwnTypeOK
  <2>3. view[c] \in SUBSET Uids /\ view'[c] = view[c] \ {u} /\ u \in view[c]
    BY <1>2 DEF OwnInv, OwnTypeOK
  <2>4. IsFiniteSet(view[c]) /\ Cardinality(view[c]) \in Nat /\ Cardinality(view[c]) # 0
    BY <2>3, UidSets, FS_CardinalityType, FS_EmptySet
  <2>5. Cardinality(view'[c]) = Cardinality(view[c]) - 1
    <3>1. Cardinality(view[c] \ {u}) = Cardinality(view[c]) - 1
      BY <2>3, <2>4, FS_RemoveElement
    <3> QED
      BY <2>3, <3>1
  <2>6. mailboxCounts'[activeMailbox] = mailboxCounts[activeMailbox] - 1
    BY <1>1, <1>3, <2>1, <2>2, <2>4 DEF CountExpunged
  <2> QED
    BY <1>3, <2>1, <2>5, <2>6
<1> QED
  BY <1>4, <1>5 DEF MirrorInv

\* and the others.
LEMMA ThreadMirrors ==
  ASSUME Serial, SerialInv, SerialInv', OwnInv, MirrorInv, NEW t \in Clients,
         AttemptRejected(t) \/ SupervisionOnly(t) \/ IdleResolved(t)
  PROVE  MirrorInv'
<1>1. UNCHANGED <<activeMailbox, mailboxCounts, opens, session>>
  BY DEF AttemptRejected, SupervisionOnly, IdleResolved
<1>2. CASE ConnectNothingToWatch(t)
  <2>1. client' = t /\ pc' = [pc EXCEPT ![t] = "free"]
    BY <1>2 DEF ConnectNothingToWatch
  <2>2. pc'[t] = "free" /\ \A s \in Clients : s # t => pc'[s] = pc[s]
    BY <2>1 DEF SerialInv, SupTypeOK
  <2>3. Unselected'
    BY <1>1, <2>2 DEF MirrorInv, Unselected
  <2>4. OpeningActive'
    BY <2>1, <2>2 DEF OpeningActive
  <2>5. CountMirrorsSession'
    BY <2>1, <2>2 DEF CountMirrorsSession, Settled, StillCurrent, SerialInv, OwnWork
  <2> QED
    BY <2>3, <2>4, <2>5 DEF MirrorInv
<1>3. CASE ~ConnectNothingToWatch(t)
  <2>1. client' = client /\ (started' => started)
    BY <1>3 DEF AttemptRejected, AttemptFails, SupervisionOnly, StartRejects, StopUnwinds,
           LogoutCompletes, ErrorWithoutListener, IdleResolved, IdleEnds
  <2>2. \/ pc' = pc
        \/ \E where \in {"free", "failing"} : pc' = [pc EXCEPT ![t] = where]
        \/ pc[t] = "idling" /\ pc' = [pc EXCEPT ![t] = "draining"]
    BY <1>3 DEF AttemptRejected, AttemptFails, SupervisionOnly, StartRejects, StopUnwinds,
           LogoutCompletes, ErrorWithoutListener, IdleResolved, IdleEnds, threads
  <2>3. \A s \in Clients : \/ pc'[s] = pc[s]
                           \/ pc'[s] \in {"free", "failing"}
                           \/ pc[s] = "idling" /\ pc'[s] = "draining"
    BY <2>2 DEF SerialInv, SupTypeOK
  <2> QED
    BY <1>1, <2>1, <2>3, SameMirrors
<1> QED
  BY <1>2, <1>3

\* Every step keeps the mirror,
LEMMA MirrorStep ==
  ASSUME Serial, CountsGiven, SerialInv, SerialInv', OwnInv, MirrorInv, [Next]_vars
  PROVE  MirrorInv'
<1>1. ASSUME UNCHANGED <<supVars, activeMailbox, mailboxCounts, opens, session>>
      PROVE  MirrorInv'
  BY <1>1, SameMirrors DEF supVars, threads
<1>2. CASE UNCHANGED vars
  BY <1>1, <1>2
<1>3. ASSUME NEW l \in Links,
             EmitNewMail(l) \/ FetchListed(l) \/ FetchResolved(l) \/ FetchRejected(l)
      PROVE  MirrorInv'
  BY <1>1, <1>3 DEF EmitNewMail, FetchListed, FetchResolved, FetchRejected
<1>4. ASSUME NEW m \in Mailboxes, Deliver(m) \/ Purge(m) \/ Rebuild(m)
      PROVE  MirrorInv'
  BY <1>1, <1>4 DEF Deliver, Purge, Rebuild
<1>5. CASE StopWatcher
  <2>1. client' = NoClient /\ pc' = pc /\ selected' = selected
    BY <1>5 DEF StopWatcher, Stop, StopNow, threads
  <2> QED
    BY <2>1, NoClientMirrors DEF MirrorInv, Unselected
<1>6. CASE TimerExpires /\ UNCHANGED ownVars
  BY <1>6, SameMirrors DEF TimerExpires, threads
<1>7. ASSUME NEW t \in Clients, Settlement(t)
      PROVE  MirrorInv'
  BY <1>7, ForgetMirrors, ConnectedMirrors, OpenedMirrors, ThreadMirrors DEF Settlement
<1>8. ASSUME NEW c \in Clients,
             \/ StartWatcher(c) \/ ReconnectTimerFires(c)
             \/ IdleResolved(c) \/ IdleRejected(c)
             \/ ConnectionEvent(c) \/ HandleExists(c) \/ HandleExpunge(c)
      PROVE  MirrorInv'
  BY <1>8, StartMirrors, ThreadMirrors, ForgetMirrors, ExistsMirrors, ExpungeMirrors
<1>9. CASE Callbacks
  BY <1>3, <1>9, DrainedMirrors DEF Callbacks
<1>10. CASE Events
  BY <1>3, <1>4, <1>5, <1>6, <1>7, <1>8, <1>10 DEF Events
<1> QED
  BY <1>2, <1>9, <1>10 DEF Next

\* which holds initially,
LEMMA MirrorInit == ASSUME Init PROVE MirrorInv
BY DEF Init, SupInit, MirrorInv, Unselected, OpeningActive, CountMirrorsSession, Settled

\* and so always, with serial attempts and a count in every result.
LEMMA MirrorInvariant == ASSUME Serial, CountsGiven PROVE Spec => []MirrorInv
<1>1. SupSpec => []SerialInv
  BY SerialInvariant
<1>2. SerialInv /\ SerialInv' /\ OwnInv /\ MirrorInv /\ [Next]_vars => MirrorInv'
  BY MirrorStep
<1>3. Init => MirrorInv
  BY MirrorInit
<1> QED
  BY <1>1, <1>2, <1>3, WatcherSupervised, TypedInvariant, PTL DEF Spec

(* With serial attempts and a server that gives EXISTS for every SELECT,    *)
(* for any number of mailboxes: once a mailbox is open, the count that     *)
(* decides whether an EXISTS is news equals the number                     *)
(* of messages the session has announced. Neither an EXISTS during a SELECT *)
(* nor an EXPUNGE, a late answer or a reconnect leaves it too high.        *)
THEOREM CountsMirrored == ASSUME Serial, CountsGiven PROVE Spec => []CountMirrorsSession
<1>1. MirrorInv => CountMirrorsSession
  BY DEF MirrorInv
<1> QED
  BY <1>1, MirrorInvariant, PTL

-----------------------------------------------------------------------------
(* The chain of enrichments.                                               *)

\* Call l of emitNewMail has not settled.
Busy(l) == link[l].st # "free"

\* No enrichment lasts into the next attempt to connect.
LinksWait ==
  \A l \in Links : Busy(l) => starts > 0 /\ \A t \in Clients : pc[t] # "connecting"

\* Events are booked on a mailbox only while there is a client.
ActiveHasClient == activeMailbox # 0 => client # NoClient

\* The unsettled calls form one chain: no two wait for the same one, each waits for one
\* that is unsettled, and only the head fetches.
ChainOrder ==
  /\ \A k, l \in Links : Busy(k) /\ Busy(l) /\ link[k].prev = link[l].prev => k = l
  /\ \A l \in Links : Busy(l) /\ link[l].prev # NoLink => Busy(link[l].prev)
  /\ \A l \in Links : Fetching(l) => link[l].prev = NoLink

\* pendingEnrichment is the end of the chain; while there is a client it is `undefined`
\* only when no call is the head.
ChainEnd ==
  /\ pendingEnrichment # NoLink =>
       /\ Busy(pendingEnrichment)
       /\ \A l \in Links : Busy(l) => link[l].prev # pendingEnrichment
  /\ pendingEnrichment = NoLink /\ client # NoClient =>
       \A l \in Links : Busy(l) => link[l].prev # NoLink

\* The chain, inductively.
Chain == LinksWait /\ ActiveHasClient /\ ChainOrder /\ ChainEnd

\* Steps that leave the calls alone, or forget pendingEnrichment with the client.
LEMMA SameChain ==
  ASSUME SerialInv, SerialInv', Chain, link' = link, starts' = starts,
         \A t \in Clients : pc'[t] = "connecting" => pc[t] = "connecting",
         \/ UNCHANGED <<client, activeMailbox, pendingEnrichment>>
         \/ client' = NoClient /\ activeMailbox' = 0 /\ pendingEnrichment' = NoLink
  PROVE  Chain'
<1>1. LinksWait'
  BY DEF Chain, LinksWait, Busy
<1>2. ActiveHasClient'
  BY DEF Chain, ActiveHasClient
<1>3. ChainOrder'
  BY DEF Chain, ChainOrder, Busy, Fetching
<1>4. ChainEnd'
  BY DEF Chain, ChainEnd, Busy
<1> QED
  BY <1>1, <1>2, <1>3, <1>4 DEF Chain

\* Steps while no call is unsettled.
LEMMA NoneBusy ==
  ASSUME OwnInv, Chain, \A l \in Links : ~Busy(l), link' = link,
         pendingEnrichment' = pendingEnrichment, ActiveHasClient'
  PROVE  Chain'
<1>1. pendingEnrichment = NoLink
  BY DEF Chain, ChainEnd, OwnInv, OwnTypeOK
<1>2. \A l \in Links : ~Busy(l)' /\ ~Fetching(l)'
  BY DEF Busy, Fetching
<1>3. LinksWait' /\ ChainOrder' /\ ChainEnd'
  BY <1>1, <1>2 DEF LinksWait, ChainOrder, ChainEnd
<1> QED
  BY <1>3 DEF Chain

\* Settling the head makes the next call the head.
LEMMA SettleChain ==
  ASSUME SerialInv, OwnInv, Chain, NEW l \in Links, Busy(l), link[l].prev = NoLink, Settle(l),
         UNCHANGED <<supVars, activeMailbox>>
  PROVE  Chain'
<1>1. /\ pendingEnrichment' = IF pendingEnrichment = l THEN NoLink ELSE pendingEnrichment
      /\ ~Busy(l)' /\ ~Fetching(l)'
      /\ \A k \in Links : k # l =>
           /\ Busy(k)' <=> Busy(k)
           /\ Fetching(k)' <=> Fetching(k)
           /\ link'[k].prev = IF link[k].prev = l THEN NoLink ELSE link[k].prev
  <2>1. link'[l].st = "free"
    BY SettleType
  <2>2. \A k \in Links : k # l =>
           /\ link'[k].st = link[k].st
           /\ link'[k].prev = IF link[k].prev = l THEN NoLink ELSE link[k].prev
    BY SettleType
  <2>3. pendingEnrichment' = IF pendingEnrichment = l THEN NoLink ELSE pendingEnrichment
    BY DEF Settle
  <2> QED
    BY <2>1, <2>2, <2>3 DEF Busy, Fetching
<1>2. \A k \in Links : Busy(k) /\ link[k].prev = NoLink => k = l
  BY DEF Chain, ChainOrder
<1>3. LinksWait' /\ ActiveHasClient'
  BY <1>1 DEF Chain, LinksWait, ActiveHasClient, supVars, threads
<1>4. \A j, k \in Links : Busy(j)' /\ Busy(k)' /\ link'[j].prev = link'[k].prev => j = k
  BY <1>1, <1>2 DEF Chain, ChainOrder
<1>5. \A k \in Links : Busy(k)' /\ link'[k].prev # NoLink => Busy(link[k].prev)'
  <2> SUFFICES ASSUME NEW k \in Links, Busy(k)', link'[k].prev # NoLink
               PROVE  Busy(link[k].prev)'
    OBVIOUS
  <2>1. k # l /\ Busy(k) /\ link'[k].prev = link[k].prev /\ link[k].prev # l
    BY <1>1
  <2>2. Busy(link[k].prev) /\ link[k].prev \in Links
    BY <2>1 DEF Chain, ChainOrder, OwnInv, OwnTypeOK, LinkRecords
  <2> QED
    BY <1>1, <2>1, <2>2 DEF Busy
<1>6. \A k \in Links : Fetching(k)' => link'[k].prev = NoLink
  BY <1>1 DEF Chain, ChainOrder
<1>7. ChainOrder'
  BY <1>4, <1>5, <1>6 DEF ChainOrder
<1>8. ChainEnd'
  <2>1. CASE pendingEnrichment = l
    <3>1. \A k \in Links : Busy(k) => link[k].prev # l
      BY <2>1, WatcherAssumption DEF Chain, ChainEnd
    <3> QED
      BY <1>1, <1>2, <2>1, <3>1 DEF ChainEnd
  <2>2. CASE pendingEnrichment # l /\ pendingEnrichment # NoLink
    <3>1. pendingEnrichment \in Links /\ pendingEnrichment' = pendingEnrichment
      BY <1>1, <2>2 DEF OwnInv, OwnTypeOK
    <3>2. Busy(pendingEnrichment) /\ \A k \in Links : Busy(k) => link[k].prev # pendingEnrichment
      BY <2>2 DEF Chain, ChainEnd
    <3> QED
      BY <1>1, <2>2, <3>1, <3>2 DEF ChainEnd
  <2>3. CASE pendingEnrichment # l /\ pendingEnrichment = NoLink
    <3>1. client = NoClient
      BY <2>3 DEF Chain, ChainEnd
    <3> QED
      BY <1>1, <2>3, <3>1 DEF ChainEnd, supVars
  <2> QED
    BY <2>1, <2>2, <2>3
<1> QED
  BY <1>3, <1>7, <1>8 DEF Chain

\* Steps of the head keep its place.
LEMMA HeadChain ==
  ASSUME Chain, NEW l \in Links, Busy(l), link[l].prev = NoLink, Busy(l)',
         \A k \in Links : link'[k].prev = link[k].prev,
         \A k \in Links : k # l => link'[k].st = link[k].st,
         UNCHANGED <<supVars, activeMailbox, pendingEnrichment>>, OwnInv
  PROVE  Chain'
<1>1. \A k \in Links : Busy(k)' <=> Busy(k)
  BY DEF Busy
<1>2. \A k \in Links : k # l => (Fetching(k)' <=> Fetching(k))
  BY DEF Fetching
<1>3. LinksWait' /\ ActiveHasClient'
  BY <1>1 DEF Chain, LinksWait, ActiveHasClient, supVars, threads
<1>4. ChainOrder'
  <2>1. \A k \in Links : Busy(k) /\ link[k].prev # NoLink => link[k].prev \in Links
    BY DEF OwnInv, OwnTypeOK, LinkRecords
  <2> QED
    BY <1>1, <1>2, <2>1 DEF Chain, ChainOrder
<1>5. ChainEnd'
  <2>1. pendingEnrichment # NoLink => pendingEnrichment \in Links
    BY DEF OwnInv, OwnTypeOK
  <2> QED
    BY <1>1, <2>1 DEF Chain, ChainEnd, supVars
<1> QED
  BY <1>3, <1>4, <1>5 DEF Chain

\* An EXISTS extends the chain at its end.
LEMMA GrowChain ==
  ASSUME SerialInv, OwnInv, Chain, activeMailbox \in Mailboxes, ChainEnrichment(activeMailbox),
         UNCHANGED <<supVars, activeMailbox>>
  PROVE  Chain'
<1>1. PICK l \in Links :
        /\ link[l].st = "free"
        /\ link' = [link EXCEPT ![l] = NewLink(activeMailbox, pendingEnrichment)]
        /\ pendingEnrichment' = l
  BY DEF ChainEnrichment
<1>2. l # NoLink
  BY WatcherAssumption
<1>3. /\ pendingEnrichment \in Links \cup {NoLink} /\ link \in [Links -> LinkRecords]
  BY DEF OwnInv, OwnTypeOK
<1>4. /\ link'[l].st = "waiting" /\ link'[l].prev = pendingEnrichment
      /\ \A k \in Links : k # l => link'[k] = link[k]
  BY <1>1, <1>3, NewLinkType
<1>5. /\ ~Busy(l) /\ Busy(l)' /\ ~Fetching(l)'
      /\ \A k \in Links : k # l => (Busy(k)' <=> Busy(k)) /\ (Fetching(k)' <=> Fetching(k))
  BY <1>1, <1>4 DEF Busy, Fetching
<1>6. client # NoClient
  BY MailboxRange DEF Chain, ActiveHasClient
<1>7. \A k \in Links : Busy(k) => link[k].prev # pendingEnrichment
  BY <1>6 DEF Chain, ChainEnd
<1>8. \A k \in Links : Busy(k) => link[k].prev # l
  BY <1>2, <1>5 DEF Chain, ChainOrder
<1>9. pendingEnrichment # NoLink => Busy(pendingEnrichment) /\ pendingEnrichment # l
  BY <1>5 DEF Chain, ChainEnd
<1>10. LinksWait'
  <2>1. starts > 0
    BY <1>6, SupervisionAssumption DEF SerialInv, Untouched, SupTypeOK
  <2>2. \A t \in Clients : pc[t] # "connecting"
    BY <1>6 DEF SerialInv, Attempts
  <2> QED
    BY <2>1, <2>2 DEF LinksWait, supVars, threads
<1>11. ActiveHasClient'
  BY DEF Chain, ActiveHasClient, supVars
<1>12. \A j, k \in Links : Busy(j)' /\ Busy(k)' /\ link'[j].prev = link'[k].prev => j = k
  BY <1>4, <1>5, <1>7 DEF Chain, ChainOrder
<1>13. \A k \in Links : Busy(k)' /\ link'[k].prev # NoLink => Busy(link[k].prev)'
  <2> SUFFICES ASSUME NEW k \in Links, Busy(k)', link'[k].prev # NoLink
               PROVE  Busy(link[k].prev)'
    OBVIOUS
  <2>1. CASE k = l
    BY <1>3, <1>4, <1>5, <1>9, <2>1 DEF Busy
  <2>2. CASE k # l
    <3>1. Busy(k) /\ link[k].prev # NoLink /\ link'[k].prev = link[k].prev
      BY <1>4, <1>5, <2>2
    <3>2. Busy(link[k].prev) /\ link[k].prev \in Links /\ link[k].prev # l
      BY <1>3, <1>8, <3>1 DEF Chain, ChainOrder, LinkRecords
    <3> QED
      BY <1>5, <3>1, <3>2 DEF Busy
  <2> QED
    BY <2>1, <2>2
<1>14. \A k \in Links : Fetching(k)' => link'[k].prev = NoLink
  BY <1>4, <1>5 DEF Chain, ChainOrder
<1>15. ChainOrder'
  BY <1>12, <1>13, <1>14 DEF ChainOrder
<1>16. ChainEnd'
  <2>1. \A k \in Links : Busy(k)' => link'[k].prev # l
    BY <1>2, <1>4, <1>5, <1>8, <1>9
  <2> QED
    BY <1>1, <1>2, <1>5, <2>1 DEF ChainEnd
<1> QED
  BY <1>10, <1>11, <1>15, <1>16 DEF Chain

\* What the handlers do to the calls: emitNewMail settles or starts a fetch from the
\* watermark,
LEMMA EmitEffect ==
  ASSUME OwnInv, NEW l \in Links, EmitNewMail(l)
  PROVE  /\ Busy(l) /\ ~Fetching(l) /\ link[l].prev = NoLink /\ link[l].box \in Mailboxes
         /\ UNCHANGED <<supVars, rotation, maps, opens, session, server, history>>
         /\ \/ Settle(l)
            \/ /\ client # NoClient /\ mailboxUidWatermarks[link[l].box] # Unknown
               /\ link'[l].st = "fetching" /\ link'[l].to = client
               /\ link'[l].box = link[l].box /\ link'[l].prev = link[l].prev
               /\ link'[l].above = mailboxUidWatermarks[link[l].box]
               /\ \A k \in Links : k # l => link'[k] = link[k]
               /\ UNCHANGED pendingEnrichment
<1> DEFINE m == link[l].box
           f == [link[l] EXCEPT !.st = "fetching", !.to = client, !.attempt = 1,
                                !.above = mailboxUidWatermarks[m]]
<1>1. /\ link[l].st = "waiting" /\ link[l].prev = NoLink
      /\ UNCHANGED <<supVars, rotation, maps, opens, session, server, history>>
      /\ \/ Settle(l)
         \/ /\ client # NoClient /\ mailboxUidWatermarks[m] # Unknown
            /\ link' = [link EXCEPT ![l] = f]
            /\ UNCHANGED pendingEnrichment
  BY DEF EmitNewMail, LinkDue
<1>2. link \in [Links -> LinkRecords] /\ link[l] \in LinkRecords
  BY DEF OwnInv, OwnTypeOK
<1>3. Busy(l) /\ ~Fetching(l) /\ m \in Mailboxes
  BY <1>1 DEF Busy, Fetching, OwnInv, LinksAim
<1>4. CASE Settle(l)
  BY <1>1, <1>3, <1>4
<1>5. CASE /\ client # NoClient /\ mailboxUidWatermarks[m] # Unknown
           /\ link' = [link EXCEPT ![l] = f]
           /\ UNCHANGED pendingEnrichment
  <2>1. /\ f.st = "fetching" /\ f.to = client /\ f.box = m /\ f.prev = link[l].prev
        /\ f.above = mailboxUidWatermarks[m]
    BY <1>2 DEF LinkRecords
  <2>2. link'[l] = f /\ \A k \in Links : k # l => link'[k] = link[k]
    BY <1>2, <1>5
  <2> HIDE DEF f
  <2> QED
    BY <1>1, <1>3, <1>5, <2>1, <2>2
<1> QED
  BY <1>1, <1>4, <1>5

\* the server carries it out,
LEMMA ListedEffect ==
  ASSUME OwnInv, NEW l \in Links, FetchListed(l)
  PROVE  /\ link[l].st = "fetching" /\ link'[l].st = "listed"
         /\ link'[l].to = link[l].to /\ link'[l].above = link[l].above
         /\ link'[l].box = link[l].box /\ link'[l].prev = link[l].prev
         /\ link'[l].got = FetchAll(link[l].to, RangeStart(l))
         /\ \A k \in Links : k # l => link'[k] = link[k]
         /\ UNCHANGED <<supVars, rotation, maps, pendingEnrichment, opens, session, server,
                        history>>
<1> DEFINE got == FetchAll(link[l].to, RangeStart(l))
<1>1. /\ link[l].st = "fetching"
      /\ link' = [link EXCEPT ![l].st = "listed", ![l].got = got]
      /\ UNCHANGED <<supVars, rotation, maps, pendingEnrichment, awaits, opens, wire, session,
                     server, history>>
  BY DEF FetchListed
<1> HIDE DEF got
<1>2. link \in [Links -> LinkRecords] /\ link[l] \in LinkRecords
  BY DEF OwnInv, OwnTypeOK
<1>3. /\ link'[l] = [link[l] EXCEPT !.st = "listed", !.got = got]
      /\ \A k \in Links : k # l => link'[k] = link[k]
  BY <1>1, <1>2
<1>4. /\ link'[l].st = "listed" /\ link'[l].to = link[l].to /\ link'[l].above = link[l].above
      /\ link'[l].box = link[l].box /\ link'[l].prev = link[l].prev /\ link'[l].got = got
  BY <1>2, <1>3 DEF LinkRecords
<1> QED
  BY <1>1, <1>3, <1>4 DEF got

\* a rejection repeats the fetch from the same watermark or settles,
LEMMA RejectedEffect ==
  ASSUME OwnInv, NEW l \in Links, FetchRejected(l)
  PROVE  /\ Fetching(l)
         /\ UNCHANGED <<supVars, rotation, maps, opens, session, server, history>>
         /\ \/ Settle(l)
            \/ /\ link'[l].st = "fetching"
               /\ link'[l].to = link[l].to /\ link'[l].above = link[l].above
               /\ link'[l].box = link[l].box /\ link'[l].prev = link[l].prev
               /\ \A k \in Links : k # l => link'[k] = link[k]
               /\ UNCHANGED pendingEnrichment
<1>1. /\ Fetching(l)
      /\ UNCHANGED <<supVars, rotation, maps, opens, session, server, history>>
      /\ \/ Settle(l)
         \/ /\ link' = [link EXCEPT ![l].st = "fetching", ![l].got = {}, ![l].attempt = @ + 1]
            /\ UNCHANGED pendingEnrichment
  BY DEF FetchRejected
<1>2. link \in [Links -> LinkRecords] /\ link[l] \in LinkRecords
  BY DEF OwnInv, OwnTypeOK
<1>3. CASE /\ link' = [link EXCEPT ![l].st = "fetching", ![l].got = {}, ![l].attempt = @ + 1]
           /\ UNCHANGED pendingEnrichment
  <2>1. /\ link'[l] = [link[l] EXCEPT !.st = "fetching", !.got = {}, !.attempt = @ + 1]
        /\ \A k \in Links : k # l => link'[k] = link[k]
    BY <1>2, <1>3
  <2>2. /\ link'[l].st = "fetching" /\ link'[l].to = link[l].to
        /\ link'[l].above = link[l].above
        /\ link'[l].box = link[l].box /\ link'[l].prev = link[l].prev
    BY <1>2, <2>1 DEF LinkRecords
  <2> QED
    BY <1>1, <1>3, <2>1, <2>2
<1> QED
  BY <1>1, <1>3

\* and the result is booked.
LEMMA ResolvedEffect ==
  ASSUME OwnInv, NEW l \in Links, FetchResolved(l)
  PROVE  /\ link[l].st = "listed" /\ Fetching(l) /\ Answers(link[l].to)
         /\ link[l].box \in Mailboxes /\ NewUids(l) \in SUBSET Uids
         /\ Settle(l)
         /\ UNCHANGED <<supVars, rotation, mailboxCounts, mailboxUidValidity, opens, session,
                        server, baseline>>
         /\ \/ NewUids(l) = {} /\ UNCHANGED <<mailboxUidWatermarks, reports>>
            \/ /\ NewUids(l) # {}
               /\ mailboxUidWatermarks' =
                    [mailboxUidWatermarks EXCEPT ![link[l].box] = Max(NewUids(l))]
               /\ reports' =
                    [reports EXCEPT ![link[l].box] =
                       [u \in Uids |-> IF u \in NewUids(l) THEN Min({2, @[u] + 1}) ELSE @[u]]]
<1>1. link[l].st = "listed" /\ Fetching(l)
  BY DEF FetchResolved, Fetching
<1>2. link[l].box \in Mailboxes /\ NewUids(l) \in SUBSET Uids
  BY <1>1 DEF OwnInv, OwnTypeOK, LinksAim, NewUids, LinkRecords
<1> QED
  BY <1>1, <1>2 DEF FetchResolved

\* Each handler keeps the chain: those of the enrichment,
LEMMA LinkStepChain ==
  ASSUME SerialInv, OwnInv, Chain, NEW l \in Links,
         EmitNewMail(l) \/ FetchListed(l) \/ FetchResolved(l) \/ FetchRejected(l)
  PROVE  Chain'
<1>1. UNCHANGED <<supVars, activeMailbox>>
  BY DEF EmitNewMail, FetchListed, FetchResolved, FetchRejected
<1>2. Busy(l) /\ link[l].prev = NoLink
  <2>1. CASE EmitNewMail(l)
    BY <2>1, EmitEffect
  <2>2. CASE FetchListed(l) \/ FetchResolved(l) \/ FetchRejected(l)
    <3>1. Fetching(l)
      BY <2>2 DEF FetchListed, FetchResolved, FetchRejected, Fetching
    <3> QED
      BY <3>1 DEF Chain, ChainOrder, Busy, Fetching
  <2> QED
    BY <2>1, <2>2
<1>3. CASE Settle(l)
  BY <1>1, <1>2, <1>3, SettleChain
<1>4. CASE ~Settle(l)
  <2>1. /\ link'[l].st \in {"fetching", "listed"} /\ link'[l].prev = link[l].prev
        /\ \A k \in Links : k # l => link'[k] = link[k]
        /\ UNCHANGED pendingEnrichment
    BY <1>4, EmitEffect, ListedEffect, ResolvedEffect, RejectedEffect
  <2>2. Busy(l)'
    BY <2>1 DEF Busy
  <2> QED
    BY <1>1, <1>2, <2>1, <2>2, HeadChain
<1> QED
  BY <1>3, <1>4

\* start() and the timer,
LEMMA StartChain ==
  ASSUME Serial, SerialInv, OwnInv, Chain, NEW c \in Clients,
         StartWatcher(c) \/ ReconnectTimerFires(c)
  PROVE  Chain'
<1>1. UNCHANGED <<client, rotation, enrichment>>
  BY DEF StartWatcher, ReconnectTimerFires, Start, TimerFires
<1>2. \A l \in Links : ~Busy(l)
  <2>1. CASE StartWatcher(c)
    <3>1. starts = 0
      BY <2>1, SupervisionAssumption DEF StartWatcher, Start, Serial, SerialInv, SupTypeOK
    <3> QED
      BY <3>1 DEF Chain, LinksWait
  <2>2. CASE ReconnectTimerFires(c)
    BY <2>2 DEF ReconnectTimerFires, Serial, Busy
  <2> QED
    BY <2>1, <2>2
<1>3. ActiveHasClient'
  BY <1>1 DEF Chain, ActiveHasClient
<1> QED
  BY <1>1, <1>2, <1>3, NoneBusy

\* connect(),
LEMMA ConnectedChain ==
  ASSUME SerialInv, OwnInv, Chain, NEW c \in Clients,
         \/ ConnectedOpensFirst(c)
         \/ ConnectNothingToWatch(c) /\ UNCHANGED ownVars
  PROVE  Chain'
<1>1. UNCHANGED enrichment /\ client' = c /\ pc[c] = "connecting"
  BY DEF ConnectedOpensFirst, ConnectThenOpen, ConnectNothingToWatch
<1>2. \A l \in Links : ~Busy(l)
  BY <1>1 DEF Chain, LinksWait
<1>3. ActiveHasClient'
  BY <1>1, SupervisionAssumption DEF ActiveHasClient
<1> QED
  BY <1>1, <1>2, <1>3, NoneBusy

\* drops and failed opens,
LEMMA ForgetChain ==
  ASSUME SerialInv, SerialInv', OwnInv, Chain, NEW t \in Clients,
         \/ ConnectedAfterStop(t) \/ ReconnectFailed(t)
         \/ NextOpenRejected(t) \/ IdleRejected(t) \/ ConnectionEvent(t)
  PROVE  Chain'
<1>1. link' = link /\ starts' = starts
  BY DEF ConnectedAfterStop, ReconnectFailed, NextOpenRejected, IdleRejected, ConnectionEvent,
         ConnectAfterStop, HandleReconnectFailure, ReopenFails, IdleFails,
         HandleError, HandleClose, ClientEvent
<1>2. pc' = pc \/ \E where \in {"stopping", "free"} : pc' = [pc EXCEPT ![t] = where]
  BY DEF ConnectedAfterStop, ReconnectFailed, NextOpenRejected, IdleRejected, ConnectionEvent,
         ConnectAfterStop, HandleReconnectFailure, ReopenFails, IdleFails,
         HandleError, HandleClose, ClientEvent, threads
<1>3. \A s \in Clients : pc'[s] = "connecting" => pc[s] = "connecting"
  BY <1>2 DEF SerialInv, SupTypeOK
<1>4. \/ UNCHANGED <<client, activeMailbox, pendingEnrichment>>
      \/ client' = NoClient /\ ForgetMailboxes
  BY DEF ConnectedAfterStop, ReconnectFailed, NextOpenRejected, IdleRejected, ConnectionEvent,
         ConnectAfterStop, StopNow, HandleReconnectFailure, ReopenFails, IdleFails,
         HandleError, HandleClose, ClientEvent, HandleConnectionDrop, ReleaseClient
<1> QED
  BY <1>1, <1>3, <1>4, SameChain DEF ForgetMailboxes

\* the round-robin,
LEMMA DrainedChain ==
  ASSUME SerialInv, SerialInv', OwnInv, Chain, NEW t \in Clients, EnrichmentDrained(t)
  PROVE  Chain'
<1>1. UNCHANGED <<link, pendingEnrichment, client, starts>>
  BY DEF EnrichmentDrained, DrainedStale, DrainedIdleAgain, DrainedReopen, BeginIdle
<1>2. \E where \in {"free", "idling", "reopening"} : pc' = [pc EXCEPT ![t] = where]
  BY DEF EnrichmentDrained, DrainedStale, DrainedIdleAgain, DrainedReopen, BeginIdle
<1>3. \A s \in Clients : pc'[s] = "connecting" => pc[s] = "connecting"
  BY <1>2 DEF SerialInv, SupTypeOK
<1>4. ActiveHasClient'
  <2>1. CASE DrainedReopen(t)
    BY <1>1, <2>1, SupervisionAssumption
    DEF DrainedReopen, StillCurrent, ActiveHasClient, SerialInv, OwnWork
  <2>2. CASE ~DrainedReopen(t)
    BY <1>1, <2>2 DEF EnrichmentDrained, Chain, ActiveHasClient
  <2> QED
    BY <2>1, <2>2
<1>5. LinksWait'
  BY <1>1, <1>3 DEF Chain, LinksWait, Busy
<1>6. ChainOrder' /\ ChainEnd'
  BY <1>1 DEF Chain, ChainOrder, ChainEnd, Busy, Fetching
<1> QED
  BY <1>4, <1>5, <1>6 DEF Chain

\* EXISTS,
LEMMA ExistsChain ==
  ASSUME SerialInv, SerialInv', OwnInv, Chain, NEW c \in Clients, HandleExists(c)
  PROVE  Chain'
<1>1. UNCHANGED <<supVars, activeMailbox>>
  BY DEF HandleExists
<1>2. CASE UNCHANGED <<pendingEnrichment, link>>
  BY <1>1, <1>2, SameChain DEF supVars, threads
<1>3. CASE activeMailbox # 0 /\ ChainEnrichment(activeMailbox)
  <2>1. activeMailbox \in Mailboxes
    BY <1>3, MailboxRange DEF OwnInv, OwnTypeOK
  <2> QED
    BY <1>1, <1>3, <2>1, GrowChain
<1> QED
  BY <1>2, <1>3 DEF HandleExists

\* and those that only move a thread.
LEMMA ThreadChain ==
  ASSUME SerialInv, SerialInv', OwnInv, Chain, NEW t \in Clients,
         \/ AttemptRejected(t) \/ SupervisionOnly(t) \/ IdleResolved(t)
         \/ FirstOpened(t) \/ NextOpened(t)
  PROVE  Chain'
<1>1. CASE SupervisionOnly(t) /\ ConnectNothingToWatch(t)
  <2>1. UNCHANGED ownVars
    BY <1>1 DEF SupervisionOnly
  <2> QED
    BY <1>1, <2>1, ConnectedChain
<1>2. CASE ~(SupervisionOnly(t) /\ ConnectNothingToWatch(t))
  <2>1. UNCHANGED <<client, starts, activeMailbox, pendingEnrichment, link>>
    BY <1>2 DEF AttemptRejected, AttemptFails, SupervisionOnly, StartRejects, StopUnwinds,
           LogoutCompletes, ErrorWithoutListener, IdleResolved, IdleEnds, FirstOpened, OpenOk,
           NextOpened, ReopenOk, BeginIdle
  <2>2. \/ pc' = pc
        \/ \E where \in {"free", "failing", "draining", "idling"} : pc' = [pc EXCEPT ![t] = where]
    BY <1>2 DEF AttemptRejected, AttemptFails, SupervisionOnly, StartRejects, StopUnwinds,
           LogoutCompletes, ErrorWithoutListener, IdleResolved, IdleEnds, FirstOpened, OpenOk,
           NextOpened, ReopenOk, BeginIdle, threads
  <2>3. \A s \in Clients : pc'[s] = "connecting" => pc[s] = "connecting"
    BY <2>2 DEF SerialInv, SupTypeOK
  <2> QED
    BY <2>1, <2>3, SameChain
<1> QED
  BY <1>1, <1>2

\* Every step keeps the chain,
LEMMA ChainStep ==
  ASSUME Serial, SerialInv, SerialInv', OwnInv, Chain, [Next]_vars
  PROVE  Chain'
<1>1. ASSUME UNCHANGED <<supVars, activeMailbox, pendingEnrichment, link>>
      PROVE  Chain'
  BY <1>1, SameChain DEF supVars, threads
<1>2. CASE UNCHANGED vars
  BY <1>1, <1>2
<1>3. ASSUME NEW m \in Mailboxes, Deliver(m) \/ Purge(m) \/ Rebuild(m)
      PROVE  Chain'
  BY <1>1, <1>3 DEF Deliver, Purge, Rebuild
<1>4. CASE StopWatcher
  <2>1. /\ link' = link /\ starts' = starts /\ pc' = pc
        /\ client' = NoClient /\ activeMailbox' = 0 /\ pendingEnrichment' = NoLink
    BY <1>4 DEF StopWatcher, Stop, StopNow, ForgetMailboxes, threads
  <2> QED
    BY <2>1, SameChain
<1>5. CASE TimerExpires /\ UNCHANGED ownVars
  BY <1>5, SameChain DEF TimerExpires, threads
<1>6. ASSUME NEW t \in Clients, Settlement(t)
      PROVE  Chain'
  BY <1>6, ForgetChain, ConnectedChain, ThreadChain DEF Settlement
<1>7. ASSUME NEW c \in Clients, HandleExpunge(c)
      PROVE  Chain'
  BY <1>1, <1>7 DEF HandleExpunge
<1>8. ASSUME NEW c \in Clients,
             \/ StartWatcher(c) \/ ReconnectTimerFires(c)
             \/ IdleResolved(c) \/ IdleRejected(c)
             \/ ConnectionEvent(c) \/ HandleExists(c) \/ HandleExpunge(c)
      PROVE  Chain'
  BY <1>7, <1>8, StartChain, ThreadChain, ForgetChain, ExistsChain
<1>9. CASE Callbacks
  BY <1>9, LinkStepChain, DrainedChain DEF Callbacks
<1>10. CASE Events
  BY <1>3, <1>4, <1>5, <1>6, <1>8, <1>10, LinkStepChain DEF Events
<1> QED
  BY <1>2, <1>9, <1>10 DEF Next

\* which is empty initially,
LEMMA ChainInit == ASSUME Init PROVE Chain
<1>1. \A l \in Links : ~Busy(l) /\ ~Fetching(l)
  BY FreeLinkType DEF Init, Busy, Fetching
<1> QED
  BY <1>1 DEF Init, SupInit, Chain, LinksWait, ActiveHasClient, ChainOrder, ChainEnd

\* and so there always is one, with serial attempts.
LEMMA ChainInvariant == ASSUME Serial PROVE Spec => []Chain
<1>1. SupSpec => []SerialInv
  BY SerialInvariant
<1>2. SerialInv /\ SerialInv' /\ OwnInv /\ Chain /\ [Next]_vars => Chain'
  BY ChainStep
<1>3. Init => Chain
  BY ChainInit
<1> QED
  BY <1>1, <1>2, <1>3, WatcherSupervised, TypedInvariant, PTL DEF Spec

(* With serial attempts, for any number of mailboxes: at most one          *)
(* enrichment fetches at a time, however many EXISTS arrive and whatever   *)
(* connections are lost, so that no two of them start from the same        *)
(* watermark.                                                              *)
THEOREM OneFetchAtATime ==
  ASSUME Serial PROVE Spec => [](\A k, l \in Links : Fetching(k) /\ Fetching(l) => k = l)
<1>1. Chain => \A k, l \in Links : Fetching(k) /\ Fetching(l) => k = l
  BY DEF Chain, ChainOrder, Busy, Fetching
<1> QED
  BY <1>1, ChainInvariant, PTL

-----------------------------------------------------------------------------
(* The watermarks.                                                         *)

\* A UIDVALIDITY that is kept was one of the server's.
ValidityKnown ==
  \A m \in Mailboxes : mailboxUidValidity[m] \in {Unknown} \cup 0..uidValidity[m]

\* A fetch runs on the current client and holds the watermark of its mailbox, unless that
\* one has been renumbered.
FetchesHold ==
  client # NoClient =>
    \A l \in Links : Fetching(l) =>
      /\ link[l].to = client
      /\ mailboxUidWatermarks[link[l].box] # Unknown
      /\ \/ link[l].above = mailboxUidWatermarks[link[l].box]
         \/ uidValidity[link[l].box] # 0

\* The watermarks, inductively.
MarksInv == ValidityKnown /\ FetchesHold

\* The watermark of m does not go back in this step.
KeptAt(m) ==
  mailboxUidValidity'[m] = mailboxUidValidity[m] =>
    mailboxUidWatermarks'[m] >= mailboxUidWatermarks[m] \/ OutdatedFetch(m)

\* What each step does to the watermarks.
MarksStep ==
  /\ MarksInv'
  /\ client' = client /\ client # NoClient => \A m \in Mailboxes : KeptAt(m)

\* Steps that leave them alone,
LEMMA UnchangedMarks ==
  ASSUME OwnInv, MarksInv, link' = link, uidValidity' = uidValidity,
         client' \in {client, NoClient} \/ \A l \in Links : ~Fetching(l),
         UNCHANGED <<mailboxUidWatermarks, mailboxUidValidity>>
  PROVE  MarksStep
<1>1. \A l \in Links : Fetching(l)' <=> Fetching(l)
  BY DEF Fetching
<1>2. MarksInv'
  BY <1>1 DEF MarksInv, ValidityKnown, FetchesHold
<1>3. \A m \in Mailboxes : mailboxUidWatermarks[m] \in Int
  BY DEF OwnInv, OwnTypeOK
<1>4. \A m \in Mailboxes : mailboxUidWatermarks'[m] >= mailboxUidWatermarks[m]
  BY <1>3
<1> QED
  BY <1>2, <1>4 DEF MarksStep, KeptAt

\* that forget them,
LEMMA ForgottenMarks ==
  ASSUME OwnInv, MarksInv, ForgetMailboxes, client' = NoClient, UNCHANGED <<link, uidValidity>>
  PROVE  MarksStep
<1>1. ValidityKnown'
  BY DEF ForgetMailboxes, ValidityKnown, AllUnknown
<1> QED
  BY <1>1 DEF MarksInv, FetchesHold, MarksStep

\* (what an open does to the maps)
LEMMA OpenedMaps ==
  ASSUME SupTypeOK, OwnInv, NEW t \in Clients, opens[t] \in Mailboxes, MailboxOpened(t)
  PROVE  /\ \A m \in Mailboxes : m # opens[t] =>
              /\ mailboxUidValidity'[m] = mailboxUidValidity[m]
              /\ mailboxUidWatermarks'[m] = mailboxUidWatermarks[m]
              /\ baseline'[m] = baseline[m]
         /\ \/ UNCHANGED <<mailboxUidValidity, mailboxUidWatermarks, baseline>>
            \/ /\ mailboxUidValidity'[opens[t]] \in
                    {mailboxUidValidity[opens[t]], uidValidity[opens[t]]}
               /\ \/ /\ mailboxUidWatermarks'[opens[t]] = mailboxUidWatermarks[opens[t]]
                     /\ mailboxUidWatermarks[opens[t]] # Unknown
                     /\ baseline'[opens[t]] = baseline[opens[t]]
                  \/ /\ mailboxUidWatermarks'[opens[t]] = uidNext[opens[t]] - 1
                     /\ baseline'[opens[t]] = uidNext[opens[t]] - 1
                     /\ \/ mailboxUidWatermarks[opens[t]] = Unknown
                        \/ /\ mailboxUidValidity[opens[t]] \notin
                                {Unknown, uidValidity[opens[t]]}
                           /\ mailboxUidValidity'[opens[t]] = uidValidity[opens[t]]
<1> DEFINE n == opens[t]
<1>1. /\ mailboxUidWatermarks \in [Mailboxes -> Int] /\ baseline \in [Mailboxes -> Int]
      /\ mailboxUidValidity \in [Mailboxes -> Int]
  BY DEF OwnInv, OwnTypeOK
<1>2. n \in Mailboxes
  OBVIOUS
<1>3. \/ \E known \in BOOLEAN : UpdateUidWatermark(n, known)
      \/ UNCHANGED <<mailboxUidValidity, mailboxUidWatermarks, baseline>>
  BY DEF MailboxOpened
<1> DEFINE Opened ==
      /\ \A m \in Mailboxes : m # n =>
           /\ mailboxUidValidity'[m] = mailboxUidValidity[m]
           /\ mailboxUidWatermarks'[m] = mailboxUidWatermarks[m]
           /\ baseline'[m] = baseline[m]
      /\ mailboxUidValidity'[n] \in {mailboxUidValidity[n], uidValidity[n]}
      /\ \/ /\ mailboxUidWatermarks'[n] = mailboxUidWatermarks[n]
            /\ mailboxUidWatermarks[n] # Unknown
            /\ baseline'[n] = baseline[n]
         \/ /\ mailboxUidWatermarks'[n] = uidNext[n] - 1
            /\ baseline'[n] = uidNext[n] - 1
            /\ \/ mailboxUidWatermarks[n] = Unknown
               \/ /\ mailboxUidValidity[n] \notin {Unknown, uidValidity[n]}
                  /\ mailboxUidValidity'[n] = uidValidity[n]
<1> HIDE DEF n
<1>4. ASSUME NEW known \in BOOLEAN, UpdateUidWatermark(n, known)
      PROVE  Opened
  <2> DEFINE reset == \/ known /\ mailboxUidValidity[n] \notin {Unknown, uidValidity[n]}
                      \/ mailboxUidWatermarks[n] = Unknown
  <2>1. /\ mailboxUidValidity' =
             [mailboxUidValidity EXCEPT ![n] = IF known THEN uidValidity[n] ELSE @]
        /\ mailboxUidWatermarks' =
             [mailboxUidWatermarks EXCEPT ![n] = IF reset THEN Baseline(n) ELSE @]
        /\ baseline' = [baseline EXCEPT ![n] = IF reset THEN Baseline(n) ELSE @]
    BY <1>4 DEF UpdateUidWatermark
  <2>2. CASE reset
    <3>1. /\ mailboxUidWatermarks' = [mailboxUidWatermarks EXCEPT ![n] = uidNext[n] - 1]
          /\ baseline' = [baseline EXCEPT ![n] = uidNext[n] - 1]
      BY <2>1, <2>2 DEF Baseline
    <3> QED
      BY <1>1, <1>2, <2>1, <2>2, <3>1
  <2>3. CASE ~reset
    <3>1. mailboxUidWatermarks' = mailboxUidWatermarks /\ baseline' = baseline
      BY <1>1, <1>2, <2>1, <2>3
    <3> QED
      BY <1>1, <1>2, <2>1, <2>3, <3>1
  <2> QED
    BY <2>2, <2>3
<1> QED
  BY <1>3, <1>4 DEF n

\* an open, which moves a watermark only if there was none or with the UIDVALIDITY,
LEMMA OpenedMarks ==
  ASSUME SerialInv, OwnInv, MarksInv, NEW t \in Clients, FirstOpened(t) \/ NextOpened(t)
  PROVE  MarksStep
<1> DEFINE n == opens[t]
<1>1. /\ pc[t] \in {"opening", "reopening"} /\ MailboxOpened(t)
      /\ UNCHANGED <<client, link, uidValidity>>
  BY DEF FirstOpened, OpenOk, NextOpened, ReopenOk
<1>2. n \in Mailboxes
  BY <1>1 DEF OwnInv, OpensMailbox
<1>3. /\ \A m \in Mailboxes : m # n =>
              /\ mailboxUidValidity'[m] = mailboxUidValidity[m]
              /\ mailboxUidWatermarks'[m] = mailboxUidWatermarks[m]
      /\ \/ UNCHANGED <<mailboxUidValidity, mailboxUidWatermarks>>
         \/ /\ mailboxUidValidity'[n] \in {mailboxUidValidity[n], uidValidity[n]}
            /\ \/ /\ mailboxUidWatermarks'[n] = mailboxUidWatermarks[n]
               \/ /\ mailboxUidWatermarks'[n] = uidNext[n] - 1
                  /\ \/ mailboxUidWatermarks[n] = Unknown
                     \/ /\ mailboxUidValidity[n] \notin {Unknown, uidValidity[n]}
                        /\ mailboxUidValidity'[n] = uidValidity[n]
  BY <1>1, <1>2, OpenedMaps DEF SerialInv
<1> HIDE DEF n
<1>4. /\ uidNext[n] \in Nat /\ uidNext[n] >= 1
      /\ \A m \in Mailboxes : mailboxUidWatermarks[m] \in Int /\ uidValidity[m] \in Nat
      /\ \A l \in Links : Fetching(l) => link[l].box \in Mailboxes
  BY <1>2, WatcherAssumption DEF OwnInv, OwnTypeOK, LinksAim, Fetching
<1>5. uidNext[n] - 1 # Unknown /\ uidNext[n] - 1 >= Unknown
  BY <1>4 DEF Unknown
<1>6. mailboxUidValidity[n] \in {Unknown} \cup 0..uidValidity[n]
  BY <1>2 DEF MarksInv, ValidityKnown
<1>7. ASSUME mailboxUidValidity[n] \notin {Unknown, uidValidity[n]}
      PROVE  uidValidity[n] # 0
  BY <1>2, <1>4, <1>6, <1>7
<1>8. ValidityKnown'
  <2> SUFFICES ASSUME NEW m \in Mailboxes
               PROVE  mailboxUidValidity'[m] \in {Unknown} \cup 0..uidValidity[m]
    BY <1>1 DEF ValidityKnown
  <2>1. mailboxUidValidity'[m] \in {mailboxUidValidity[m], uidValidity[m]}
    BY <1>3
  <2> QED
    BY <1>4, <2>1 DEF MarksInv, ValidityKnown
<1>9. FetchesHold'
  <2> SUFFICES ASSUME client # NoClient, NEW l \in Links, Fetching(l)
               PROVE  /\ link[l].to = client
                      /\ mailboxUidWatermarks'[link[l].box] # Unknown
                      /\ \/ link[l].above = mailboxUidWatermarks'[link[l].box]
                         \/ uidValidity[link[l].box] # 0
    BY <1>1 DEF FetchesHold, Fetching
  <2>1. /\ link[l].to = client
        /\ mailboxUidWatermarks[link[l].box] # Unknown
        /\ \/ link[l].above = mailboxUidWatermarks[link[l].box]
           \/ uidValidity[link[l].box] # 0
    BY DEF MarksInv, FetchesHold
  <2> QED
    BY <1>3, <1>4, <1>5, <1>7, <2>1
<1>10. ASSUME NEW m \in Mailboxes, mailboxUidValidity'[m] = mailboxUidValidity[m]
       PROVE  mailboxUidWatermarks'[m] >= mailboxUidWatermarks[m]
  <2>1. CASE mailboxUidWatermarks'[m] = mailboxUidWatermarks[m]
    BY <1>4, <2>1
  <2>2. CASE mailboxUidWatermarks'[m] # mailboxUidWatermarks[m]
    <3>1. m = n /\ mailboxUidWatermarks'[n] = uidNext[n] - 1 /\ mailboxUidWatermarks[n] = Unknown
      BY <1>3, <1>10, <2>2
    <3> QED
      BY <1>5, <3>1
  <2> QED
    BY <2>1, <2>2
<1> QED
  BY <1>8, <1>9, <1>10 DEF MarksInv, MarksStep, KeptAt

\* the start of a fetch,
LEMMA EmitMarks ==
  ASSUME OwnInv, MarksInv, NEW l \in Links, EmitNewMail(l)
  PROVE  MarksStep
<1>1. UNCHANGED <<client, mailboxUidWatermarks, mailboxUidValidity, uidValidity>>
  BY DEF EmitNewMail, supVars
<1>2. ASSUME NEW k \in Links, Fetching(k)'
      PROVE  \/ /\ Fetching(k) /\ link'[k].to = link[k].to /\ link'[k].box = link[k].box
                /\ link'[k].above = link[k].above
             \/ /\ link'[k].to = client /\ link'[k].box = link[l].box
                /\ mailboxUidWatermarks[link[l].box] # Unknown
                /\ link'[k].above = mailboxUidWatermarks[link[l].box]
  BY <1>2, EmitEffect, SettleType DEF Fetching
<1>3. ValidityKnown'
  BY <1>1 DEF MarksInv, ValidityKnown
<1>4. FetchesHold'
  BY <1>1, <1>2 DEF MarksInv, FetchesHold
<1>5. \A m \in Mailboxes : mailboxUidWatermarks'[m] >= mailboxUidWatermarks[m]
  BY <1>1 DEF OwnInv, OwnTypeOK
<1> QED
  BY <1>3, <1>4, <1>5 DEF MarksInv, MarksStep, KeptAt

\* its listing and rejection,
LEMMA FetchMarks ==
  ASSUME OwnInv, MarksInv, NEW l \in Links, FetchListed(l) \/ FetchRejected(l)
  PROVE  MarksStep
<1>1. UNCHANGED <<client, mailboxUidWatermarks, mailboxUidValidity, uidValidity>>
  BY DEF FetchListed, FetchRejected, supVars
<1>2. ASSUME NEW k \in Links, Fetching(k)'
      PROVE  /\ Fetching(k) /\ link'[k].to = link[k].to /\ link'[k].box = link[k].box
             /\ link'[k].above = link[k].above
  BY <1>2, ListedEffect, RejectedEffect, SettleType DEF Fetching
<1>3. ValidityKnown'
  BY <1>1 DEF MarksInv, ValidityKnown
<1>4. FetchesHold'
  BY <1>1, <1>2 DEF MarksInv, FetchesHold
<1>5. \A m \in Mailboxes : mailboxUidWatermarks'[m] >= mailboxUidWatermarks[m]
  BY <1>1 DEF OwnInv, OwnTypeOK
<1> QED
  BY <1>3, <1>4, <1>5 DEF MarksInv, MarksStep, KeptAt

\* (the UIDs reported are above the watermark the fetch holds)
LEMMA NewMark ==
  ASSUME OwnInv, NEW l \in Links, link[l].st = "listed", NewUids(l) # {}
  PROVE  /\ NewUids(l) \in SUBSET Uids /\ NewUids(l) \in SUBSET link[l].got
         /\ Max(NewUids(l)) \in NewUids(l)
         /\ \A u \in NewUids(l) : u <= Max(NewUids(l)) /\ u > link[l].above
         /\ Max(NewUids(l)) > link[l].above /\ Max(NewUids(l)) \in Nat
<1>1. NewUids(l) = {u \in link[l].got : u > link[l].above} /\ link[l].got \in SUBSET Uids
  BY DEF OwnInv, OwnTypeOK, LinkRecords, NewUids
<1>2. NewUids(l) \in SUBSET Uids /\ NewUids(l) \in SUBSET link[l].got
  BY <1>1
<1>3. /\ Max(NewUids(l)) \in NewUids(l) /\ NewUids(l) \in SUBSET Nat
      /\ \A u \in NewUids(l) : u <= Max(NewUids(l))
  BY <1>2, UidSets
<1>4. \A u \in NewUids(l) : u > link[l].above
  BY <1>1
<1>5. Max(NewUids(l)) \in Nat
  BY <1>3
<1> QED
  BY <1>2, <1>3, <1>4, <1>5

\* its resolution, which raises the watermark it holds,
LEMMA ResolvedMarks ==
  ASSUME OwnInv, Chain, MarksInv, NEW l \in Links, FetchResolved(l)
  PROVE  MarksStep
<1>1. /\ link[l].st = "listed" /\ Fetching(l) /\ Settle(l)
      /\ UNCHANGED <<client, mailboxUidValidity, uidValidity>>
      /\ link[l].box \in Mailboxes
  BY ResolvedEffect DEF supVars
<1>2. \A k \in Links : Fetching(k) => k = l
  BY <1>1 DEF Chain, ChainOrder, Busy, Fetching
<1>3. \A k \in Links : ~Fetching(k)'
  BY <1>1, <1>2, SettleType DEF Fetching
<1>4. MarksInv'
  BY <1>1, <1>3 DEF MarksInv, ValidityKnown, FetchesHold
<1>5. ASSUME client # NoClient, NEW m \in Mailboxes
      PROVE  KeptAt(m)
  <2>1. \A x \in Mailboxes : mailboxUidWatermarks[x] \in Int
    BY DEF OwnInv, OwnTypeOK
  <2>2. CASE m # link[l].box \/ NewUids(l) = {}
    <3>1. mailboxUidWatermarks \in [Mailboxes -> Int]
      BY DEF OwnInv, OwnTypeOK
    <3>2. \/ mailboxUidWatermarks' = mailboxUidWatermarks
          \/ /\ m # link[l].box
             /\ mailboxUidWatermarks' =
                  [mailboxUidWatermarks EXCEPT ![link[l].box] = Max(NewUids(l))]
      BY <2>2, ResolvedEffect
    <3>3. mailboxUidWatermarks'[m] = mailboxUidWatermarks[m]
      BY <3>1, <3>2
    <3> QED
      BY <2>1, <3>3 DEF KeptAt
  <2>3. CASE m = link[l].box /\ NewUids(l) # {} /\ link[l].above = mailboxUidWatermarks[m]
    <3>1. mailboxUidWatermarks'[m] = Max(NewUids(l))
      <4>1. mailboxUidWatermarks \in [Mailboxes -> Int]
        BY DEF OwnInv, OwnTypeOK
      <4>2. mailboxUidWatermarks' = [mailboxUidWatermarks EXCEPT ![m] = Max(NewUids(l))]
        BY <2>3, ResolvedEffect
      <4> QED
        BY <4>1, <4>2
    <3>2. Max(NewUids(l)) > link[l].above /\ Max(NewUids(l)) \in Nat
      BY <1>1, <2>3, NewMark
    <3> QED
      BY <2>1, <2>3, <3>1, <3>2 DEF KeptAt
  <2>4. CASE m = link[l].box /\ link[l].above # mailboxUidWatermarks[m]
    <3>1. uidValidity[m] # 0
      BY <1>1, <1>5, <2>4 DEF MarksInv, FetchesHold
    <3> QED
      BY <1>1, <2>4, <3>1 DEF KeptAt, OutdatedFetch
  <2> QED
    BY <2>2, <2>3, <2>4
<1> QED
  BY <1>1, <1>4, <1>5 DEF MarksStep

\* the server,
LEMMA ServerMarks ==
  ASSUME OwnInv, MarksInv, NEW m \in Mailboxes, Deliver(m) \/ Purge(m) \/ Rebuild(m)
  PROVE  MarksStep
<1>1. UNCHANGED <<client, link, mailboxUidWatermarks, mailboxUidValidity>>
  BY DEF Deliver, Purge, Rebuild, supVars
<1>2. CASE uidValidity' = uidValidity
  BY <1>1, <1>2, UnchangedMarks
<1>3. CASE Rebuild(m)
  <2>1. \A x \in Mailboxes : /\ uidValidity[x] \in Nat
                             /\ uidValidity'[x] \in {uidValidity[x], uidValidity[x] + 1}
    BY <1>3, WatcherAssumption DEF Rebuild, OwnInv, OwnTypeOK
  <2>2. ValidityKnown'
    <3> SUFFICES ASSUME NEW x \in Mailboxes
                 PROVE  mailboxUidValidity[x] \in {Unknown} \cup 0..uidValidity'[x]
      BY <1>1 DEF ValidityKnown
    <3>1. mailboxUidValidity[x] \in {Unknown} \cup 0..uidValidity[x]
      BY DEF MarksInv, ValidityKnown
    <3> QED
      BY <2>1, <3>1
  <2>3. \A x \in Mailboxes : uidValidity[x] # 0 => uidValidity'[x] # 0
    BY <2>1
  <2>4. FetchesHold'
    BY <1>1, <2>3 DEF MarksInv, FetchesHold, OwnInv, LinksAim, Fetching
  <2>5. \A x \in Mailboxes : mailboxUidWatermarks'[x] >= mailboxUidWatermarks[x]
    BY <1>1 DEF OwnInv, OwnTypeOK
  <2> QED
    BY <2>2, <2>4, <2>5 DEF MarksInv, MarksStep, KeptAt
<1> QED
  BY <1>2, <1>3 DEF Deliver, Purge

\* drops and failed opens,
LEMMA ForgetMarks ==
  ASSUME OwnInv, MarksInv, NEW t \in Clients,
         \/ ConnectedAfterStop(t) \/ ReconnectFailed(t)
         \/ NextOpenRejected(t) \/ IdleRejected(t) \/ ConnectionEvent(t)
  PROVE  MarksStep
<1>1. UNCHANGED <<link, uidValidity>>
  BY DEF ConnectedAfterStop, ReconnectFailed, NextOpenRejected, IdleRejected, ConnectionEvent
<1>2. \/ UNCHANGED <<client, mailboxUidWatermarks, mailboxUidValidity>>
      \/ client' = NoClient /\ ForgetMailboxes
  BY DEF ConnectedAfterStop, ReconnectFailed, NextOpenRejected, IdleRejected, ConnectionEvent,
         ConnectAfterStop, StopNow, HandleReconnectFailure, ReopenFails, IdleFails,
         HandleError, HandleClose, ClientEvent, HandleConnectionDrop, ReleaseClient
<1> QED
  BY <1>1, <1>2, ForgottenMarks, UnchangedMarks

\* a new client, which finds no fetch,
LEMMA ConnectMarks ==
  ASSUME OwnInv, Chain, MarksInv, NEW t \in Clients,
         ConnectedOpensFirst(t) \/ SupervisionOnly(t)
  PROVE  MarksStep
<1>1. UNCHANGED <<link, uidValidity, mailboxUidWatermarks, mailboxUidValidity>>
  BY DEF ConnectedOpensFirst, SupervisionOnly
<1>2. client' = client \/ pc[t] = "connecting"
  BY DEF ConnectedOpensFirst, SupervisionOnly, ConnectThenOpen, ConnectNothingToWatch,
         StartRejects, StopUnwinds, LogoutCompletes, ErrorWithoutListener
<1>3. pc[t] = "connecting" => \A l \in Links : ~Fetching(l)
  BY DEF Chain, LinksWait, Busy, Fetching
<1> QED
  BY <1>1, <1>2, <1>3, UnchangedMarks

\* steps of a thread,
LEMMA OtherMarks ==
  ASSUME OwnInv, MarksInv, NEW t \in Clients,
         \/ StartWatcher(t) \/ ReconnectTimerFires(t) \/ EnrichmentDrained(t)
         \/ AttemptRejected(t) \/ IdleResolved(t) \/ HandleExpunge(t)
  PROVE  MarksStep
<1>1. UNCHANGED <<client, link, uidValidity, mailboxUidWatermarks, mailboxUidValidity>>
  BY DEF StartWatcher, Start, ReconnectTimerFires, TimerFires, EnrichmentDrained, DrainedStale,
         DrainedIdleAgain, DrainedReopen, AttemptRejected, AttemptFails, IdleResolved, IdleEnds,
         HandleExpunge, supVars
<1> QED
  BY <1>1, UnchangedMarks

\* and EXISTS.
LEMMA ExistsMarks ==
  ASSUME OwnInv, MarksInv, NEW c \in Clients, HandleExists(c)
  PROVE  MarksStep
<1>1. UNCHANGED <<client, uidValidity, mailboxUidWatermarks, mailboxUidValidity>>
  BY DEF HandleExists, supVars
<1>2. CASE link' = link
  BY <1>1, <1>2, UnchangedMarks
<1>3. CASE ChainEnrichment(activeMailbox) /\ activeMailbox # 0
  <2>1. PICK l \in Links : link' = [link EXCEPT ![l] = NewLink(activeMailbox, pendingEnrichment)]
    BY <1>3 DEF ChainEnrichment
  <2>2. NewLink(activeMailbox, pendingEnrichment).st = "waiting" /\ link \in [Links -> LinkRecords]
    BY <1>3, MailboxRange, NewLinkType DEF OwnInv, OwnTypeOK
  <2>3. link'[l].st = "waiting" /\ \A k \in Links : k # l => link'[k] = link[k]
    BY <2>1, <2>2
  <2>4. \A k \in Links : Fetching(k)' => Fetching(k) /\ link'[k] = link[k]
    BY <2>3 DEF Fetching
  <2>5. MarksInv'
    BY <1>1, <2>4 DEF MarksInv, ValidityKnown, FetchesHold
  <2>6. \A m \in Mailboxes : mailboxUidWatermarks'[m] >= mailboxUidWatermarks[m]
    BY <1>1 DEF OwnInv, OwnTypeOK
  <2> QED
    BY <2>5, <2>6 DEF MarksStep, KeptAt
<1> QED
  BY <1>2, <1>3 DEF HandleExists

\* Every step,
LEMMA MarksNext ==
  ASSUME SerialInv, OwnInv, Chain, MarksInv, [Next]_vars
  PROVE  MarksStep
<1>1. CASE UNCHANGED vars
  BY <1>1, UnchangedMarks DEF vars, supVars, maps, server, enrichment, ownVars
<1>2. CASE StopWatcher
  BY <1>2, ForgottenMarks DEF StopWatcher, Stop, StopNow
<1>3. CASE TimerExpires /\ UNCHANGED ownVars
  BY <1>3, UnchangedMarks DEF TimerExpires
<1>4. ASSUME NEW t \in Clients, Settlement(t)
      PROVE  MarksStep
  BY <1>4, ForgetMarks, ConnectMarks, OtherMarks, OpenedMarks DEF Settlement
<1>5. ASSUME NEW c \in Clients,
             \/ StartWatcher(c) \/ ReconnectTimerFires(c)
             \/ IdleResolved(c) \/ IdleRejected(c)
             \/ ConnectionEvent(c) \/ HandleExists(c) \/ HandleExpunge(c)
      PROVE  MarksStep
  BY <1>5, ForgetMarks, OtherMarks, ExistsMarks
<1>6. CASE Callbacks
  BY <1>6, EmitMarks, OtherMarks DEF Callbacks
<1>7. CASE Events
  BY <1>2, <1>3, <1>4, <1>5, <1>7, FetchMarks, ResolvedMarks, ServerMarks DEF Events
<1> QED
  BY <1>1, <1>6, <1>7 DEF Next

\* from the initial state on,
LEMMA MarksInit == ASSUME Init PROVE MarksInv
BY DEF Init, SupInit, MarksInv, ValidityKnown, FetchesHold, AllUnknown

\* and so the fetches always hold their watermark, with serial attempts.
LEMMA MarksInvariant == ASSUME Serial PROVE Spec => []MarksInv
<1>1. SupSpec => []SerialInv
  BY SerialInvariant
<1>2. SerialInv /\ OwnInv /\ Chain /\ MarksInv /\ [Next]_vars => MarksInv'
  BY MarksNext DEF MarksStep
<1>3. Init => MarksInv
  BY MarksInit
<1> QED
  BY <1>1, <1>2, <1>3, WatcherSupervised, TypedInvariant, ChainInvariant, PTL DEF Spec

(* With serial attempts, for any number of mailboxes: while a connection   *)
(* and a UIDVALIDITY last no watermark goes back, save for the fetch that  *)
(* WatermarkKept excepts. Going round the mailboxes, a failed or repeated  *)
(* FETCH and an answer after logout never make old messages new.           *)
THEOREM WatermarksKept == ASSUME Serial PROVE Spec => WatermarkKept
<1>1. SupSpec => []SerialInv
  BY SerialInvariant
<1>2. SerialInv /\ OwnInv /\ Chain /\ MarksInv /\ [Next]_vars =>
        [client' = client /\ client # NoClient =>
           \A m \in Mailboxes : mailboxUidValidity'[m] = mailboxUidValidity[m] =>
             mailboxUidWatermarks'[m] >= mailboxUidWatermarks[m] \/ OutdatedFetch(m)]_vars
  BY MarksNext DEF MarksStep, KeptAt
<1> QED
  BY <1>1, <1>2, WatcherSupervised, TypedInvariant, ChainInvariant, MarksInvariant, PTL
  DEF Spec, WatermarkKept

-----------------------------------------------------------------------------
(* One mailbox.                                                            *)

\* Serial attempts, one mailbox, and no answer after logout.
OneFeed == Serial /\ Max(MailboxCounts) = 1 /\ "linger" \notin Faults

\* With one mailbox no thread opens another.
NoRounds == \A t \in Clients : pc[t] # "reopening"

\* A live current client means that the watcher is started.
UpIsStarted == client # NoClient /\ Up(client) => started

\* Both, inductively.
Calm == NoRounds /\ UpIsStarted

\* The mailbox is number 1.
LEMMA OneIsAll ==
  ASSUME OneFeed
  PROVE  Mailboxes = {1} /\ \A m \in 0..Max(MailboxCounts) : m # 0 => m = 1
<1>1. Max(MailboxCounts) = 1
  BY DEF OneFeed
<1>2. Mailboxes = 1..1
  BY <1>1 DEF Mailboxes
<1> QED
  BY <1>1, <1>2

\* Steps that start nothing.
LEMMA SameCalm ==
  ASSUME SerialInv, Calm, client' \in {client, NoClient}, started' = started,
         \A c \in Clients : Up(c)' => Up(c),
         \A t \in Clients : pc'[t] = "reopening" => pc[t] = "reopening"
  PROVE  Calm'
<1>1. client \in Clients \cup {NoClient}
  BY DEF SerialInv, SupTypeOK
<1>2. NoRounds'
  BY DEF Calm, NoRounds
<1>3. UpIsStarted'
  BY <1>1 DEF Calm, UpIsStarted, Up
<1> QED
  BY <1>2, <1>3 DEF Calm

\* Every step keeps that,
LEMMA CalmStep ==
  ASSUME OneFeed, SerialInv, Calm, [SupNext]_supVars
  PROVE  Calm'
<1>1. /\ pc \in [Clients -> Phases] /\ conn \in [Clients -> ConnStates]
      /\ client \in Clients \cup {NoClient}
  BY DEF SerialInv, SupTypeOK
<1>2. CASE UNCHANGED supVars
  BY <1>2 DEF supVars, threads, wiring, Calm, NoRounds, UpIsStarted, Up
<1>3. CASE Stop
  BY <1>3 DEF Stop, StopNow, threads, Calm, NoRounds, UpIsStarted
<1>4. CASE TimerExpires
  BY <1>4 DEF TimerExpires, threads, wiring, Calm, NoRounds, UpIsStarted, Up
<1>5. ASSUME NEW c \in Clients, Start(c) \/ TimerFires(c)
      PROVE  Calm'
  <2>1. started' /\ pc' = [pc EXCEPT ![c] = "connecting"]
    BY <1>5 DEF Start, TimerFires, ConnectAndWatch
  <2> QED
    BY <1>1, <2>1 DEF Calm, NoRounds, UpIsStarted
<1>6. ASSUME NEW t \in Clients, ConnectAfterStop(t)
      PROVE  Calm'
  BY <1>1, <1>6 DEF ConnectAfterStop, StopNow, Calm, NoRounds, UpIsStarted
<1>7. ASSUME NEW t \in Clients, ConnectNothingToWatch(t) \/ ConnectThenOpen(t)
      PROVE  Calm'
  <2>1. started' /\ \E where \in {"free", "opening"} : pc' = [pc EXCEPT ![t] = where]
    BY <1>7 DEF ConnectNothingToWatch, ConnectThenOpen
  <2> QED
    BY <1>1, <2>1 DEF Calm, NoRounds, UpIsStarted
<1>8. ASSUME NEW t \in Clients, AttemptFails(t)
      PROVE  Calm'
  <2>1. /\ conn' = LogOut(conn, t) /\ pc' = [pc EXCEPT ![t] = "failing"]
        /\ UNCHANGED <<client, started>>
    BY <1>8 DEF AttemptFails
  <2>2. \A c \in Clients : Up(c)' => Up(c)
    BY <1>1, <2>1, LogOutEffect DEF Up
  <2> QED
    BY <1>1, <2>1, <2>2, SameCalm
<1>9. ASSUME NEW t \in Clients, StartRejects(t)
      PROVE  Calm'
  <2>1. /\ pc' = [pc EXCEPT ![t] = "free"] /\ client' = client /\ conn' = conn
        /\ pc[t] = "failing" /\ conn[t] = "closed"
    BY <1>9 DEF StartRejects, wiring
  <2>2. client \in {t, NoClient}
    BY <2>1 DEF SerialInv, Attempts
  <2>3. ~(client # NoClient /\ Up(client))
    BY <2>1, <2>2 DEF Up
  <2> QED
    BY <1>1, <2>1, <2>3 DEF Calm, NoRounds, UpIsStarted, Up
<1>10. ASSUME NEW t \in Clients,
              \/ OpenOk(t) \/ StopUnwinds(t) \/ IdleEnds(t)
              \/ DrainedStale(t) \/ DrainedIdleAgain(t) \/ ReopenOk(t)
       PROVE  Calm'
  <2>1. UNCHANGED <<client, started, conn>>
    BY <1>10 DEF OpenOk, StopUnwinds, IdleEnds, DrainedStale, DrainedIdleAgain, ReopenOk, wiring
  <2>2. \E where \in {"free", "idling", "draining"} : pc' = [pc EXCEPT ![t] = where]
    BY <1>10 DEF OpenOk, StopUnwinds, IdleEnds, DrainedStale, DrainedIdleAgain, ReopenOk,
           BeginIdle
  <2> QED
    BY <1>1, <2>1, <2>2, SameCalm DEF Up
<1>11. ASSUME NEW t \in Clients, DrainedReopen(t)
       PROVE  FALSE
  BY <1>11, MailboxRange DEF DrainedReopen, OneFeed, SerialInv, SupTypeOK
<1>12. ASSUME NEW t \in Clients, HandleReconnectFailure(t) \/ ReopenFails(t) \/ IdleFails(t)
       PROVE  Calm'
  <2>1. pc' = [pc EXCEPT ![t] = "free"]
    BY <1>12 DEF HandleReconnectFailure, ReopenFails, IdleFails
  <2>2. client' = NoClient \/ UNCHANGED <<client, conn, started>>
    BY <1>12 DEF HandleReconnectFailure, ReopenFails, IdleFails, HandleConnectionDrop,
           ReleaseClient, wiring
  <2> QED
    BY <1>1, <2>1, <2>2 DEF Calm, NoRounds, UpIsStarted, Up
<1>13. ASSUME NEW c \in Clients, ClientStep(c)
       PROVE  Calm'
  <2>1. pc' = pc /\ started' = started
    BY <1>13 DEF ClientStep, HandleError, HandleClose, ClientEvent, LogoutCompletes,
           ErrorWithoutListener, threads
  <2>2. \/ client' = NoClient
        \/ /\ client' = client
           /\ \E after \in {"errored", "closed"} : conn' = [conn EXCEPT ![c] = after]
    BY <1>13 DEF ClientStep, HandleError, HandleClose, ClientEvent, LogoutCompletes,
           ErrorWithoutListener, HandleConnectionDrop, ReleaseClient
  <2>3. CASE client' = NoClient
    BY <2>1, <2>3 DEF Calm, NoRounds, UpIsStarted
  <2>4. CASE client' = client /\ \A x \in Clients : Up(x)' => Up(x)
    BY <2>1, <2>4, SameCalm
  <2> QED
    BY <1>1, <2>2, <2>3, <2>4 DEF Up
<1>14. ASSUME NEW t \in Clients, ThreadStep(t)
       PROVE  Calm'
  BY <1>6, <1>7, <1>8, <1>9, <1>10, <1>11, <1>12, <1>14 DEF ThreadStep
<1> QED
  BY <1>2, <1>3, <1>4, <1>5, <1>10, <1>12, <1>13, <1>14 DEF SupNext

\* so that it always holds.
LEMMA CalmInvariant == ASSUME OneFeed PROVE SupSpec => []Calm
<1>1. Serial
  BY DEF OneFeed
<1>2. SupInit => Calm
  BY DEF SupInit, Calm, NoRounds, UpIsStarted
<1>3. SerialInv /\ Calm /\ [SupNext]_supVars => Calm'
  BY CalmStep
<1>4. SupSpec => []SerialInv
  BY <1>1, SerialInvariant
<1> QED
  BY <1>2, <1>3, <1>4, PTL DEF SupSpec

\* The watermark.
Mark == mailboxUidWatermarks[1]

\* UIDNEXT is above everything in the mailbox and everything reported.
Numbered ==
  /\ \A u \in mail[1] : u < uidNext[1]
  /\ \A u \in Uids : reports[1][u] > 0 => u < uidNext[1]

\* With a watermark there is a client that has opened the mailbox.
MarkIsLive ==
  Mark # Unknown =>
    /\ started /\ client # NoClient /\ selected[client] = 1
    /\ \A t \in Clients : pc[t] \notin {"connecting", "opening", "failing"}

\* Nothing above the watermark has been reported, and what is below it and still there is
\* accounted for.
MarkIsRight ==
  Mark # Unknown =>
    /\ Mark \in Nat /\ Mark < uidNext[1]
    /\ \A u \in Uids : reports[1][u] > 0 => u <= Mark
    /\ \A u \in mail[1] : u <= Mark => u \in Accounted(1)

\* A session that was told of a message was told of all those before it.
ViewClosed ==
  Mark # Unknown =>
    \A v \in view[client] :
      v < uidNext[1] /\ \A u \in mail[1] : u <= v => u \in view[client]

\* A fetch holds the watermark as it is, and its result leaves out none from there up to
\* the highest it has.
FetchFromMark ==
  client # NoClient =>
    \A l \in Links : Fetching(l) =>
      /\ link[l].above = Mark
      /\ link[l].st = "listed" =>
           \A g \in link[l].got :
             g < uidNext[1] /\ \A u \in mail[1] : Mark < u /\ u <= g => u \in link[l].got

\* The feed of newMail events, inductively.
FeedInv ==
  /\ Numbered /\ MarkIsLive /\ MarkIsRight /\ ViewClosed /\ FetchFromMark
  /\ NoDuplicateNewMail

\* A step keeps it, and is one of NewMailFeed unless it renumbers the mailbox.
FeedKept ==
  /\ FeedInv'
  /\ [Feed!FeedNext]_(Feed!feedVars) \/ \E m \in Mailboxes : Rebuild(m)

\* Types, for the arithmetic.
LEMMA FeedFacts ==
  ASSUME OneFeed, OwnInv
  PROVE  /\ Mailboxes = {1}
         /\ mail[1] \in SUBSET Uids /\ uidNext[1] \in Nat /\ uidNext[1] >= 1
         /\ Mark \in Int /\ mailboxUidValidity[1] \in Int /\ uidValidity[1] \in Nat
         /\ reports[1] \in [Uids -> 0..2] /\ baseline[1] \in Int
         /\ \A c \in Clients : view[c] \in SUBSET Uids
         /\ \A u \in Uids : u \in Nat /\ u >= 1
BY OneIsAll, WatcherAssumption DEF OwnInv, OwnTypeOK, Mark, Uids

\* Steps without a report, a new baseline or a change of the mailbox.
LEMMA QuietFeed ==
  ASSUME OneFeed, SupTypeOK, FeedInv, FetchFromMark',
         UNCHANGED <<mailboxUidWatermarks, mailboxUidValidity, server, history>>,
         Mark # Unknown =>
           /\ client' = client /\ started' = started
           /\ \A t \in Clients : pc'[t] \in {"connecting", "opening", "failing"} =>
                                   pc[t] \in {"connecting", "opening", "failing"}
           /\ selected'[client] = selected[client]
           /\ view'[client] = view[client]
  PROVE  FeedKept
<1>1. Mark' = Mark
  BY DEF Mark
<1>2. Numbered' /\ NoDuplicateNewMail'
  BY DEF FeedInv, Numbered, NoDuplicateNewMail
<1>3. MarkIsLive'
  BY <1>1 DEF FeedInv, MarkIsLive
<1>4. MarkIsRight'
  BY <1>1 DEF FeedInv, MarkIsRight, Accounted
<1>5. ViewClosed'
  BY <1>1 DEF FeedInv, ViewClosed, MarkIsLive
<1>6. UNCHANGED Feed!feedVars
  BY DEF Feed!feedVars
<1> QED
  BY <1>2, <1>3, <1>4, <1>5, <1>6 DEF FeedInv, FeedKept

\* Steps that leave the fetches alone.
LEMMA SameFetches ==
  ASSUME FeedInv, UNCHANGED <<link, mailboxUidWatermarks, server>>,
         client' \in {client, NoClient} \/ \A l \in Links : ~Fetching(l)
  PROVE  FetchFromMark'
<1>1. Mark' = Mark
  BY DEF Mark
<1>2. \A l \in Links : Fetching(l)' <=> Fetching(l)
  BY DEF Fetching
<1> QED
  BY <1>1, <1>2 DEF FeedInv, FetchFromMark

\* A lost connection (Lose of NewMailFeed).
LEMMA LostFeed ==
  ASSUME OneFeed, OwnInv, FeedInv, client' = NoClient, mailboxUidWatermarks' = AllUnknown,
         UNCHANGED <<server, history>>
  PROVE  FeedKept
<1>1. Mark' = Unknown
  BY OneIsAll DEF Mark, AllUnknown
<1>2. Numbered' /\ NoDuplicateNewMail'
  BY DEF FeedInv, Numbered, NoDuplicateNewMail
<1>3. MarkIsLive' /\ MarkIsRight' /\ ViewClosed' /\ FetchFromMark'
  BY <1>1 DEF MarkIsLive, MarkIsRight, ViewClosed, FetchFromMark
<1>4. [Feed!FeedNext]_(Feed!feedVars)
  <2>1. CASE Mark = Unknown
    BY <1>1, <2>1 DEF Feed!feedVars, Mark
  <2>2. CASE Mark # Unknown
    BY <1>1, <2>2 DEF Feed!FeedNext, Feed!Lose, Feed!Unknown, Unknown, Mark
  <2> QED
    BY <2>1, <2>2
<1> QED
  BY <1>2, <1>3, <1>4 DEF FeedInv, FeedKept

\* Each handler keeps the feed: drops and failed opens,
LEMMA ForgetFeed ==
  ASSUME OneFeed, SerialInv, OwnInv, FeedInv, NEW t \in Clients,
         \/ ConnectedAfterStop(t) \/ ReconnectFailed(t)
         \/ NextOpenRejected(t) \/ IdleRejected(t) \/ ConnectionEvent(t)
  PROVE  FeedKept
<1>1. UNCHANGED <<link, session, server, history>>
  BY DEF ConnectedAfterStop, ReconnectFailed, NextOpenRejected, IdleRejected, ConnectionEvent
<1>2. \/ /\ UNCHANGED <<client, mailboxUidWatermarks, mailboxUidValidity, started>>
         /\ IdleRejected(t) \/ ConnectionEvent(t)
      \/ client' = NoClient /\ ForgetMailboxes
  BY DEF ConnectedAfterStop, ReconnectFailed, NextOpenRejected, IdleRejected, ConnectionEvent,
         ConnectAfterStop, StopNow, HandleReconnectFailure, ReopenFails, IdleFails,
         HandleError, HandleClose, ClientEvent, HandleConnectionDrop, ReleaseClient
<1>3. CASE client' = NoClient /\ ForgetMailboxes
  BY <1>1, <1>3, LostFeed DEF ForgetMailboxes
<1>4. CASE /\ UNCHANGED <<client, mailboxUidWatermarks, mailboxUidValidity, started>>
           /\ IdleRejected(t) \/ ConnectionEvent(t)
  <2>1. pc' = pc \/ pc' = [pc EXCEPT ![t] = "free"]
    BY <1>4 DEF IdleRejected, IdleFails, ConnectionEvent, HandleError, HandleClose, ClientEvent,
           threads
  <2>2. \A s \in Clients : pc'[s] \in {"connecting", "opening", "failing"} => pc'[s] = pc[s]
    BY <2>1 DEF SerialInv, SupTypeOK
  <2>3. FetchFromMark'
    BY <1>1, <1>4, SameFetches
  <2> QED
    BY <1>1, <1>4, <2>2, <2>3, QuietFeed DEF SerialInv
<1> QED
  BY <1>2, <1>3, <1>4

\* start() and the timer, which find no watermark,
LEMMA StartFeed ==
  ASSUME OneFeed, SerialInv, OwnInv, FeedInv, NEW c \in Clients,
         StartWatcher(c) \/ ReconnectTimerFires(c)
  PROVE  FeedKept
<1>1. UNCHANGED <<client, link, maps, server, history>>
  BY DEF StartWatcher, Start, ReconnectTimerFires, TimerFires
<1>2. Mark = Unknown
  <2>1. CASE StartWatcher(c)
    BY <2>1 DEF StartWatcher, Start, FeedInv, MarkIsLive
  <2>2. CASE ReconnectTimerFires(c)
    BY <2>2 DEF ReconnectTimerFires, TimerFires, FeedInv, MarkIsLive, SerialInv,
           NoTimerWithClient
  <2> QED
    BY <2>1, <2>2
<1>3. FetchFromMark'
  BY <1>1, SameFetches
<1> QED
  BY <1>1, <1>2, <1>3, QuietFeed DEF SerialInv

\* connect(), likewise,
LEMMA ConnectedFeed ==
  ASSUME OneFeed, SerialInv, OwnInv, Chain, FeedInv, NEW c \in Clients,
         \/ ConnectedOpensFirst(c)
         \/ SupervisionOnly(c) /\ ConnectNothingToWatch(c)
  PROVE  FeedKept
<1>1. UNCHANGED <<link, maps, server, history>> /\ pc[c] = "connecting"
  BY DEF ConnectedOpensFirst, ConnectThenOpen, SupervisionOnly, ConnectNothingToWatch
<1>2. Mark = Unknown
  BY <1>1 DEF FeedInv, MarkIsLive
<1>3. \A l \in Links : ~Fetching(l)
  BY <1>1 DEF Chain, LinksWait, Busy, Fetching
<1>4. FetchFromMark'
  BY <1>1, <1>3, SameFetches
<1> QED
  BY <1>1, <1>2, <1>4, QuietFeed DEF SerialInv

\* steps of a thread,
LEMMA ThreadFeed ==
  ASSUME OneFeed, SerialInv, OwnInv, Calm, FeedInv, NEW t \in Clients,
         \/ EnrichmentDrained(t) \/ AttemptRejected(t) \/ IdleResolved(t)
         \/ SupervisionOnly(t) /\ ~ConnectNothingToWatch(t)
  PROVE  FeedKept
<1>1. UNCHANGED <<client, link, maps, session, server, history>>
  BY DEF EnrichmentDrained, DrainedStale, DrainedIdleAgain, DrainedReopen, AttemptRejected,
         AttemptFails, IdleResolved, IdleEnds, SupervisionOnly, StartRejects, StopUnwinds,
         LogoutCompletes, ErrorWithoutListener
<1>2. started' = started \/ pc[t] = "failing"
  BY DEF EnrichmentDrained, DrainedStale, DrainedIdleAgain, DrainedReopen, AttemptRejected,
         AttemptFails, IdleResolved, IdleEnds, SupervisionOnly, StartRejects, StopUnwinds,
         LogoutCompletes, ErrorWithoutListener
<1>3. \/ pc' = pc
      \/ \E where \in {"free", "idling", "draining", "reopening"} : pc' = [pc EXCEPT ![t] = where]
      \/ pc[t] \in {"connecting", "opening"}
  BY DEF EnrichmentDrained, DrainedStale, DrainedIdleAgain, DrainedReopen, AttemptRejected,
         AttemptFails, IdleResolved, IdleEnds, SupervisionOnly, StartRejects, StopUnwinds,
         LogoutCompletes, ErrorWithoutListener, threads, BeginIdle
<1>4. FetchFromMark'
  BY <1>1, SameFetches
<1>5. ASSUME Mark # Unknown
      PROVE  /\ started' = started
             /\ \A s \in Clients : pc'[s] \in {"connecting", "opening", "failing"} =>
                                     pc[s] \in {"connecting", "opening", "failing"}
  <2>1. pc[t] \notin {"connecting", "opening", "failing"}
    BY <1>5 DEF FeedInv, MarkIsLive
  <2> QED
    BY <1>2, <1>3, <2>1 DEF SerialInv, SupTypeOK
<1> QED
  BY <1>1, <1>4, <1>5, QuietFeed DEF SerialInv

\* an open, which takes the baseline (Rebase),
LEMMA OpenedFeed ==
  ASSUME OneFeed, SerialInv, SerialInv', OwnInv, Calm, MarksInv, FeedInv, NEW t \in Clients,
         FirstOpened(t) \/ NextOpened(t)
  PROVE  FeedKept
<1>1. /\ pc[t] = "opening" /\ Answers(on[t]) /\ BeginIdle(t) /\ MailboxOpened(t)
      /\ UNCHANGED <<client, started, link, server, reports>>
  BY DEF FirstOpened, OpenOk, NextOpened, ReopenOk, Calm, NoRounds
<1>2. on[t] = t /\ Up(t)
  BY <1>1 DEF Answers, OneFeed, SerialInv, OwnWork
<1>3. client = t /\ t # NoClient /\ started
  BY <1>1, <1>2, SupervisionAssumption DEF SerialInv, UpIsOwned, Calm, UpIsStarted
<1>4. opens[t] = 1
  BY <1>1, OneIsAll DEF OwnInv, OpensMailbox
<1>5. Mark = Unknown
  BY <1>1 DEF FeedInv, MarkIsLive
<1>6. \A l \in Links : ~Fetching(l) /\ ~Fetching(l)'
  <2>1. \A l \in Links : Fetching(l) => link[l].box = 1
    BY OneIsAll DEF OwnInv, LinksAim, Fetching
  <2>2. \A l \in Links : ~Fetching(l)
    BY <1>3, <1>5, <2>1 DEF MarksInv, FetchesHold, Mark
  <2> QED
    BY <1>1, <2>2 DEF Fetching
<1>7. FetchFromMark'
  BY <1>6 DEF FetchFromMark
<1>8. /\ selected'[t] = 1 /\ view'[t] = mail[1]
  BY <1>1, <1>2, <1>4 DEF MailboxOpened, OwnInv, OwnTypeOK
<1>9. \A s \in Clients : pc'[s] \notin {"connecting", "opening", "failing"}
  <2>1. pc'[t] = "idling" /\ \A s \in Clients : s # t => pc'[s] = pc[s]
    BY <1>1, <1>3 DEF BeginIdle, SerialInv, SupTypeOK
  <2>2. \A s \in Clients : s # t => pc[s] \notin {"connecting", "opening", "failing"}
    BY <1>1 DEF SerialInv, OneUnwinding, Unwinding
  <2> QED
    BY <2>1, <2>2
<1>10. Numbered' /\ NoDuplicateNewMail'
  BY <1>1 DEF FeedInv, Numbered, NoDuplicateNewMail
<1>11. \/ Mark' = Unknown
       \/ Mark' = uidNext[1] - 1 /\ baseline'[1] = uidNext[1] - 1
  <2>1. \/ UNCHANGED <<mailboxUidWatermarks, baseline>>
        \/ mailboxUidWatermarks[1] # Unknown
        \/ mailboxUidWatermarks'[1] = uidNext[1] - 1 /\ baseline'[1] = uidNext[1] - 1
    BY <1>1, <1>4, OneIsAll, OpenedMaps DEF SerialInv
  <2> QED
    BY <1>5, <2>1 DEF Mark
<1>12. CASE Mark' = Unknown
  <2>1. MarkIsLive' /\ MarkIsRight' /\ ViewClosed'
    BY <1>12 DEF MarkIsLive, MarkIsRight, ViewClosed
  <2>2. UNCHANGED Feed!feedVars
    BY <1>1, <1>5, <1>12 DEF Feed!feedVars, Mark
  <2> QED
    BY <1>7, <1>10, <2>1, <2>2 DEF FeedInv, FeedKept
<1>13. CASE Mark' = uidNext[1] - 1 /\ baseline'[1] = uidNext[1] - 1
  <2>1. MarkIsLive'
    BY <1>1, <1>3, <1>8, <1>9, <1>13 DEF MarkIsLive
  <2>2. /\ uidNext[1] \in Nat /\ uidNext[1] >= 1 /\ uidNext' = uidNext /\ mail' = mail
        /\ mail[1] \in SUBSET Uids
        /\ \A u \in Uids : u \in Nat
    BY <1>1, FeedFacts
  <2>3. MarkIsRight'
    <3>1. Mark' \in Nat /\ Mark' < uidNext[1]
      BY <1>13, <2>2
    <3>2. \A u \in Uids : reports[1][u] > 0 => u <= Mark'
      BY <1>13, <2>2 DEF FeedInv, Numbered
    <3>3. \A u \in mail[1] : u \in Accounted(1)'
      <4> SUFFICES ASSUME NEW u \in mail[1]
                   PROVE  u \in Uids /\ u <= baseline'[1]
        BY DEF Accounted
      <4>1. u \in Uids /\ u \in Nat /\ u < uidNext[1]
        BY <2>2 DEF FeedInv, Numbered
      <4> QED
        BY <1>13, <2>2, <4>1
    <3> QED
      BY <1>1, <2>2, <3>1, <3>2, <3>3 DEF MarkIsRight
  <2>4. ViewClosed'
    BY <1>1, <1>3, <1>8, <2>2 DEF ViewClosed, FeedInv, Numbered
  <2>5. Feed!Rebase
    BY <1>1, <1>5, <1>13 DEF Feed!Rebase, Feed!Unknown, Unknown, Mark
  <2> QED
    BY <1>7, <1>10, <2>1, <2>3, <2>4, <2>5 DEF FeedInv, FeedKept, Feed!FeedNext
<1> QED
  BY <1>11, <1>12, <1>13

\* EXISTS, which announces all there is,
LEMMA ExistsFeed ==
  ASSUME OneFeed, SerialInv, OwnInv, FeedInv, NEW c \in Clients, HandleExists(c)
  PROVE  FeedKept
<1>1. /\ UNCHANGED <<supVars, mailboxUidWatermarks, mailboxUidValidity, selected, server,
                     history>>
      /\ selected[c] # 0 /\ view' = [view EXCEPT ![c] = @ \cup mail[selected[c]]]
  BY DEF HandleExists
<1>2. Mark' = Mark /\ client' = client /\ started' = started /\ pc' = pc
  BY <1>1 DEF Mark, supVars, threads
<1>3. selected[c] = 1
  BY <1>1, OneIsAll DEF OwnInv, OwnTypeOK
<1>4. view'[c] = view[c] \cup mail[1] /\ \A x \in Clients : x # c => view'[x] = view[x]
  BY <1>1, <1>3 DEF OwnInv, OwnTypeOK
<1>5. Numbered' /\ NoDuplicateNewMail' /\ MarkIsLive' /\ MarkIsRight'
  BY <1>1, <1>2 DEF FeedInv, Numbered, NoDuplicateNewMail, MarkIsLive, MarkIsRight,
                    Accounted
<1>6. ViewClosed'
  <2>1. client \in Clients \cup {NoClient}
    BY DEF SerialInv, SupTypeOK
  <2>2. CASE client = c
    BY <1>1, <1>2, <1>4, <2>2 DEF FeedInv, ViewClosed, Numbered
  <2>3. CASE client # c
    BY <1>1, <1>2, <1>4, <2>1, <2>3 DEF FeedInv, ViewClosed, MarkIsLive
  <2> QED
    BY <2>2, <2>3
<1>7. FetchFromMark'
  <2>1. \A k \in Links : Fetching(k)' => Fetching(k) /\ link'[k] = link[k]
    <3>1. CASE link' = link
      BY <3>1 DEF Fetching
    <3>2. CASE activeMailbox # 0 /\ ChainEnrichment(activeMailbox)
      <4>1. PICK l \in Links :
              link' = [link EXCEPT ![l] = NewLink(activeMailbox, pendingEnrichment)]
        BY <3>2 DEF ChainEnrichment
      <4>2. /\ NewLink(activeMailbox, pendingEnrichment).st = "waiting"
            /\ link \in [Links -> LinkRecords]
        BY <3>2, MailboxRange, NewLinkType DEF OwnInv, OwnTypeOK
      <4>3. link'[l].st = "waiting" /\ \A k \in Links : k # l => link'[k] = link[k]
        BY <4>1, <4>2
      <4> QED
        BY <4>3 DEF Fetching
    <3> QED
      BY <3>1, <3>2 DEF HandleExists
  <2> QED
    BY <1>1, <1>2, <2>1 DEF FeedInv, FetchFromMark
<1>8. UNCHANGED Feed!feedVars
  BY <1>1 DEF Feed!feedVars
<1> QED
  BY <1>5, <1>6, <1>7, <1>8 DEF FeedInv, FeedKept

\* EXPUNGE,
LEMMA ExpungeFeed ==
  ASSUME OneFeed, SerialInv, OwnInv, FeedInv, NEW c \in Clients, HandleExpunge(c)
  PROVE  FeedKept
<1>1. UNCHANGED <<supVars, mailboxUidWatermarks, mailboxUidValidity, link, selected, server,
                  history>>
  BY DEF HandleExpunge
<1>2. Mark' = Mark /\ client' = client /\ started' = started /\ pc' = pc
  BY <1>1 DEF Mark, supVars, threads
<1>3. selected[c] = 1
  BY OneIsAll DEF HandleExpunge, OwnInv, OwnTypeOK
<1>4. PICK u \in view[c] \ mail[1] : view' = [view EXCEPT ![c] = @ \ {u}]
  BY <1>3 DEF HandleExpunge
<1>5. view'[c] = view[c] \ {u} /\ \A x \in Clients : x # c => view'[x] = view[x]
  BY <1>4 DEF OwnInv, OwnTypeOK
<1>6. Numbered' /\ NoDuplicateNewMail' /\ MarkIsLive' /\ MarkIsRight'
  BY <1>1, <1>2 DEF FeedInv, Numbered, NoDuplicateNewMail, MarkIsLive, MarkIsRight,
                    Accounted
<1>7. ViewClosed'
  <2>1. client \in Clients \cup {NoClient}
    BY DEF SerialInv, SupTypeOK
  <2>2. CASE client = c
    BY <1>1, <1>2, <1>4, <1>5, <2>2 DEF FeedInv, ViewClosed
  <2>3. CASE client # c
    BY <1>1, <1>2, <1>5, <2>1, <2>3 DEF FeedInv, ViewClosed, MarkIsLive
  <2> QED
    BY <2>2, <2>3
<1>8. FetchFromMark'
  BY <1>1, <1>2, SameFetches
<1>9. UNCHANGED Feed!feedVars
  BY <1>1 DEF Feed!feedVars
<1> QED
  BY <1>6, <1>7, <1>8, <1>9 DEF FeedInv, FeedKept

\* the start of a fetch from the watermark,
LEMMA EmitFeed ==
  ASSUME OneFeed, SerialInv, OwnInv, FeedInv, NEW l \in Links, EmitNewMail(l)
  PROVE  FeedKept
<1>1. UNCHANGED <<supVars, maps, session, server, history>>
  BY EmitEffect
<1>2. Mark' = Mark /\ client' = client /\ started' = started /\ pc' = pc
  BY <1>1 DEF Mark, supVars, threads
<1>3. ASSUME NEW k \in Links, Fetching(k)'
      PROVE  \/ /\ Fetching(k) /\ link'[k].above = link[k].above
                /\ link'[k].st = link[k].st /\ link'[k].got = link[k].got
             \/ link'[k].st = "fetching" /\ link'[k].above = Mark
  <2>1. link[l].box = 1
    BY EmitEffect, OneIsAll
  <2> QED
    BY <1>3, <2>1, EmitEffect, SettleType DEF Fetching, Mark
<1>4. FetchFromMark'
  BY <1>1, <1>2, <1>3 DEF FeedInv, FetchFromMark
<1> QED
  BY <1>1, <1>2, <1>4, QuietFeed DEF SerialInv

\* its rejection,
LEMMA RejectedFeed ==
  ASSUME OneFeed, SerialInv, OwnInv, FeedInv, NEW l \in Links, FetchRejected(l)
  PROVE  FeedKept
<1>1. UNCHANGED <<supVars, maps, session, server, history>>
  BY RejectedEffect
<1>2. Mark' = Mark /\ client' = client /\ started' = started /\ pc' = pc
  BY <1>1 DEF Mark, supVars, threads
<1>3. ASSUME NEW k \in Links, Fetching(k)'
      PROVE  /\ Fetching(k) /\ link'[k].above = link[k].above
             /\ link'[k].st = "listed" => link[k].st = "listed" /\ link'[k].got = link[k].got
  BY <1>3, RejectedEffect, SettleType DEF Fetching
<1>4. FetchFromMark'
  BY <1>1, <1>2, <1>3 DEF FeedInv, FetchFromMark
<1> QED
  BY <1>1, <1>2, <1>4, QuietFeed DEF SerialInv

\* its listing, which yields all from the watermark that the session was told of, or the
\* last message if that is none,
LEMMA ListedFeed ==
  ASSUME OneFeed, SerialInv, OwnInv, MarksInv, FeedInv, NEW l \in Links, FetchListed(l)
  PROVE  FeedKept
<1>1. UNCHANGED <<supVars, maps, session, server, history>>
  BY ListedEffect
<1>2. Mark' = Mark /\ client' = client /\ started' = started /\ pc' = pc
  BY <1>1 DEF Mark, supVars, threads
<1>3. ASSUME client # NoClient
      PROVE  \A g \in link'[l].got :
               g < uidNext[1] /\ \A u \in mail[1] : Mark < u /\ u <= g => u \in link'[l].got
  <2> DEFINE here == view[client] \cap mail[1]
             from == Mark + 1
  <2>1. Fetching(l) /\ link[l].box = 1
    BY ListedEffect, OneIsAll DEF Fetching, OwnInv, LinksAim
  <2>2. link[l].to = client /\ Mark # Unknown /\ link[l].above = Mark
    BY <1>3, <2>1 DEF MarksInv, FetchesHold, FeedInv, FetchFromMark, Mark
  <2>3. selected[client] = 1
    BY <2>2 DEF FeedInv, MarkIsLive
  <2>4. link'[l].got = FetchAll(client, from)
    BY <2>2, ListedEffect DEF RangeStart
  <2>5. FetchAll(client, from) = LET new == {u \in here : u >= from}
                                 IN  IF new = {} /\ here # {} THEN {Max(here)} ELSE new
    BY <2>3 DEF FetchAll
  <2>6. /\ here \in SUBSET Uids /\ here \subseteq mail[1] /\ Mark \in Int
        /\ mail[1] \in SUBSET Uids /\ \A u \in Uids : u \in Nat
    BY FeedFacts
  <2>7. \A v \in here : v < uidNext[1] /\ \A u \in mail[1] : u <= v => u \in here
    BY <2>2 DEF FeedInv, ViewClosed
  <2>8. here # {} => Max(here) \in here
    BY <2>6, UidSets
  <2> HIDE DEF here
  <2>9. CASE {u \in here : u >= from} = {} /\ here # {}
    <3>1. link'[l].got = {Max(here)}
      BY <2>4, <2>5, <2>9
    <3>2. Max(here) \in here /\ ~(Max(here) >= from) /\ Max(here) \in Nat
      BY <2>6, <2>8, <2>9
    <3>3. \A u \in mail[1] : ~(Mark < u /\ u <= Max(here))
      BY <2>6, <3>2
    <3> QED
      BY <2>7, <3>1, <3>2, <3>3
  <2>10. CASE ~({u \in here : u >= from} = {} /\ here # {})
    <3>1. link'[l].got = {u \in here : u >= from}
      BY <2>4, <2>5, <2>10
    <3>2. \A u \in mail[1] : Mark < u => u >= from
      BY <2>6
    <3> QED
      BY <2>7, <3>1, <3>2
  <2> QED
    BY <2>9, <2>10
<1>4. ASSUME NEW k \in Links, Fetching(k)'
      PROVE  /\ Fetching(k) /\ link'[k].above = link[k].above
             /\ k # l => link'[k] = link[k]
  BY <1>4, ListedEffect DEF Fetching
<1>5. FetchFromMark'
  BY <1>1, <1>2, <1>3, <1>4 DEF FeedInv, FetchFromMark
<1> QED
  BY <1>1, <1>2, <1>5, QuietFeed DEF SerialInv

\* (arithmetic of the history)
LEMMA TwoAtMost == \A n \in 0..2 : n = 0 => Min({2, n + 1}) = 1
<1>1. \A y \in {2, 1} : 1 <= y
  OBVIOUS
<1>2. Min({2, 1}) = 1
  <2>1. \E x \in {2, 1} : \A y \in {2, 1} : x <= y
    BY <1>1
  <2>2. Min({2, 1}) \in {2, 1} /\ \A y \in {2, 1} : Min({2, 1}) <= y
    BY <2>1 DEF Min
  <2> QED
    BY <2>2
<1> QED
  BY <1>2

\* (Max and Min mean the same in NewMailFeed)
LEMMA FeedMax == \A S \in SUBSET Uids : Feed!Max(S) = Max(S)
BY DEF Feed!Max, Max

\* (likewise)
LEMMA FeedMin == \A n \in 0..2 : Feed!Min({2, n + 1}) = Min({2, n + 1})
BY DEF Feed!Min, Min

\* (a batch that starts at the watermark is a Report of NewMailFeed)
LEMMA BatchReported ==
  ASSUME OneFeed, OwnInv, FeedInv, Mark # Unknown,
         NEW S \in SUBSET Uids, S # {}, Max(S) \in S,
         \A u \in S : u <= Max(S) /\ u > Mark,
         \A g \in S : g < uidNext[1] /\ \A u \in mail[1] : Mark < u /\ u <= g => u \in S,
         Mark' = Max(S),
         reports'[1] = [u \in Uids |-> IF u \in S THEN Min({2, reports[1][u] + 1})
                                       ELSE reports[1][u]],
         UNCHANGED <<mail, uidNext>>
  PROVE  /\ \A u \in Uids : reports'[1][u] = IF u \in S THEN 1 ELSE reports[1][u]
         /\ Feed!Report(S)
<1>1. /\ Mark \in Int /\ reports[1] \in [Uids -> 0..2] /\ mail[1] \in SUBSET Uids
      /\ uidNext[1] \in Nat /\ \A u \in Uids : u \in Nat
  BY FeedFacts
<1>2. \A u \in S : reports[1][u] = 0
  <2> SUFFICES ASSUME NEW u \in S PROVE reports[1][u] = 0
    OBVIOUS
  <2>1. u \in Uids /\ u \in Nat /\ u > Mark /\ reports[1][u] \in 0..2
    BY <1>1
  <2>2. reports[1][u] > 0 => u <= Mark
    BY <2>1 DEF FeedInv, MarkIsRight
  <2> QED
    BY <1>1, <2>1, <2>2
<1>3. \A u \in S : Min({2, reports[1][u] + 1}) = 1
  <2> SUFFICES ASSUME NEW u \in S PROVE Min({2, reports[1][u] + 1}) = 1
    OBVIOUS
  <2>1. reports[1][u] = 0
    BY <1>2
  <2>2. 0 \in 0..2
    OBVIOUS
  <2> QED
    BY <2>1, <2>2, TwoAtMost
<1>4. \A u \in Uids : reports'[1][u] = IF u \in S THEN 1 ELSE reports[1][u]
  BY <1>3
<1>5. Feed!Max(S) = Max(S)
  BY FeedMax
<1>6. \A u \in Uids : Feed!Min({2, reports[1][u] + 1}) = Min({2, reports[1][u] + 1})
  BY <1>1, FeedMin
<1>7. mailboxUidWatermarks[1] # Feed!Unknown
  BY DEF Feed!Unknown, Unknown, Mark
<1>8. \A u \in S : mailboxUidWatermarks[1] < u /\ u < uidNext[1]
  BY <1>1 DEF Mark
<1>9. \A u \in mail[1] : mailboxUidWatermarks[1] < u /\ u <= Feed!Max(S) => u \in S
  BY <1>5 DEF Mark
<1>10. (mailboxUidWatermarks[1])' = Feed!Max(S)
  BY <1>5 DEF Mark
<1>11. (reports[1])' = [u \in Feed!Uids |-> IF u \in S THEN Feed!Min({2, reports[1][u] + 1})
                                            ELSE reports[1][u]]
  BY <1>6 DEF Feed!Uids, Uids
<1>12. Feed!Report(S)
  BY <1>7, <1>8, <1>9, <1>10, <1>11 DEF Feed!Report
<1> QED
  BY <1>4, <1>12

\* its resolution, which reports them (Report),
LEMMA ResolvedFeed ==
  ASSUME OneFeed, SerialInv, OwnInv, Calm, Chain, MarksInv, FeedInv,
         NEW l \in Links, FetchResolved(l)
  PROVE  FeedKept
<1>1. /\ link[l].st = "listed" /\ Fetching(l) /\ Settle(l) /\ Answers(link[l].to)
      /\ UNCHANGED <<supVars, mailboxUidValidity, session, server, baseline>>
      /\ NewUids(l) \in SUBSET Uids
  BY ResolvedEffect
<1>2. client' = client /\ started' = started /\ pc' = pc
  BY <1>1 DEF supVars, threads
<1>3. link[l].box = 1
  BY <1>1, ResolvedEffect, OneIsAll
<1>4. client # NoClient
  <2>1. link[l].to \in Clients /\ Up(link[l].to)
    BY <1>1 DEF OwnInv, LinksAim, Answers, OneFeed
  <2>2. pc[link[l].to] # "connecting"
    BY <1>1, <2>1 DEF Chain, LinksWait, Busy
  <2> QED
    BY <2>1, <2>2, SupervisionAssumption DEF SerialInv, UpIsOwned
<1>5. Mark # Unknown /\ link[l].above = Mark
  BY <1>1, <1>3, <1>4 DEF MarksInv, FetchesHold, FeedInv, FetchFromMark, Mark
<1>6. FetchFromMark'
  <2>1. \A k \in Links : Fetching(k) => k = l
    BY <1>1 DEF Chain, ChainOrder, Busy, Fetching
  <2>2. \A k \in Links : ~Fetching(k)'
    BY <1>1, <2>1, SettleType DEF Fetching
  <2> QED
    BY <2>2 DEF FetchFromMark
<1>7. CASE NewUids(l) = {}
  <2>1. UNCHANGED <<mailboxUidWatermarks, reports>>
    BY <1>7, ResolvedEffect
  <2> QED
    BY <1>1, <1>2, <1>6, <2>1, QuietFeed DEF SerialInv
<1>8. CASE NewUids(l) # {}
  <2> DEFINE S == NewUids(l)
  <2>1. /\ S \in SUBSET Uids /\ S \in SUBSET link[l].got /\ Max(S) \in S /\ Max(S) \in Nat
        /\ \A u \in S : u <= Max(S) /\ u > Mark
    BY <1>1, <1>5, <1>8, NewMark
  <2>2. Mark' = Max(S)
    <3>1. mailboxUidWatermarks' = [mailboxUidWatermarks EXCEPT ![1] = Max(S)]
      BY <1>3, <1>8, ResolvedEffect
    <3>2. mailboxUidWatermarks \in [Mailboxes -> Int] /\ 1 \in Mailboxes
      BY OneIsAll DEF OwnInv, OwnTypeOK
    <3> HIDE DEF S
    <3> QED
      BY <3>1, <3>2 DEF Mark
  <2>3. reports'[1] = [u \in Uids |-> IF u \in S THEN Min({2, reports[1][u] + 1})
                                      ELSE reports[1][u]]
    <3>1. reports' = [reports EXCEPT ![1] =
                        [u \in Uids |-> IF u \in S THEN Min({2, @[u] + 1}) ELSE @[u]]]
      BY <1>3, <1>8, ResolvedEffect
    <3>2. reports \in [Mailboxes -> [Uids -> 0..2]] /\ 1 \in Mailboxes
      BY OneIsAll DEF OwnInv, OwnTypeOK
    <3> HIDE DEF S
    <3> QED
      BY <3>1, <3>2
  <2>4. \A g \in S : g < uidNext[1] /\ \A u \in mail[1] : Mark < u /\ u <= g => u \in S
    <3>1. \A g \in link[l].got :
            g < uidNext[1] /\ \A u \in mail[1] : Mark < u /\ u <= g => u \in link[l].got
      BY <1>1, <1>4 DEF FeedInv, FetchFromMark
    <3>2. S = {u \in link[l].got : u > Mark}
      BY <1>5 DEF NewUids
    <3>3. mail[1] \in SUBSET Uids /\ Mark \in Int /\ \A u \in Uids : u \in Nat
      BY FeedFacts
    <3> QED
      BY <3>1, <3>2, <3>3
  <2> HIDE DEF S
  <2>5. /\ \A u \in Uids : reports'[1][u] = IF u \in S THEN 1 ELSE reports[1][u]
        /\ Feed!Report(S)
    BY <1>1, <1>5, <1>8, <2>1, <2>2, <2>3, <2>4, BatchReported DEF S
  <2>6. /\ Mark \in Int /\ mail[1] \in SUBSET Uids /\ reports[1] \in [Uids -> 0..2]
        /\ uidNext[1] \in Nat /\ \A u \in Uids : u \in Nat
    BY FeedFacts
  <2>7. Numbered'
    BY <1>1, <2>1, <2>4, <2>5 DEF FeedInv, Numbered
  <2>8. NoDuplicateNewMail'
    <3>1. \A u \in Uids : reports'[1][u] <= 1
      BY <2>5, OneIsAll DEF FeedInv, NoDuplicateNewMail
    <3> QED
      BY <3>1, OneIsAll DEF NoDuplicateNewMail
  <2>9. MarkIsLive'
    BY <1>1, <1>2, <1>5 DEF FeedInv, MarkIsLive
  <2>10. MarkIsRight'
    <3>1. Mark' \in Nat /\ Mark' < uidNext[1]
      BY <2>1, <2>2, <2>4
    <3>2. Mark' >= Mark
      BY <2>1, <2>2, <2>6
    <3>3. \A u \in Uids : reports'[1][u] > 0 => u <= Mark'
      BY <1>5, <2>1, <2>2, <2>5, <2>6, <3>2 DEF FeedInv, MarkIsRight
    <3>4. \A u \in mail[1] : u <= Mark' => u \in Accounted(1)'
      <4> SUFFICES ASSUME NEW u \in mail[1], u <= Mark'
                   PROVE  u \in Uids /\ (u <= baseline[1] \/ reports'[1][u] > 0)
        BY <1>1 DEF Accounted
      <4>1. u \in Uids /\ u \in Nat
        BY <2>6
      <4>2. CASE u <= Mark
        <5>1. u <= baseline[1] \/ reports[1][u] > 0
          BY <1>5, <4>2 DEF FeedInv, MarkIsRight, Accounted
        <5> QED
          BY <2>5, <4>1, <5>1
      <4>3. CASE Mark < u
        <5>1. u \in S
          BY <2>1, <2>2, <2>4, <4>3
        <5> QED
          BY <2>5, <4>1, <5>1
      <4> QED
        BY <2>6, <4>1, <4>2, <4>3
    <3> QED
      BY <1>1, <3>1, <3>3, <3>4 DEF MarkIsRight
  <2>11. ViewClosed'
    BY <1>1, <1>2, <1>5 DEF FeedInv, ViewClosed
  <2>12. Feed!FeedNext
    <3>1. S \in Feed!Batches
      BY <1>8, <2>1 DEF Feed!Batches, Feed!Uids, Uids, S
    <3> QED
      BY <2>5, <3>1 DEF Feed!FeedNext
  <2> QED
    BY <1>6, <2>7, <2>8, <2>9, <2>10, <2>11, <2>12 DEF FeedInv, FeedKept
<1> QED
  BY <1>7, <1>8

\* an arrival (Arrive),
LEMMA DeliverFeed ==
  ASSUME OneFeed, SerialInv, OwnInv, FeedInv, NEW m \in Mailboxes, Deliver(m)
  PROVE  FeedKept
<1>1. m = 1
  BY OneIsAll
<1>2. /\ UNCHANGED <<supVars, maps, link, session, uidValidity, history>>
      /\ uidNext[1] <= MaxUid /\ mail'[1] = mail[1] \cup {uidNext[1]}
      /\ uidNext'[1] = uidNext[1] + 1
  BY <1>1, OneIsAll DEF Deliver, OwnInv, OwnTypeOK
<1>3. Mark' = Mark /\ client' = client /\ started' = started /\ pc' = pc
  BY <1>2 DEF Mark, supVars, threads
<1>4. /\ mail[1] \in SUBSET Uids /\ uidNext[1] \in Nat /\ Mark \in Int
      /\ client \in Clients => view[client] \in SUBSET Uids
      /\ reports[1] \in [Uids -> 0..2] /\ \A u \in Uids : u \in Nat
  BY FeedFacts
<1>5. Numbered'
  BY <1>2, <1>4 DEF FeedInv, Numbered
<1>6. NoDuplicateNewMail'
  BY <1>2 DEF FeedInv, NoDuplicateNewMail
<1>7. MarkIsLive'
  BY <1>2, <1>3 DEF FeedInv, MarkIsLive
<1>8. MarkIsRight'
  BY <1>2, <1>3, <1>4 DEF FeedInv, MarkIsRight, Accounted
<1>9. ASSUME NEW v \in Nat, v < uidNext[1], NEW u \in mail'[1], u <= v
      PROVE  u \in mail[1] /\ v < uidNext'[1]
  BY <1>2, <1>4, <1>9
<1>10. \A v \in Nat : v < uidNext[1] => v < uidNext'[1]
  BY <1>2, <1>4
<1>11. ViewClosed'
  <2> SUFFICES ASSUME Mark # Unknown, NEW v \in view[client]
               PROVE  v < uidNext'[1] /\ \A u \in mail'[1] : u <= v => u \in view[client]
    BY <1>2, <1>3 DEF ViewClosed
  <2>1. client \in Clients
    BY DEF FeedInv, MarkIsLive, SerialInv, SupTypeOK
  <2>2. v \in Nat /\ v < uidNext[1] /\ \A u \in mail[1] : u <= v => u \in view[client]
    BY <1>4, <2>1 DEF FeedInv, ViewClosed
  <2> QED
    BY <1>9, <1>10, <2>2
<1>12. FetchFromMark'
  <2>1. \A k \in Links : Fetching(k)' <=> Fetching(k)
    BY <1>2 DEF Fetching
  <2> SUFFICES ASSUME client # NoClient, NEW k \in Links, Fetching(k)
               PROVE  /\ link[k].above = Mark
                      /\ link[k].st = "listed" =>
                           \A g \in link[k].got :
                             /\ g < uidNext'[1]
                             /\ \A u \in mail'[1] : Mark < u /\ u <= g => u \in link[k].got
    BY <1>2, <1>3, <2>1 DEF FetchFromMark
  <2>2. link[k].got \in SUBSET Uids
    BY DEF OwnInv, OwnTypeOK, LinkRecords
  <2> QED
    BY <1>4, <1>9, <1>10, <2>2 DEF FeedInv, FetchFromMark
<1>13. Feed!FeedNext
  BY <1>2 DEF Feed!FeedNext, Feed!Arrive
<1> QED
  BY <1>5, <1>6, <1>7, <1>8, <1>11, <1>12, <1>13 DEF FeedInv, FeedKept

\* a removal (Expunge),
LEMMA PurgeFeed ==
  ASSUME OneFeed, OwnInv, FeedInv, NEW m \in Mailboxes, Purge(m)
  PROVE  FeedKept
<1>1. m = 1
  BY OneIsAll
<1>2. UNCHANGED <<supVars, maps, link, session, uidNext, uidValidity, history>>
  BY DEF Purge
<1>3. PICK x \in mail[1] : mail' = [mail EXCEPT ![1] = @ \ {x}]
  BY <1>1 DEF Purge
<1>4. mail'[1] = mail[1] \ {x}
  BY <1>3, OneIsAll DEF OwnInv, OwnTypeOK
<1>5. Mark' = Mark /\ client' = client /\ started' = started /\ pc' = pc
  BY <1>2 DEF Mark, supVars, threads
<1>6. Numbered' /\ NoDuplicateNewMail' /\ MarkIsLive' /\ MarkIsRight' /\ ViewClosed'
  BY <1>2, <1>4, <1>5 DEF FeedInv, Numbered, NoDuplicateNewMail, MarkIsLive,
                          MarkIsRight, Accounted, ViewClosed
<1>7. FetchFromMark'
  <2>1. \A k \in Links : Fetching(k)' <=> Fetching(k)
    BY <1>2 DEF Fetching
  <2> QED
    BY <1>2, <1>4, <1>5, <2>1 DEF FeedInv, FetchFromMark
<1>8. Feed!FeedNext
  BY <1>2, <1>4 DEF Feed!FeedNext, Feed!Expunge
<1> QED
  BY <1>6, <1>7, <1>8 DEF FeedInv, FeedKept

\* and a renumbering, which finds no watermark: a session that is up has the mailbox
\* selected.
LEMMA RebuildFeed ==
  ASSUME OneFeed, SerialInv, OwnInv, MarksInv, FeedInv, NEW m \in Mailboxes, Rebuild(m)
  PROVE  FeedKept
<1>1. m = 1
  BY OneIsAll
<1>2. /\ UNCHANGED <<supVars, maps, link, session, baseline>>
      /\ \A c \in Clients : conn[c] \in {"up", "leaving"} => selected[c] # 1
      /\ mail'[1] = 1..Cardinality(mail[1]) /\ uidNext'[1] = Cardinality(mail[1]) + 1
      /\ reports'[1] = [u \in Uids |-> 0]
  BY <1>1, OneIsAll DEF Rebuild, OwnInv, OwnTypeOK
<1>3. Mark' = Mark /\ client' = client
  BY <1>2 DEF Mark, supVars
<1>4. Mark = Unknown
  <2> SUFFICES ASSUME Mark # Unknown PROVE FALSE
    OBVIOUS
  <2>1. /\ started /\ client \in Clients /\ client # NoClient /\ selected[client] = 1
        /\ pc[client] # "failing"
    BY DEF FeedInv, MarkIsLive, SerialInv, SupTypeOK
  <2>2. conn[client] = "up"
    BY <2>1 DEF SerialInv, ClientIsHeard, Up
  <2> QED
    BY <1>2, <2>1, <2>2
<1>5. FetchFromMark'
  <2>1. client # NoClient => \A k \in Links : ~Fetching(k)
    BY <1>4, OneIsAll DEF MarksInv, FetchesHold, OwnInv, LinksAim, Mark, Fetching
  <2> QED
    BY <1>2, <1>3, <2>1 DEF FetchFromMark, Fetching
<1>6. Numbered'
  <2>1. Cardinality(mail[1]) \in Nat
    BY FeedFacts, UidSets, WatcherAssumption
  <2> QED
    BY <1>2, <2>1 DEF Numbered
<1>7. NoDuplicateNewMail'
  BY <1>2, OneIsAll DEF NoDuplicateNewMail
<1>8. MarkIsLive' /\ MarkIsRight' /\ ViewClosed'
  BY <1>3, <1>4 DEF MarkIsLive, MarkIsRight, ViewClosed
<1> QED
  BY <1>5, <1>6, <1>7, <1>8 DEF FeedInv, FeedKept

\* (the three together)
LEMMA ServerFeed ==
  ASSUME OneFeed, SerialInv, OwnInv, MarksInv, FeedInv, NEW m \in Mailboxes,
         Deliver(m) \/ Purge(m) \/ Rebuild(m)
  PROVE  FeedKept
BY DeliverFeed, PurgeFeed, RebuildFeed

\* Every step,
LEMMA FeedNextStep ==
  ASSUME OneFeed, SerialInv, SerialInv', OwnInv, Calm, Chain, MarksInv, FeedInv, [Next]_vars
  PROVE  FeedKept
<1>1. CASE UNCHANGED vars
  <2>1. FetchFromMark'
    BY <1>1, SameFetches DEF vars, supVars, ownVars, maps, server, enrichment
  <2> QED
    BY <1>1, <2>1, QuietFeed
    DEF vars, supVars, threads, ownVars, maps, session, server, history, SerialInv
<1>2. CASE StopWatcher
  BY <1>2, LostFeed DEF StopWatcher, Stop, StopNow, ForgetMailboxes
<1>3. CASE TimerExpires /\ UNCHANGED ownVars
  <2>1. /\ UNCHANGED <<client, started, pc, link, mailboxUidWatermarks, mailboxUidValidity>>
        /\ UNCHANGED <<session, server, history>>
    BY <1>3 DEF TimerExpires, threads, ownVars, enrichment, maps
  <2>2. FetchFromMark'
    BY <2>1, SameFetches
  <2> QED
    BY <2>1, <2>2, QuietFeed DEF SerialInv, session
<1>4. ASSUME NEW t \in Clients, Settlement(t)
      PROVE  FeedKept
  BY <1>4, ConnectedFeed, ForgetFeed, OpenedFeed, ThreadFeed DEF Settlement
<1>5. ASSUME NEW c \in Clients,
             \/ StartWatcher(c) \/ ReconnectTimerFires(c)
             \/ IdleResolved(c) \/ IdleRejected(c)
             \/ ConnectionEvent(c) \/ HandleExists(c) \/ HandleExpunge(c)
      PROVE  FeedKept
  BY <1>5, StartFeed, ThreadFeed, ForgetFeed, ExistsFeed, ExpungeFeed
<1>6. CASE Callbacks
  BY <1>6, EmitFeed, ThreadFeed DEF Callbacks
<1>7. CASE Events
  BY <1>2, <1>3, <1>4, <1>5, <1>7, ListedFeed, ResolvedFeed, RejectedFeed, ServerFeed DEF Events
<1> QED
  BY <1>1, <1>6, <1>7 DEF Next

\* from the initial state on,
LEMMA FeedInit == ASSUME OneFeed, Init PROVE FeedInv
<1>1. Mark = Unknown /\ client = NoClient
  BY OneIsAll DEF Init, SupInit, AllUnknown, Mark
<1>2. mail[1] = {} /\ \A u \in Uids : reports[1][u] = 0
  BY OneIsAll DEF Init
<1>3. \A m \in Mailboxes : \A u \in Uids : reports[m][u] <= 1
  BY <1>2, OneIsAll
<1> QED
  BY <1>1, <1>2, <1>3 DEF FeedInv, Numbered, MarkIsLive, MarkIsRight, ViewClosed, FetchFromMark,
                          NoDuplicateNewMail

\* and so always, for one mailbox.
LEMMA FeedInvariant ==
  ASSUME OneFeed PROVE Spec => [](SerialInv /\ OwnInv /\ Calm /\ Chain /\ MarksInv /\ FeedInv)
<1>1. Serial
  BY DEF OneFeed
<1>2. SupSpec => []SerialInv
  BY <1>1, SerialInvariant
<1>3. SupSpec => []Calm
  BY CalmInvariant
<1>4. Spec => []Chain
  BY <1>1, ChainInvariant
<1>5. Spec => []MarksInv
  BY <1>1, MarksInvariant
<1>6. Init => FeedInv
  BY FeedInit
<1>7. SerialInv /\ SerialInv' /\ OwnInv /\ Calm /\ Chain /\ MarksInv /\ FeedInv /\ [Next]_vars =>
        FeedInv'
  BY FeedNextStep DEF FeedKept
<1> QED
  BY <1>2, <1>3, <1>4, <1>5, <1>6, <1>7, WatcherSupervised, TypedInvariant, PTL DEF Spec

(* For one mailbox: no message that is still there is passed over. What the *)
(* watermark covers was there when the baseline was taken or has had its   *)
(* newMail event, whatever FETCHes fail, whatever is removed or renumbered, *)
(* and whenever connections come and go.                                   *)
THEOREM NothingIsSkipped == ASSUME OneFeed PROVE Spec => []NothingSkipped
<1>1. OwnInv /\ MarksInv /\ FeedInv => NothingSkipped
  <2> SUFFICES ASSUME OwnInv, FeedInv, NEW u \in mail[1], u <= Mark
               PROVE  u \in Accounted(1)
    BY OneIsAll DEF NothingSkipped, Mark
  <2>1. u \in Nat /\ u >= 1
    BY FeedFacts
  <2>2. Mark # Unknown
    BY <2>1 DEF Unknown
  <2> QED
    BY <2>2 DEF FeedInv, MarkIsRight
<1> QED
  BY <1>1, FeedInvariant, PTL

(* For one mailbox that is not renumbered, the watcher implements          *)
(* NewMailFeed: seen from the mailbox, its watermark and the reports,      *)
(* connections, commands and promise chains come to nothing but arrivals,  *)
(* removals, baselines, losses and reports of whole batches.               *)
THEOREM FeedImplemented ==
  ASSUME OneFeed, "rebuild" \notin Faults PROVE Spec => ImplementsFeed
<1>1. Init => Feed!FeedInit
  <2> SUFFICES ASSUME Init PROVE Feed!FeedInit
    OBVIOUS
  <2>1. mail[1] = {} /\ uidNext[1] = 1 /\ mailboxUidWatermarks[1] = Unknown
    BY OneIsAll DEF Init, AllUnknown
  <2>2. reports[1] = [u \in Uids |-> 0]
    BY OneIsAll DEF Init
  <2> QED
    BY <2>1, <2>2 DEF Feed!FeedInit, Feed!Unknown, Unknown, Feed!Uids, Uids
<1>2. SerialInv /\ SerialInv' /\ OwnInv /\ Calm /\ Chain /\ MarksInv /\ FeedInv /\ [Next]_vars =>
        [Feed!FeedNext]_(Feed!feedVars)
  BY FeedNextStep DEF FeedKept, Rebuild
<1> QED
  BY <1>1, <1>2, FeedInvariant, PTL DEF Spec, ImplementsFeed, Feed!FeedSpec

-----------------------------------------------------------------------------
(* One mailbox, whatever attempts overlap and whatever is answered late.   *)

\* With one mailbox: types, for the arithmetic.
LEMMA SingleMailbox ==
  ASSUME Max(MailboxCounts) = 1, OwnInv
  PROVE  /\ Mailboxes = {1} /\ \A m \in 0..Max(MailboxCounts) : m # 0 => m = 1
         /\ mail[1] \in SUBSET Uids /\ uidNext[1] \in Nat /\ uidNext[1] >= 1
         /\ mailboxUidWatermarks \in [{1} -> Int] /\ Mark \in Int /\ baseline[1] \in Int
         /\ reports \in [{1} -> [Uids -> 0..2]] /\ reports[1] \in [Uids -> 0..2]
         /\ \A c \in Clients : view[c] \in SUBSET Uids /\ selected[c] \in {0, 1}
         /\ \A u \in Uids : u \in Nat /\ u >= 1
<1>1. Mailboxes = {1} /\ 0..Max(MailboxCounts) = {0, 1}
  BY DEF Mailboxes
<1>2. \A u \in Uids : u \in Nat /\ u >= 1
  BY WatcherAssumption DEF Uids
<1> QED
  BY <1>1, <1>2 DEF OwnInv, OwnTypeOK, Mark

\* The server still has the session of client c.
Open(c) == conn[c] \in {"up", "leaving"}

\* What most handlers leave alone, or forget.
LEMMA PlainEffect ==
  ASSUME SupTypeOK, NEW t \in Clients,
         \/ ConnectedAfterStop(t) \/ ConnectedOpensFirst(t) \/ AttemptRejected(t)
         \/ ReconnectFailed(t) \/ SupervisionOnly(t) \/ NextOpenRejected(t)
         \/ IdleResolved(t) \/ IdleRejected(t) \/ EnrichmentDrained(t) \/ ConnectionEvent(t)
  PROVE  /\ UNCHANGED <<link, session, server, history>>
         /\ mailboxUidWatermarks' \in {mailboxUidWatermarks, AllUnknown}
         /\ \A c \in Clients : Open(c)' => Open(c)
<1> DEFINE C == \A c \in Clients : Open(c)' => Open(c)
<1>0. conn \in [Clients -> ConnStates] /\ client \in Clients \cup {NoClient}
  BY DEF SupTypeOK
<1>1. ASSUME NEW cs, cs \in [Clients -> ConnStates], NEW x \in Clients \cup {NoClient},
             conn' = LogOut(cs, x), \A c \in Clients : cs[c] \in {"up", "leaving"} => Open(c)
      PROVE  C
  BY <1>1 DEF LogOut, Open
<1>2. ASSUME NEW c \in Clients, NEW after \in {"errored", "closed"},
             conn' = [conn EXCEPT ![c] = after]
      PROVE  C
  BY <1>0, <1>2 DEF Open
<1>3. CASE ConnectedAfterStop(t)
  BY <1>0, <1>1, <1>3 DEF ConnectedAfterStop, ConnectAfterStop, StopNow, ForgetMailboxes, Open
<1>4. CASE ConnectedOpensFirst(t)
  BY <1>4 DEF ConnectedOpensFirst, ConnectThenOpen, wiring, Open
<1>5. CASE AttemptRejected(t)
  BY <1>0, <1>1, <1>5 DEF AttemptRejected, AttemptFails, Open
<1>6. CASE ReconnectFailed(t) \/ NextOpenRejected(t)
  <2>1. conn' = LogOut(conn, client)
    BY <1>6 DEF ReconnectFailed, HandleReconnectFailure, NextOpenRejected, ReopenFails,
           HandleConnectionDrop, ReleaseClient
  <2>2. C
    BY <1>0, <1>1, <2>1 DEF Open
  <2> QED
    BY <1>6, <2>2 DEF ReconnectFailed, NextOpenRejected, ForgetMailboxes
<1>7. CASE SupervisionOnly(t)
  <2>1. conn' = conn \/ conn' = [conn EXCEPT ![t] = "closed"]
    BY <1>7 DEF SupervisionOnly, ConnectNothingToWatch, StartRejects, StopUnwinds,
           LogoutCompletes, ErrorWithoutListener, wiring
  <2>2. C
    BY <1>2, <2>1 DEF Open
  <2> QED
    BY <1>7, <2>2 DEF SupervisionOnly
<1>8. CASE IdleResolved(t) \/ EnrichmentDrained(t)
  BY <1>8 DEF IdleResolved, IdleEnds, EnrichmentDrained, DrainedStale, DrainedIdleAgain,
         DrainedReopen, wiring, Open
<1>9. CASE IdleRejected(t)
  <2>1. conn' = conn \/ conn' = LogOut(conn, client)
    BY <1>9 DEF IdleRejected, IdleFails, HandleConnectionDrop, ReleaseClient, wiring
  <2>2. C
    BY <1>0, <1>1, <2>1 DEF Open
  <2> QED
    BY <1>9, <2>2 DEF IdleRejected, ForgetMailboxes
<1>10. CASE ConnectionEvent(t)
  <2>1. PICK after \in {"errored", "closed"} :
          \/ conn' = [conn EXCEPT ![t] = after]
          \/ conn' = LogOut([conn EXCEPT ![t] = after], client)
    BY <1>10 DEF ConnectionEvent, HandleError, HandleClose, ClientEvent,
           HandleConnectionDrop, ReleaseClient
  <2>2. C
    <3>1. /\ [conn EXCEPT ![t] = after] \in [Clients -> ConnStates]
          /\ \A c \in Clients : [conn EXCEPT ![t] = after][c] \in {"up", "leaving"} => Open(c)
      BY <1>0 DEF ConnStates, Open
    <3> QED
      BY <1>0, <1>1, <1>2, <2>1, <3>1
  <2> QED
    BY <1>10, <2>2 DEF ConnectionEvent, ForgetMailboxes
<1> QED
  BY <1>3, <1>4, <1>5, <1>6, <1>7, <1>8, <1>9, <1>10

\* stop() likewise, and a timer that expires in vain.
LEMMA StopEffect ==
  ASSUME SupTypeOK, \/ StopWatcher
                    \/ TimerExpires /\ UNCHANGED ownVars
  PROVE  /\ UNCHANGED <<link, session, server, history>>
         /\ mailboxUidWatermarks' \in {mailboxUidWatermarks, AllUnknown}
         /\ \A c \in Clients : Open(c)' => Open(c)
<1>1. CASE StopWatcher
  <2>1. conn' = LogOut(conn, client)
    BY <1>1 DEF StopWatcher, Stop, StopNow
  <2>2. \A c \in Clients : Open(c)' => Open(c)
    BY <2>1 DEF LogOut, Open, SupTypeOK
  <2> QED
    BY <1>1, <2>2 DEF StopWatcher, ForgetMailboxes
<1>2. CASE TimerExpires /\ UNCHANGED ownVars
  BY <1>2 DEF TimerExpires, wiring, Open
<1> QED
  BY <1>1, <1>2

\* A new client starts with an empty session, and no fetch is addressed to it.
LEMMA FreshEffect ==
  ASSUME SupTypeOK, OwnInv, NEW c \in Clients, StartWatcher(c) \/ ReconnectTimerFires(c)
  PROVE  /\ UNCHANGED <<link, maps, server, history>>
         /\ \A l \in Links : link[l].to # c
         /\ view'[c] = {}
         /\ \A x \in Clients : x # c => /\ view'[x] = view[x] /\ selected'[x] = selected[x]
                                        /\ Open(x)' => Open(x)
<1>1. /\ UNCHANGED <<link, maps, server, history>>
      /\ FreshClient(c) /\ conn' = [conn EXCEPT ![c] = "up"]
  BY DEF StartWatcher, Start, ReconnectTimerFires, TimerFires, ConnectAndWatch
<1> QED
  BY <1>1 DEF FreshClient, OwnInv, OwnTypeOK, SupTypeOK, Open

\* An open that resolves shows the session all of the mailbox, and moves the watermark at
\* most to UIDNEXT - 1.
LEMMA OpenEffect ==
  ASSUME Max(MailboxCounts) = 1, SupTypeOK, OwnInv, NEW t \in Clients,
         FirstOpened(t) \/ NextOpened(t)
  PROVE  /\ UNCHANGED <<link, server, reports, conn>>
         /\ on[t] \in Clients /\ view'[on[t]] = mail[1] /\ selected'[on[t]] = 1
         /\ \A x \in Clients : x # on[t] => /\ view'[x] = view[x] /\ selected'[x] = selected[x]
         /\ \/ Mark' = Mark /\ baseline'[1] = baseline[1]
            \/ Mark' = uidNext[1] - 1 /\ baseline'[1] = uidNext[1] - 1
<1>1. /\ pc[t] \in {"opening", "reopening"} /\ MailboxOpened(t)
      /\ UNCHANGED <<link, server, reports, conn>>
  BY DEF FirstOpened, OpenOk, NextOpened, ReopenOk, wiring
<1>2. opens[t] = 1 /\ opens[t] \in Mailboxes
  BY <1>1, SingleMailbox DEF OwnInv, OpensMailbox
<1>3. on[t] \in Clients
  BY DEF SupTypeOK
<1>4. /\ selected' = [selected EXCEPT ![on[t]] = 1]
      /\ view' = [view EXCEPT ![on[t]] = mail[1]]
  BY <1>1, <1>2 DEF MailboxOpened
<1>5. \/ Mark' = Mark /\ baseline'[1] = baseline[1]
      \/ Mark' = uidNext[1] - 1 /\ baseline'[1] = uidNext[1] - 1
  BY <1>1, <1>2, OpenedMaps DEF Mark
<1> QED
  BY <1>1, <1>3, <1>4, <1>5 DEF OwnInv, OwnTypeOK

\* EXISTS shows the session what is there, and starts no fetch yet.
LEMMA ExistsEffect ==
  ASSUME Max(MailboxCounts) = 1, OwnInv, NEW c \in Clients, HandleExists(c)
  PROVE  /\ UNCHANGED <<supVars, mailboxUidWatermarks, selected, server, history>>
         /\ view'[c] = view[c] \cup mail[1]
         /\ \A x \in Clients : x # c => view'[x] = view[x]
         /\ \A k \in Links : link'[k].st = "waiting" \/ link'[k] = link[k]
<1>1. /\ UNCHANGED <<supVars, mailboxUidWatermarks, selected, server, history>>
      /\ selected[c] # 0 /\ view' = [view EXCEPT ![c] = @ \cup mail[selected[c]]]
  BY DEF HandleExists
<1>2. selected[c] = 1
  BY <1>1, SingleMailbox
<1>3. \A k \in Links : link'[k].st = "waiting" \/ link'[k] = link[k]
  <2>1. CASE link' = link
    BY <2>1
  <2>2. CASE activeMailbox # 0 /\ ChainEnrichment(activeMailbox)
    <3>1. PICK l \in Links :
            link' = [link EXCEPT ![l] = NewLink(activeMailbox, pendingEnrichment)]
      BY <2>2 DEF ChainEnrichment
    <3>2. /\ NewLink(activeMailbox, pendingEnrichment).st = "waiting"
          /\ link \in [Links -> LinkRecords]
      BY <2>2, MailboxRange, NewLinkType DEF OwnInv, OwnTypeOK
    <3> QED
      BY <3>1, <3>2
  <2> QED
    BY <2>1, <2>2 DEF HandleExists
<1> QED
  BY <1>1, <1>2, <1>3 DEF OwnInv, OwnTypeOK

\* EXPUNGE takes out of a session one message that is gone.
LEMMA ExpungeEffect ==
  ASSUME Max(MailboxCounts) = 1, OwnInv, NEW c \in Clients, HandleExpunge(c)
  PROVE  /\ UNCHANGED <<supVars, mailboxUidWatermarks, link, selected, server, history>>
         /\ \E u \in view[c] \ mail[1] : view'[c] = view[c] \ {u}
         /\ \A x \in Clients : x # c => view'[x] = view[x]
<1>1. /\ UNCHANGED <<supVars, mailboxUidWatermarks, link, selected, server, history>>
      /\ selected[c] # 0
  BY DEF HandleExpunge
<1>2. selected[c] = 1
  BY <1>1, SingleMailbox
<1>3. PICK u \in view[c] \ mail[1] : view' = [view EXCEPT ![c] = @ \ {u}]
  BY <1>2 DEF HandleExpunge
<1> QED
  BY <1>1, <1>3 DEF OwnInv, OwnTypeOK

\* All that is there up to n has been accounted for.
CoveredTo(n) == n < uidNext[1] /\ \A u \in mail[1] : u <= n => u \in Accounted(1)

\* UIDNEXT is above every message and the baseline.
NextIsAbove == baseline[1] < uidNext[1] /\ \A u \in mail[1] : u < uidNext[1]

\* Every session was told of the messages in their order.
SessionsClosed ==
  \A c \in Clients : \A v \in view[c] :
    v < uidNext[1] /\ \A u \in mail[1] : u <= v => u \in view[c]

\* Every fetch starts from where all is covered, and its result has no gap.
FetchesClosed ==
  \A l \in Links : Fetching(l) =>
    /\ CoveredTo(link[l].above)
    /\ link[l].st = "listed" =>
         \A g \in link[l].got :
           /\ g < uidNext[1]
           /\ \A u \in mail[1] : link[l].above < u /\ u <= g => u \in link[l].got

\* Nothing passed over, inductively.
CoverInv == NextIsAbove /\ SessionsClosed /\ FetchesClosed /\ CoveredTo(Mark)

\* The fetches of after the step were there before it.
OldFetches ==
  \A k \in Links : Fetching(k)' =>
    /\ Fetching(k) /\ link'[k].above = link[k].above
    /\ link'[k].st = "listed" => link[k].st = "listed" /\ link'[k].got = link[k].got

\* Steps without a report, a new fetch or a change of the mailbox.
LEMMA KeptCover ==
  ASSUME Max(MailboxCounts) = 1, OwnInv, CoverInv, UNCHANGED <<server, history>>, OldFetches,
         Mark' \in {Mark, Unknown}, SessionsClosed'
  PROVE  CoverInv'
<1>1. \A n : CoveredTo(n) => CoveredTo(n)'
  BY DEF CoveredTo, Accounted
<1>2. CoveredTo(Unknown)
  BY SingleMailbox DEF Unknown, CoveredTo
<1>3. CoveredTo(Mark)'
  <2>1. CASE Mark' = Mark
    BY <1>1, <2>1 DEF CoverInv, CoveredTo, Accounted
  <2>2. CASE Mark' = Unknown
    BY <1>1, <1>2, <2>2 DEF CoveredTo, Accounted
  <2> QED
    BY <2>1, <2>2
<1>4. NextIsAbove'
  BY DEF CoverInv, NextIsAbove
<1>5. FetchesClosed'
  BY <1>1 DEF CoverInv, FetchesClosed, OldFetches
<1> QED
  BY <1>3, <1>4, <1>5 DEF CoverInv

\* A promise that settles starts no fetch.
LEMMA SettledFetches ==
  ASSUME OwnInv, NEW l \in Links, Settle(l)
  PROVE  \A k \in Links : Fetching(k)' =>
           /\ k # l /\ Fetching(k) /\ link'[k].above = link[k].above
           /\ link'[k].st = link[k].st /\ link'[k].got = link[k].got
BY SettleType DEF Fetching

\* Each handler keeps the cover: most of them,
LEMMA PlainCover ==
  ASSUME Max(MailboxCounts) = 1, OwnInv, CoverInv, UNCHANGED <<link, session, server, history>>,
         mailboxUidWatermarks' \in {mailboxUidWatermarks, AllUnknown}
  PROVE  CoverInv'
<1>1. Mark' \in {Mark, Unknown}
  BY SingleMailbox DEF Mark, AllUnknown
<1>2. OldFetches
  BY DEF OldFetches, Fetching
<1>3. SessionsClosed'
  BY DEF CoverInv, SessionsClosed
<1> QED
  BY <1>1, <1>2, <1>3, KeptCover

\* those that change a session only,
LEMMA ViewCover ==
  ASSUME Max(MailboxCounts) = 1, SupTypeOK, OwnInv, CoverInv, NEW c \in Clients,
         \/ StartWatcher(c) \/ ReconnectTimerFires(c) \/ HandleExists(c) \/ HandleExpunge(c)
  PROVE  CoverInv'
<1>1. UNCHANGED <<mailboxUidWatermarks, server, history>>
  BY FreshEffect, ExistsEffect, ExpungeEffect
<1>2. OldFetches
  BY FreshEffect, ExistsEffect, ExpungeEffect DEF OldFetches, Fetching
<1>3. /\ \A x \in Clients : x # c => view'[x] = view[x]
      /\ \/ view'[c] = {} \/ view'[c] = view[c] \cup mail[1]
         \/ \E u \in view[c] \ mail[1] : view'[c] = view[c] \ {u}
  BY FreshEffect, ExistsEffect, ExpungeEffect
<1>4. SessionsClosed'
  BY <1>1, <1>3 DEF CoverInv, SessionsClosed, NextIsAbove
<1> QED
  BY <1>1, <1>2, <1>4, KeptCover DEF Mark

\* an open, which takes UIDNEXT - 1 for watermark and baseline or leaves both,
LEMMA OpenedCover ==
  ASSUME Max(MailboxCounts) = 1, SupTypeOK, OwnInv, CoverInv, NEW t \in Clients,
         FirstOpened(t) \/ NextOpened(t)
  PROVE  CoverInv'
<1>1. /\ UNCHANGED <<link, server, reports>>
      /\ on[t] \in Clients /\ view'[on[t]] = mail[1]
      /\ \A x \in Clients : x # on[t] => view'[x] = view[x]
      /\ \/ Mark' = Mark /\ baseline'[1] = baseline[1]
         \/ Mark' = uidNext[1] - 1 /\ baseline'[1] = uidNext[1] - 1
  BY OpenEffect
<1>2. /\ mail[1] \in SUBSET Uids /\ uidNext[1] \in Nat /\ baseline[1] \in Int
      /\ \A u \in Uids : u \in Nat
  BY SingleMailbox
<1>3. baseline[1] <= baseline'[1] /\ NextIsAbove'
  BY <1>1, <1>2 DEF CoverInv, NextIsAbove
<1>4. \A u \in Uids : u \in Accounted(1) => u \in Accounted(1)'
  <2> SUFFICES ASSUME NEW u \in Uids, u <= baseline[1]
               PROVE  u <= baseline'[1]
    BY <1>1 DEF Accounted
  <2>1. baseline'[1] \in Int
    BY <1>1, <1>2
  <2> QED
    BY <1>2, <1>3, <2>1
<1>5. \A n : CoveredTo(n) => CoveredTo(n)'
  BY <1>1, <1>2, <1>4 DEF CoveredTo
<1>6. CoveredTo(Mark)'
  <2>1. CASE Mark' = Mark
    BY <1>5, <2>1 DEF CoverInv, CoveredTo
  <2>2. CASE Mark' = uidNext[1] - 1 /\ baseline'[1] = uidNext[1] - 1
    <3>1. \A u \in mail[1] : u \in Uids /\ u <= baseline'[1]
      BY <1>2, <2>2 DEF CoverInv, NextIsAbove
    <3>2. Mark' < uidNext[1]
      BY <1>2, <2>2
    <3> QED
      BY <1>1, <3>1, <3>2 DEF CoveredTo, Accounted
  <2> QED
    BY <1>1, <2>1, <2>2
<1>7. SessionsClosed'
  BY <1>1 DEF CoverInv, SessionsClosed, NextIsAbove
<1>8. FetchesClosed'
  BY <1>1, <1>5 DEF CoverInv, FetchesClosed, Fetching
<1> QED
  BY <1>3, <1>6, <1>7, <1>8 DEF CoverInv

\* the start of a fetch, from the watermark of this moment, and its rejection,
LEMMA EmitCover ==
  ASSUME Max(MailboxCounts) = 1, OwnInv, CoverInv, NEW l \in Links,
         EmitNewMail(l) \/ FetchRejected(l)
  PROVE  CoverInv'
<1>1. UNCHANGED <<mailboxUidWatermarks, session, server, history>>
  BY EmitEffect, RejectedEffect
<1>2. Mark' = Mark /\ NextIsAbove' /\ SessionsClosed' /\ \A n : CoveredTo(n) => CoveredTo(n)'
  BY <1>1 DEF Mark, CoverInv, NextIsAbove, SessionsClosed, CoveredTo, Accounted
<1>3. ASSUME NEW k \in Links, Fetching(k)'
      PROVE  \/ /\ Fetching(k) /\ link'[k].above = link[k].above
                /\ link'[k].st = "listed" => link[k].st = "listed" /\ link'[k].got = link[k].got
             \/ link'[k].st = "fetching" /\ link'[k].above = Mark
  <2>1. CASE EmitNewMail(l)
    <3>1. link[l].box = 1
      BY <2>1, EmitEffect, SingleMailbox
    <3> QED
      BY <1>3, <2>1, <3>1, EmitEffect, SettledFetches DEF Fetching, Mark
  <2>2. CASE FetchRejected(l)
    BY <1>3, <2>2, RejectedEffect, SettledFetches DEF Fetching
  <2> QED
    BY <2>1, <2>2
<1>4. FetchesClosed'
  BY <1>1, <1>2, <1>3 DEF CoverInv, FetchesClosed
<1>5. CoveredTo(Mark)'
  BY <1>1, <1>2 DEF CoverInv, CoveredTo, Accounted
<1> QED
  BY <1>2, <1>4, <1>5 DEF CoverInv

\* (a result holds all that the session was told of above the watermark)
LEMMA ListingOf ==
  ASSUME Max(MailboxCounts) = 1, OwnInv, NextIsAbove, SessionsClosed,
         NEW l \in Links, FetchListed(l)
  PROVE  \A g \in link'[l].got :
           /\ g < uidNext[1]
           /\ \A u \in mail[1] : link[l].above < u /\ u <= g => u \in link'[l].got
<1> DEFINE c == link[l].to
           here == view[c] \cap mail[1]
           from == link[l].above + 1
<1>1. c \in Clients /\ link[l].above \in Int
  <2>1. Fetching(l) /\ link[l] \in LinkRecords
    BY ListedEffect DEF Fetching, OwnInv, OwnTypeOK
  <2> QED
    BY <2>1 DEF OwnInv, LinksAim, LinkRecords
<1>2. selected[c] = 1
  BY <1>1, SingleMailbox DEF FetchListed
<1>3. link'[l].got = FetchAll(c, from)
  BY ListedEffect DEF RangeStart
<1>4. FetchAll(c, from) = LET new == {u \in here : u >= from}
                          IN  IF new = {} /\ here # {} THEN {Max(here)} ELSE new
  BY <1>2 DEF FetchAll
<1>5. /\ here \in SUBSET Uids /\ here \subseteq mail[1]
      /\ mail[1] \in SUBSET Uids /\ \A u \in Uids : u \in Nat
  BY SingleMailbox
<1>6. \A v \in here : v < uidNext[1] /\ \A u \in mail[1] : u <= v => u \in here
  BY <1>1 DEF SessionsClosed
<1>7. here # {} => Max(here) \in here
  BY <1>5, UidSets
<1> HIDE DEF here
<1>8. CASE {u \in here : u >= from} = {} /\ here # {}
  <2>1. link'[l].got = {Max(here)}
    BY <1>3, <1>4, <1>8
  <2>2. Max(here) \in here /\ ~(Max(here) >= from) /\ Max(here) \in Nat
    BY <1>5, <1>7, <1>8
  <2>3. \A u \in mail[1] : ~(link[l].above < u /\ u <= Max(here))
    BY <1>1, <1>5, <2>2
  <2> QED
    BY <1>6, <2>1, <2>2, <2>3
<1>9. CASE ~({u \in here : u >= from} = {} /\ here # {})
  <2>1. link'[l].got = {u \in here : u >= from}
    BY <1>3, <1>4, <1>9
  <2>2. \A u \in mail[1] : link[l].above < u => u >= from
    BY <1>1, <1>5
  <2> QED
    BY <1>6, <2>1, <2>2
<1> QED
  BY <1>8, <1>9

\* its listing,
LEMMA ListedCover ==
  ASSUME Max(MailboxCounts) = 1, OwnInv, CoverInv, NEW l \in Links, FetchListed(l)
  PROVE  CoverInv'
<1>1. UNCHANGED <<mailboxUidWatermarks, session, server, history>>
  BY ListedEffect
<1>2. Mark' = Mark /\ NextIsAbove' /\ SessionsClosed' /\ \A n : CoveredTo(n) => CoveredTo(n)'
  BY <1>1 DEF Mark, CoverInv, NextIsAbove, SessionsClosed, CoveredTo, Accounted
<1>3. ASSUME NEW k \in Links, Fetching(k)'
      PROVE  /\ Fetching(k) /\ link'[k].above = link[k].above
             /\ k # l => link'[k] = link[k]
  BY <1>3, ListedEffect DEF Fetching
<1>4. FetchesClosed'
  <2>1. ASSUME NEW k \in Links, Fetching(k)'
        PROVE  CoveredTo(link[k].above)' /\ link'[k].above = link[k].above
    BY <1>2, <1>3, <2>1 DEF CoverInv, FetchesClosed
  <2>2. ASSUME NEW k \in Links, Fetching(k)', link'[k].st = "listed"
        PROVE  \A g \in link'[k].got :
                 /\ g < uidNext[1]
                 /\ \A u \in mail[1] : link[k].above < u /\ u <= g => u \in link'[k].got
    <3>1. CASE k = l
      BY <2>2, <3>1, ListingOf DEF CoverInv
    <3>2. CASE k # l
      BY <1>3, <2>2, <3>2 DEF CoverInv, FetchesClosed
    <3> QED
      BY <3>1, <3>2
  <2> QED
    BY <1>1, <2>1, <2>2 DEF FetchesClosed, CoveredTo
<1>5. CoveredTo(Mark)'
  BY <1>1, <1>2 DEF CoverInv, CoveredTo, Accounted
<1> QED
  BY <1>2, <1>4, <1>5 DEF CoverInv

\* (what is reported counts at least once)
LEMMA PositiveReport == \A n \in 0..2 : Min({2, n + 1}) > 0
<1> SUFFICES ASSUME NEW n \in 0..2 PROVE Min({2, n + 1}) > 0
  OBVIOUS
<1>1. \E x \in {2, n + 1} : \A y \in {2, n + 1} : x <= y
  OBVIOUS
<1>2. Min({2, n + 1}) \in {2, n + 1}
  BY <1>1 DEF Min
<1> QED
  BY <1>2

\* its resolution, which may put back a watermark that another fetch has raised, but onto
\* what it covers itself,
LEMMA ResolvedCover ==
  ASSUME Max(MailboxCounts) = 1, OwnInv, CoverInv, NEW l \in Links, FetchResolved(l)
  PROVE  CoverInv'
<1> DEFINE S == NewUids(l)
<1>1. /\ link[l].st = "listed" /\ Fetching(l) /\ Settle(l) /\ link[l].box = 1
      /\ UNCHANGED <<session, server, baseline>> /\ S \in SUBSET Uids
  BY ResolvedEffect, SingleMailbox
<1>2. /\ S = {u \in link[l].got : u > link[l].above} /\ link[l].above \in Int
      /\ CoveredTo(link[l].above)
      /\ \A g \in link[l].got :
           \A u \in mail[1] : link[l].above < u /\ u <= g => u \in link[l].got
  BY <1>1 DEF NewUids, CoverInv, FetchesClosed, OwnInv, OwnTypeOK, LinkRecords
<1>3. /\ mail[1] \in SUBSET Uids /\ reports[1] \in [Uids -> 0..2] /\ \A u \in Uids : u \in Nat
      /\ mailboxUidWatermarks \in [{1} -> Int] /\ reports \in [{1} -> [Uids -> 0..2]]
  BY SingleMailbox
<1>4. OldFetches
  BY <1>1, SettledFetches DEF OldFetches
<1>5. SessionsClosed'
  BY <1>1 DEF CoverInv, SessionsClosed
<1>6. CASE S = {}
  <2>1. UNCHANGED <<mailboxUidWatermarks, reports>>
    BY <1>6, ResolvedEffect
  <2> QED
    BY <1>1, <1>4, <1>5, <2>1, KeptCover DEF Mark
<1>7. CASE S # {}
  <2>1. Max(S) \in S /\ \A u \in S : u <= Max(S)
    BY <1>1, <1>7, UidSets
  <2>2. /\ mailboxUidWatermarks' = [mailboxUidWatermarks EXCEPT ![1] = Max(S)]
        /\ reports' = [reports EXCEPT ![1] =
                         [u \in Uids |-> IF u \in S THEN Min({2, @[u] + 1}) ELSE @[u]]]
    BY <1>1, <1>7, ResolvedEffect
  <2> HIDE DEF S
  <2>3. Mark' = Max(S)
    BY <1>3, <2>2 DEF Mark
  <2>4. \A u \in Uids : reports'[1][u] = IF u \in S THEN Min({2, reports[1][u] + 1})
                                         ELSE reports[1][u]
    BY <1>3, <2>2
  <2>5. \A u \in Uids : (u \in S => reports'[1][u] > 0)
                        /\ (reports[1][u] > 0 => reports'[1][u] > 0)
    <3> SUFFICES ASSUME NEW u \in Uids, u \in S
                 PROVE  Min({2, reports[1][u] + 1}) > 0
      BY <2>4
    <3>1. reports[1][u] \in 0..2
      BY <1>3
    <3> QED
      BY <3>1, PositiveReport
  <2>6. \A u \in Uids : u \in Accounted(1) \/ u \in S => u \in Accounted(1)'
    BY <1>1, <2>5 DEF Accounted
  <2>7. \A n : CoveredTo(n) => CoveredTo(n)'
    BY <1>1, <1>3, <2>6 DEF CoveredTo
  <2>8. CoveredTo(Mark)'
    <3>1. ASSUME NEW u \in mail[1], u <= Max(S)
          PROVE  u \in Accounted(1)'
      <4>1. u \in Uids /\ u \in Nat
        BY <1>3
      <4>2. CASE u <= link[l].above
        BY <1>2, <2>6, <4>1, <4>2 DEF CoveredTo
      <4>3. CASE link[l].above < u
        BY <1>2, <2>1, <2>6, <3>1, <4>1, <4>3 DEF S
      <4> QED
        BY <1>2, <4>1, <4>2, <4>3
    <3>2. Max(S) < uidNext[1]
      BY <1>1, <1>2, <2>1 DEF CoverInv, FetchesClosed, S
    <3> QED
      BY <1>1, <2>3, <3>1, <3>2 DEF CoveredTo
  <2>9. NextIsAbove'
    BY <1>1 DEF CoverInv, NextIsAbove
  <2>10. FetchesClosed'
    BY <1>1, <1>4, <2>7 DEF CoverInv, FetchesClosed, OldFetches
  <2> QED
    BY <1>5, <2>8, <2>9, <2>10 DEF CoverInv
<1> QED
  BY <1>6, <1>7

\* and the server, which never gives out an old UID.
LEMMA ServerCover ==
  ASSUME Max(MailboxCounts) = 1, "rebuild" \notin Faults, OwnInv, CoverInv,
         NEW m \in Mailboxes, Deliver(m) \/ Purge(m) \/ Rebuild(m)
  PROVE  CoverInv'
<1>1. m = 1 /\ ~Rebuild(m)
  BY SingleMailbox DEF Rebuild
<1>2. /\ UNCHANGED <<mailboxUidWatermarks, link, session, history>>
      /\ \/ mail'[1] = mail[1] \cup {uidNext[1]} /\ uidNext'[1] = uidNext[1] + 1
         \/ uidNext'[1] = uidNext[1] /\ \E x \in mail[1] : mail'[1] = mail[1] \ {x}
  BY <1>1, SingleMailbox DEF Deliver, Purge, OwnInv, OwnTypeOK
<1>3. /\ mail[1] \in SUBSET Uids /\ uidNext[1] \in Nat /\ baseline[1] \in Int
      /\ \A u \in Uids : u \in Nat /\ \A c \in Clients : view[c] \in SUBSET Uids
      /\ Mark \in Int
  BY SingleMailbox
<1>4. NextIsAbove'
  BY <1>2, <1>3 DEF CoverInv, NextIsAbove
<1>5. ASSUME NEW n \in Int, n < uidNext[1]
      PROVE  /\ n < uidNext'[1]
             /\ \A u \in mail'[1] : u <= n => u \in mail[1]
  BY <1>2, <1>3, <1>5
<1>6. ASSUME NEW n \in Int, CoveredTo(n)
      PROVE  CoveredTo(n)'
  <2>1. n < uidNext'[1] /\ \A u \in mail'[1] : u <= n => u \in mail[1]
    BY <1>5, <1>6 DEF CoveredTo
  <2>2. \A u \in Uids : u \in Accounted(1) => u \in Accounted(1)'
    BY <1>2 DEF Accounted
  <2> QED
    BY <1>3, <1>6, <2>1, <2>2 DEF CoveredTo
<1>7. CoveredTo(Mark)'
  <2>1. Mark' = Mark
    BY <1>2 DEF Mark
  <2>2. \A n : CoveredTo(n)' <=> (n < uidNext'[1] /\ \A u \in mail'[1] : u <= n => u \in Accounted(1)')
    BY DEF CoveredTo
  <2> QED
    BY <1>3, <1>6, <2>1, <2>2 DEF CoverInv
<1>8. SessionsClosed'
  <2> SUFFICES ASSUME NEW c \in Clients, NEW v \in view[c]
               PROVE  v < uidNext'[1] /\ \A u \in mail'[1] : u <= v => u \in view[c]
    BY <1>2 DEF SessionsClosed
  <2>1. v \in Int /\ v < uidNext[1] /\ \A u \in mail[1] : u <= v => u \in view[c]
    BY <1>3, SingleMailbox DEF CoverInv, SessionsClosed
  <2> QED
    BY <1>5, <2>1
<1>9. FetchesClosed'
  <2> SUFFICES ASSUME NEW k \in Links, Fetching(k)
               PROVE  /\ CoveredTo(link[k].above)'
                      /\ link[k].st = "listed" =>
                           \A g \in link[k].got :
                             /\ g < uidNext'[1]
                             /\ \A u \in mail'[1] :
                                  link[k].above < u /\ u <= g => u \in link[k].got
    BY <1>2 DEF FetchesClosed, Fetching, CoveredTo
  <2>1. link[k].got \in SUBSET Uids /\ link[k].above \in Int
    BY DEF OwnInv, OwnTypeOK, LinkRecords
  <2>2. \A n : CoveredTo(n)' <=> (n < uidNext'[1] /\ \A u \in mail'[1] : u <= n => u \in Accounted(1)')
    BY DEF CoveredTo
  <2>3. CoveredTo(link[k].above)'
    BY <1>2, <1>6, <2>1, <2>2 DEF CoverInv, FetchesClosed
  <2>4. ASSUME link[k].st = "listed", NEW g \in link[k].got
        PROVE  g < uidNext'[1] /\ \A u \in mail'[1] : u <= g => u \in mail[1]
    BY <1>3, <1>5, <2>1, <2>4 DEF CoverInv, FetchesClosed
  <2> QED
    BY <2>3, <2>4 DEF CoverInv, FetchesClosed
<1> QED
  BY <1>4, <1>7, <1>8, <1>9 DEF CoverInv

\* Every step keeps the cover.
LEMMA CoverStep ==
  ASSUME Max(MailboxCounts) = 1, "rebuild" \notin Faults, SupTypeOK, OwnInv, CoverInv, [Next]_vars
  PROVE  CoverInv'
<1>1. CASE UNCHANGED vars
  BY <1>1, PlainCover DEF vars, ownVars, enrichment, maps
<1>2. CASE \/ StopWatcher
           \/ TimerExpires /\ UNCHANGED ownVars
  BY <1>2, StopEffect, PlainCover
<1>3. ASSUME NEW t \in Clients, Settlement(t) \/ EnrichmentDrained(t)
      PROVE  CoverInv'
  BY <1>3, PlainEffect, PlainCover, OpenedCover DEF Settlement
<1>4. ASSUME NEW c \in Clients,
             \/ StartWatcher(c) \/ ReconnectTimerFires(c)
             \/ IdleResolved(c) \/ IdleRejected(c)
             \/ ConnectionEvent(c) \/ HandleExists(c) \/ HandleExpunge(c)
      PROVE  CoverInv'
  BY <1>4, PlainEffect, PlainCover, ViewCover
<1>5. CASE Callbacks
  BY <1>3, <1>5, EmitCover DEF Callbacks
<1>6. CASE Events
  BY <1>2, <1>3, <1>4, <1>6, EmitCover, ListedCover, ResolvedCover, ServerCover DEF Events
<1> QED
  BY <1>1, <1>5, <1>6 DEF Next

(* For one mailbox that is not renumbered, however many attempts to connect *)
(* overlap and answers come late, and across stop() and start(): no message *)
(* that is still there is passed over.                                     *)
THEOREM NothingSkippedByOverlap ==
  ASSUME Max(MailboxCounts) = 1, "rebuild" \notin Faults PROVE Spec => []NothingSkipped
<1>1. Init => CoverInv
  <2> SUFFICES ASSUME Init PROVE CoverInv
    OBVIOUS
  <2>1. 1 \in Mailboxes
    BY DEF Mailboxes
  <2>2. mail[1] = {} /\ uidNext[1] = 1 /\ Mark = Unknown /\ baseline[1] = Unknown
    BY <2>1 DEF Init, AllUnknown, Mark
  <2>3. \A c \in Clients : view[c] = {}
    BY DEF Init
  <2>4. ASSUME NEW l \in Links PROVE ~Fetching(l)
    BY FreeLinkType DEF Init, Fetching
  <2> QED
    BY <2>2, <2>3, <2>4 DEF CoverInv, NextIsAbove, SessionsClosed, FetchesClosed, CoveredTo, Unknown
<1>2. SupTypeOK /\ OwnInv /\ CoverInv /\ [Next]_vars => CoverInv'
  BY CoverStep
<1>3. OwnInv /\ CoverInv => NothingSkipped
  BY SingleMailbox DEF CoverInv, CoveredTo, NothingSkipped, Mark
<1> QED
  BY <1>1, <1>2, <1>3, TypedInvariant, PTL DEF Spec

-----------------------------------------------------------------------------
(* One mailbox, serial attempts: once per message, whatever is late.       *)

\* No message above n has been reported.
Fresh(n) == \A u \in Uids : reports[1][u] > 0 => u <= n

\* UIDNEXT is above every message and every report.
NextIsFresh == (\A u \in mail[1] : u < uidNext[1]) /\ Fresh(uidNext[1] - 1)

\* A fetch starts above all that has been reported.
FetchesFresh == \A l \in Links : Fetching(l) => Fresh(link[l].above)

\* A result that can still arrive is of the mailbox as it is numbered.
ListingsHold ==
  \A l \in Links : link[l].st = "listed" /\ Open(link[l].to) =>
    selected[link[l].to] = 1 /\ \A g \in link[l].got : g < uidNext[1]

\* Once per message, inductively.
OnceInv ==
  /\ NextIsFresh /\ FetchesFresh /\ ListingsHold
  /\ Mark # Unknown => Fresh(Mark)
  /\ \A u \in Uids : reports[1][u] <= 1

\* No session is opened, or shown a mailbox, under a result that is on its way.
SessionsStay ==
  \A l \in Links : \A c \in Clients :
    Fetching(l) /\ link[l].to = c /\ Open(c)' =>
      Open(c) /\ (selected[c] = 1 => selected'[c] = 1)

\* Steps without a report, a new fetch or a change of the mailbox.
LEMMA KeptOnce ==
  ASSUME OwnInv, OnceInv, UNCHANGED <<server, reports>>, OldFetches, SessionsStay,
         \A l \in Links : Fetching(l)' => link'[l].to = link[l].to,
         Mark' = Mark \/ Mark' = Unknown \/ Mark' = uidNext[1] - 1
  PROVE  OnceInv'
<1>1. \A n : Fresh(n) => Fresh(n)'
  BY DEF Fresh
<1>2. NextIsFresh'
  BY DEF OnceInv, NextIsFresh, Fresh
<1>3. FetchesFresh'
  BY <1>1 DEF OnceInv, FetchesFresh, OldFetches
<1>4. ListingsHold'
  <2> SUFFICES ASSUME NEW l \in Links, link'[l].st = "listed", Open(link[l].to)'
               PROVE  selected'[link'[l].to] = 1 /\ \A g \in link'[l].got : g < uidNext[1]
    BY DEF ListingsHold
  <2>1. /\ Fetching(l) /\ link[l].st = "listed"
        /\ link'[l].got = link[l].got /\ link'[l].to = link[l].to
    BY DEF OldFetches, Fetching
  <2>2. link[l].to \in Clients
    BY <2>1 DEF OwnInv, LinksAim
  <2>3. Open(link[l].to) /\ (selected[link[l].to] = 1 => selected'[link[l].to] = 1)
    BY <2>1, <2>2 DEF SessionsStay, Open
  <2> QED
    BY <2>1, <2>3 DEF OnceInv, ListingsHold
<1>5. Mark' # Unknown => Fresh(Mark)'
  BY <1>2 DEF OnceInv, NextIsFresh, Fresh
<1> QED
  BY <1>2, <1>3, <1>4, <1>5 DEF OnceInv

\* Each handler keeps it: most of them,
LEMMA PlainOnce ==
  ASSUME Max(MailboxCounts) = 1, OwnInv, OnceInv, UNCHANGED <<link, session, server, history>>,
         mailboxUidWatermarks' \in {mailboxUidWatermarks, AllUnknown},
         \A c \in Clients : Open(c)' => Open(c)
  PROVE  OnceInv'
<1>1. Mark' \in {Mark, Unknown}
  BY SingleMailbox DEF Mark, AllUnknown
<1>2. OldFetches
  BY DEF OldFetches, Fetching
<1>3. SessionsStay
  BY DEF SessionsStay, OwnInv, LinksAim
<1> QED
  BY <1>1, <1>2, <1>3, KeptOnce

\* those that change a session, an open included,
LEMMA ViewOnce ==
  ASSUME Max(MailboxCounts) = 1, SupTypeOK, OwnInv, OnceInv, NEW c \in Clients,
         \/ StartWatcher(c) \/ ReconnectTimerFires(c) \/ HandleExists(c) \/ HandleExpunge(c)
         \/ FirstOpened(c) \/ NextOpened(c)
  PROVE  OnceInv'
<1>1. CASE StartWatcher(c) \/ ReconnectTimerFires(c)
  <2>1. Mark' = Mark /\ OldFetches /\ UNCHANGED <<server, reports>>
    BY <1>1, FreshEffect DEF Mark, OldFetches, Fetching
  <2>2. SessionsStay /\ \A l \in Links : Fetching(l)' => link'[l].to = link[l].to
    BY <1>1, FreshEffect DEF SessionsStay, OwnInv, LinksAim
  <2> QED
    BY <2>1, <2>2, KeptOnce
<1>2. CASE HandleExists(c) \/ HandleExpunge(c)
  <2>1. Mark' = Mark /\ OldFetches /\ UNCHANGED <<server, reports, conn, selected>>
    BY <1>2, ExistsEffect, ExpungeEffect DEF Mark, OldFetches, Fetching, supVars, wiring
  <2>2. \A l \in Links : Fetching(l)' => link'[l].to = link[l].to
    BY <1>2, ExistsEffect, ExpungeEffect DEF Fetching
  <2>3. SessionsStay
    BY <2>1 DEF SessionsStay, Open
  <2> QED
    BY <2>1, <2>2, <2>3, KeptOnce
<1>3. CASE FirstOpened(c) \/ NextOpened(c)
  <2>1. /\ UNCHANGED <<link, server, reports, conn>>
        /\ Mark' = Mark \/ Mark' = uidNext[1] - 1
        /\ \A x \in Clients : selected[x] = 1 => selected'[x] = 1
    BY <1>3, OpenEffect
  <2>2. SessionsStay
    BY <2>1 DEF SessionsStay, Open, OwnInv, LinksAim
  <2>3. OldFetches
    BY <2>1 DEF OldFetches, Fetching
  <2> QED
    BY <2>1, <2>2, <2>3, KeptOnce
<1> QED
  BY <1>1, <1>2, <1>3

\* the start of a fetch and its rejection,
LEMMA EmitOnce ==
  ASSUME Max(MailboxCounts) = 1, OwnInv, OnceInv, NEW l \in Links,
         EmitNewMail(l) \/ FetchRejected(l)
  PROVE  OnceInv'
<1>1. UNCHANGED <<mailboxUidWatermarks, conn, session, server, history>>
  BY EmitEffect, RejectedEffect DEF supVars, wiring
<1>2. /\ Mark' = Mark /\ NextIsFresh' /\ \A n : Fresh(n) => Fresh(n)'
      /\ \A u \in Uids : reports'[1][u] <= 1
  BY <1>1 DEF Mark, OnceInv, NextIsFresh, Fresh
<1>3. ASSUME NEW k \in Links, Fetching(k)'
      PROVE  \/ /\ Fetching(k) /\ link'[k].above = link[k].above /\ link'[k].to = link[k].to
                /\ link'[k].st = "listed" => link[k].st = "listed" /\ link'[k].got = link[k].got
             \/ link'[k].st = "fetching" /\ link'[k].above = Mark /\ Mark # Unknown
             \/ link'[k].st = "fetching" /\ Fetching(k) /\ link'[k].above = link[k].above
  <2>1. CASE EmitNewMail(l)
    <3>1. link[l].box = 1
      BY <2>1, EmitEffect, SingleMailbox
    <3> QED
      BY <1>3, <2>1, <3>1, EmitEffect, SettleType DEF Fetching, Mark
  <2>2. CASE FetchRejected(l)
    BY <1>3, <2>2, RejectedEffect, SettleType DEF Fetching
  <2> QED
    BY <2>1, <2>2
<1>4. FetchesFresh'
  BY <1>2, <1>3 DEF OnceInv, FetchesFresh
<1>5. ListingsHold'
  <2> SUFFICES ASSUME NEW k \in Links, link'[k].st = "listed", Open(link[k].to)'
               PROVE  selected'[link'[k].to] = 1 /\ \A g \in link'[k].got : g < uidNext'[1]
    BY DEF ListingsHold
  <2>1. link[k].st = "listed" /\ link'[k].got = link[k].got /\ link'[k].to = link[k].to
    BY <1>3 DEF Fetching
  <2> QED
    BY <1>1, <2>1 DEF OnceInv, ListingsHold, Open
<1>6. Mark' # Unknown => Fresh(Mark)'
  BY <1>2 DEF OnceInv, Fresh
<1> QED
  BY <1>2, <1>4, <1>5, <1>6 DEF OnceInv

\* its listing, on a session that has the mailbox selected,
LEMMA ListedOnce ==
  ASSUME Max(MailboxCounts) = 1, OwnInv, OnceInv, NEW l \in Links, FetchListed(l)
  PROVE  OnceInv'
<1>1. UNCHANGED <<mailboxUidWatermarks, conn, session, server, history>>
  BY ListedEffect DEF supVars, wiring
<1>2. /\ Mark' = Mark /\ NextIsFresh' /\ \A n : Fresh(n) => Fresh(n)'
      /\ \A u \in Uids : reports'[1][u] <= 1
  BY <1>1 DEF Mark, OnceInv, NextIsFresh, Fresh
<1>3. ASSUME NEW k \in Links, Fetching(k)'
      PROVE  Fetching(k) /\ link'[k].above = link[k].above
  BY <1>3, ListedEffect DEF Fetching
<1>4. FetchesFresh'
  BY <1>2, <1>3 DEF OnceInv, FetchesFresh
<1>5. ListingsHold'
  <2> SUFFICES ASSUME NEW k \in Links, link'[k].st = "listed", Open(link[k].to)'
               PROVE  selected'[link'[k].to] = 1 /\ \A g \in link'[k].got : g < uidNext'[1]
    BY DEF ListingsHold
  <2>1. CASE k = l
    <3>1. /\ link[l].to \in Clients /\ link'[l].to = link[l].to
          /\ link'[l].got = FetchAll(link[l].to, RangeStart(l)) /\ selected[link[l].to] # 0
      BY ListedEffect DEF OwnInv, LinksAim, Fetching, FetchListed
    <3>2. selected[link[l].to] = 1
      BY <3>1, SingleMailbox
    <3>3. FetchAll(link[l].to, RangeStart(l)) \subseteq mail[1]
      <4> DEFINE here == view[link[l].to] \cap mail[1]
      <4>1. here \in SUBSET Uids
        BY SingleMailbox
      <4>2. here # {} => Max(here) \in here
        BY <4>1, UidSets
      <4> QED
        BY <3>2, <4>2 DEF FetchAll
    <3> QED
      BY <1>1, <2>1, <3>1, <3>2, <3>3 DEF OnceInv, NextIsFresh
  <2>2. CASE k # l
    <3>1. link'[k] = link[k]
      BY <2>2, ListedEffect
    <3> QED
      BY <1>1, <3>1 DEF OnceInv, ListingsHold, Open
  <2> QED
    BY <2>1, <2>2
<1>6. Mark' # Unknown => Fresh(Mark)'
  BY <1>2 DEF OnceInv, Fresh
<1> QED
  BY <1>2, <1>4, <1>5, <1>6 DEF OnceInv

\* its resolution: no other fetch is under way (Chain) that could report the same,
LEMMA ResolvedOnce ==
  ASSUME Max(MailboxCounts) = 1, OwnInv, Chain, OnceInv, NEW l \in Links, FetchResolved(l)
  PROVE  OnceInv'
<1> DEFINE S == NewUids(l)
<1>1. /\ link[l].st = "listed" /\ Fetching(l) /\ Settle(l) /\ link[l].box = 1
      /\ Answers(link[l].to) /\ UNCHANGED <<conn, session, server, baseline>>
      /\ S \in SUBSET Uids
  BY ResolvedEffect, SingleMailbox DEF supVars, wiring
<1>2. \A k \in Links : ~Fetching(k)'
  BY <1>1, SettledFetches DEF Chain, ChainOrder, Busy, Fetching
<1>3. FetchesFresh' /\ ListingsHold'
  BY <1>2 DEF FetchesFresh, ListingsHold, Fetching
<1>4. CASE S = {}
  <2>1. UNCHANGED <<mailboxUidWatermarks, reports>>
    BY <1>4, ResolvedEffect
  <2> QED
    BY <1>1, <1>3, <2>1 DEF OnceInv, NextIsFresh, Fresh, Mark
<1>5. CASE S # {}
  <2>1. Max(S) \in S /\ \A u \in S : u <= Max(S)
    BY <1>1, <1>5, UidSets
  <2>2. /\ mailboxUidWatermarks' = [mailboxUidWatermarks EXCEPT ![1] = Max(S)]
        /\ reports' = [reports EXCEPT ![1] =
                         [u \in Uids |-> IF u \in S THEN Min({2, @[u] + 1}) ELSE @[u]]]
    BY <1>1, <1>5, ResolvedEffect
  <2>3. Open(link[l].to)
    BY <1>1 DEF Answers, Up, Open
  <2>4. /\ \A u \in S : u > link[l].above /\ u < uidNext[1]
        /\ link[l].above \in Int /\ Fresh(link[l].above)
    BY <1>1, <2>3 DEF NewUids, OnceInv, ListingsHold, FetchesFresh, OwnInv, OwnTypeOK, LinkRecords
  <2>5. /\ reports[1] \in [Uids -> 0..2] /\ reports \in [{1} -> [Uids -> 0..2]]
        /\ mailboxUidWatermarks \in [{1} -> Int] /\ uidNext[1] \in Nat
        /\ \A u \in Uids : u \in Nat
    BY SingleMailbox
  <2> HIDE DEF S
  <2>6. Mark' = Max(S)
    BY <2>2, <2>5 DEF Mark
  <2>7. \A u \in Uids : reports'[1][u] = IF u \in S THEN Min({2, reports[1][u] + 1})
                                         ELSE reports[1][u]
    BY <2>2, <2>5
  <2>8. \A u \in S : reports[1][u] = 0
    BY <1>1, <2>4, <2>5 DEF Fresh
  <2>9. \A u \in Uids : reports'[1][u] <= 1
    <3> SUFFICES ASSUME NEW u \in Uids PROVE reports'[1][u] <= 1
      OBVIOUS
    <3>1. CASE u \in S
      <4>1. Min({2, reports[1][u] + 1}) = 1
        BY <2>5, <2>8, <3>1, TwoAtMost
      <4> QED
        BY <2>7, <3>1, <4>1
    <3>2. CASE u \notin S
      BY <2>7, <3>2 DEF OnceInv
    <3> QED
      BY <3>1, <3>2
  <2>10. Fresh(Mark)'
    <3> SUFFICES ASSUME NEW u \in Uids, reports'[1][u] > 0
                 PROVE  u <= Max(S)
      BY <2>6 DEF Fresh
    <3>1. CASE u \in S
      BY <2>1, <3>1
    <3>2. CASE u \notin S
      <4>1. u <= link[l].above
        BY <2>4, <2>7, <3>2 DEF Fresh
      <4>2. Max(S) > link[l].above /\ Max(S) \in Nat
        BY <1>1, <2>1, <2>4, <2>5
      <4> QED
        BY <2>4, <2>5, <4>1, <4>2
    <3> QED
      BY <3>1, <3>2
  <2>11. NextIsFresh'
    <3>1. Max(S) \in Int /\ Max(S) <= uidNext[1] - 1
      BY <1>1, <2>1, <2>4, <2>5
    <3>2. ASSUME NEW u \in Uids, reports'[1][u] > 0
          PROVE  u <= uidNext[1] - 1
      <4>1. u <= Max(S)
        BY <2>6, <2>10, <3>2 DEF Fresh
      <4> QED
        BY <2>5, <3>1, <4>1
    <3> QED
      BY <1>1, <3>2 DEF OnceInv, NextIsFresh, Fresh
  <2> QED
    BY <1>3, <2>9, <2>10, <2>11 DEF OnceInv
<1> QED
  BY <1>4, <1>5

\* and the server; a mailbox is renumbered only when no session has it selected.
LEMMA ServerOnce ==
  ASSUME Max(MailboxCounts) = 1, SupTypeOK, OwnInv, OnceInv,
         NEW m \in Mailboxes, Deliver(m) \/ Purge(m) \/ Rebuild(m)
  PROVE  OnceInv'
<1>1. m = 1 /\ UNCHANGED <<mailboxUidWatermarks, conn, link, session>>
  BY SingleMailbox DEF Deliver, Purge, Rebuild, maps, enrichment, supVars, wiring
<1>2. /\ mail[1] \in SUBSET Uids /\ uidNext[1] \in Nat /\ uidNext[1] >= 1
      /\ \A u \in Uids : u \in Nat /\ u >= 1
  BY SingleMailbox
<1>3. CASE Deliver(m) \/ Purge(m)
  <2>1. /\ UNCHANGED reports
        /\ \/ mail'[1] = mail[1] \cup {uidNext[1]} /\ uidNext'[1] = uidNext[1] + 1
           \/ uidNext'[1] = uidNext[1] /\ \E x \in mail[1] : mail'[1] = mail[1] \ {x}
    BY <1>1, <1>3, SingleMailbox DEF Deliver, Purge, OwnInv, OwnTypeOK, history
  <2>2. (\A u \in mail'[1] : u < uidNext'[1]) /\ uidNext'[1] >= uidNext[1] /\ uidNext'[1] \in Nat
    BY <1>2, <2>1 DEF OnceInv, NextIsFresh
  <2>3. NextIsFresh'
    BY <1>2, <2>1, <2>2 DEF OnceInv, NextIsFresh, Fresh
  <2>4. ListingsHold'
    <3> SUFFICES ASSUME NEW l \in Links, link[l].st = "listed", Open(link[l].to)
                 PROVE  selected[link[l].to] = 1 /\ \A g \in link[l].got : g < uidNext'[1]
      BY <1>1 DEF ListingsHold, Open
    <3>1. link[l].got \in SUBSET Uids
      BY DEF OwnInv, OwnTypeOK, LinkRecords
    <3> QED
      BY <1>2, <2>2, <3>1 DEF OnceInv, ListingsHold
  <2> QED
    BY <1>1, <2>1, <2>3, <2>4 DEF OnceInv, FetchesFresh, Fetching, Fresh, Mark
<1>4. CASE Rebuild(m)
  <2>1. /\ \A c \in Clients : Open(c) => selected[c] # 1
        /\ reports'[1] = [u \in Uids |-> 0]
        /\ mail'[1] = 1..Cardinality(mail[1]) /\ uidNext'[1] = Cardinality(mail[1]) + 1
    BY <1>1, <1>4, SingleMailbox DEF Rebuild, Open, OwnInv, OwnTypeOK
  <2>2. Cardinality(mail[1]) \in Nat
    BY <1>2, UidSets
  <2>3. (\A n : Fresh(n)') /\ (\A u \in Uids : reports'[1][u] <= 1)
    BY <2>1 DEF Fresh
  <2>4. \A u \in mail'[1] : u < uidNext'[1]
    BY <2>1, <2>2
  <2>5. NextIsFresh' /\ FetchesFresh' /\ (Mark # Unknown => Fresh(Mark))'
    BY <2>1, <2>4 DEF NextIsFresh, FetchesFresh, Fresh
  <2>6. ListingsHold'
    <3>1. \A l \in Links : link[l].st = "listed" => link[l].to \in Clients
      BY DEF OwnInv, LinksAim, Fetching
    <3> QED
      BY <1>1, <2>1, <3>1 DEF OnceInv, ListingsHold, Open
  <2> QED
    BY <2>3, <2>5, <2>6 DEF OnceInv
<1> QED
  BY <1>3, <1>4

\* Every step keeps it.
LEMMA OnceStep ==
  ASSUME Max(MailboxCounts) = 1, SupTypeOK, OwnInv, Chain, OnceInv, [Next]_vars
  PROVE  OnceInv'
<1>1. CASE UNCHANGED vars
  BY <1>1, PlainOnce DEF vars, supVars, wiring, ownVars, enrichment, maps, Open
<1>2. CASE \/ StopWatcher
           \/ TimerExpires /\ UNCHANGED ownVars
  BY <1>2, StopEffect, PlainOnce
<1>3. ASSUME NEW t \in Clients, Settlement(t) \/ EnrichmentDrained(t)
      PROVE  OnceInv'
  BY <1>3, PlainEffect, PlainOnce, ViewOnce DEF Settlement
<1>4. ASSUME NEW c \in Clients,
             \/ StartWatcher(c) \/ ReconnectTimerFires(c)
             \/ IdleResolved(c) \/ IdleRejected(c)
             \/ ConnectionEvent(c) \/ HandleExists(c) \/ HandleExpunge(c)
      PROVE  OnceInv'
  BY <1>4, PlainEffect, PlainOnce, ViewOnce
<1>5. CASE Callbacks
  BY <1>3, <1>5, EmitOnce DEF Callbacks
<1>6. CASE Events
  BY <1>2, <1>3, <1>4, <1>6, EmitOnce, ListedOnce, ResolvedOnce, ServerOnce DEF Events
<1> QED
  BY <1>1, <1>5, <1>6 DEF Next

(* README: newMail fires once per message. True of an account with one     *)
(* mailbox and serial attempts, within one numbering of its messages,      *)
(* across any number of connections, and with answers that arrive after    *)
(* logout.                                                                 *)
THEOREM NewMailOnce ==
  ASSUME Serial, Max(MailboxCounts) = 1 PROVE Spec => []NoDuplicateNewMail
<1>1. Init => OnceInv
  <2> SUFFICES ASSUME Init PROVE OnceInv
    OBVIOUS
  <2>1. 1 \in Mailboxes
    BY DEF Mailboxes
  <2>2. mail[1] = {} /\ Mark = Unknown /\ reports[1] = [u \in Uids |-> 0]
    BY <2>1 DEF Init, AllUnknown, Mark
  <2>3. \A l \in Links : ~Fetching(l)
    BY FreeLinkType DEF Init, Fetching
  <2> QED
    BY <2>2, <2>3 DEF OnceInv, NextIsFresh, FetchesFresh, ListingsHold, Fetching, Fresh
<1>2. SupTypeOK /\ OwnInv /\ Chain /\ OnceInv /\ [Next]_vars => OnceInv'
  BY OnceStep
<1>3. OwnInv /\ OnceInv => NoDuplicateNewMail
  BY SingleMailbox DEF OnceInv, NoDuplicateNewMail
<1> QED
  BY <1>1, <1>2, <1>3, TypedInvariant, ChainInvariant, PTL DEF Spec

=============================================================================
