---------------------------- MODULE AccountWatcher ----------------------------
(***************************************************************************)
(* The whole AccountWatcher of src/imap/watcher.ts: the supervision of     *)
(* module WatcherSupervision and, on top of it, the round-robin over the   *)
(* watched mailboxes, the message counts and UID watermarks, and the chain *)
(* of enrichment fetches that turns EXISTS into newMail events.  Every     *)
(* action here is a whole handler: an action of the supervision joined     *)
(* with what the same code does to the mailbox state.                      *)
(*                                                                         *)
(* Mailbox m is watchMailboxes[m - 1]; 0 stands for no mailbox, and        *)
(* Unknown (-1) for a missing map entry.                                   *)
(*                                                                         *)
(* The IMAP server and the client library are external: each session       *)
(* answers the commands of its connection in the order they were issued    *)
(* (wire) and announces new and removed messages when it likes.            *)
(***************************************************************************)
EXTENDS WatcherSupervision, Sequences, FiniteSetsExt

CONSTANTS
  Links,         \* calls of emitNewMail in the promise chain, reused when done
  NoLink,        \* `undefined`
  FetchAttempts, \* FETCH_UID_ATTEMPTS
  MaxUid,        \* bound: UIDs the server gives out in one mailbox
  MaxRebuilds    \* bound: UIDVALIDITY changes of one mailbox

ASSUME WatcherAssumption ==
  /\ IsFiniteSet(MailboxCounts) /\ MailboxCounts # {}
  /\ NoLink \notin Links
  /\ Links \cap Clients = {}
  /\ FetchAttempts \in Nat \ {0}
  /\ MaxUid \in Nat
  /\ MaxRebuilds \in Nat

Mailboxes == 1..Max(MailboxCounts)
Uids == 1..MaxUid
Unknown == -1

VARIABLES
  activeMailboxIndex,    \* this.activeMailboxIndex, plus 1
  activeMailbox,         \* this.activeMailbox
  mailboxCounts,         \* this.mailboxCounts
  mailboxUidWatermarks,  \* this.mailboxUidWatermarks
  mailboxUidValidity,    \* this.mailboxUidValidity
  pendingEnrichment,     \* last link of this.pendingEnrichment if unsettled
  opens,                 \* the mailbox thread t is opening
  awaits,                \* the link thread t awaits while draining
  link,                  \* the calls of emitNewMail
  wire,                  \* commands issued on a connection and not answered
  selected,              \* mailbox selected in the session (external)
  view,                  \* messages announced to the session (external)
  mail,                  \* messages in each mailbox (external)
  uidNext,               \* UIDNEXT of each mailbox (external)
  uidValidity,           \* UIDVALIDITY of each mailbox (external)
  reports,               \* newMail events per message, up to 2 (history)
  baseline               \* last watermark taken from UIDNEXT (history)

maps == <<mailboxCounts, mailboxUidWatermarks, mailboxUidValidity>>
rotation == <<activeMailboxIndex, activeMailbox>>
enrichment == <<pendingEnrichment, awaits, link>>
session == <<selected, view>>
server == <<mail, uidNext, uidValidity>>
history == <<reports, baseline>>
ownVars == <<rotation, maps, enrichment, opens, wire, session, server, history>>
vars == <<supVars, ownVars>>

NewLink(m, prev) ==
  [st |-> "waiting", box |-> m, prev |-> prev, to |-> NoClient, above |-> 0, attempt |-> 0,
   got |-> {}]
FreeLink == [NewLink(0, NoLink) EXCEPT !.st = "free"]

LinkRecords ==
  [st : {"free", "waiting", "fetching", "listed"}, box : 0..Max(MailboxCounts),
   prev : Links \cup {NoLink}, to : Clients \cup {NoClient}, above : Int,
   attempt : 0..FetchAttempts, got : SUBSET Uids]

TypeOK ==
  /\ SupTypeOK
  /\ activeMailboxIndex \in 0..Max(MailboxCounts)
  /\ activeMailbox \in 0..Max(MailboxCounts)
  /\ mailboxCounts \in [Mailboxes -> Int]
  /\ mailboxUidWatermarks \in [Mailboxes -> Int]
  /\ mailboxUidValidity \in [Mailboxes -> Int]
  /\ pendingEnrichment \in Links \cup {NoLink}
  /\ opens \in [Clients -> 0..Max(MailboxCounts)]
  /\ awaits \in [Clients -> Links \cup {NoLink}]
  /\ link \in [Links -> LinkRecords]
  /\ wire \in [Clients -> Seq(Clients \cup Links)]
  /\ selected \in [Clients -> 0..Max(MailboxCounts)]
  /\ view \in [Clients -> SUBSET Uids]
  /\ mail \in [Mailboxes -> SUBSET Uids]
  /\ uidNext \in [Mailboxes -> 1..(MaxUid + 1)]
  /\ uidValidity \in [Mailboxes -> 0..MaxRebuilds]
  /\ reports \in [Mailboxes -> [Uids -> 0..2]]
  /\ baseline \in [Mailboxes -> Int]

AllUnknown == [m \in Mailboxes |-> Unknown]

Init ==
  /\ SupInit
  /\ activeMailboxIndex = 0
  /\ activeMailbox = 0
  /\ mailboxCounts = AllUnknown
  /\ mailboxUidWatermarks = AllUnknown
  /\ mailboxUidValidity = AllUnknown
  /\ pendingEnrichment = NoLink
  /\ opens = [t \in Clients |-> 0]
  /\ awaits = [t \in Clients |-> NoLink]
  /\ link = [l \in Links |-> FreeLink]
  /\ wire = [c \in Clients |-> <<>>]
  /\ selected = [c \in Clients |-> 0]
  /\ view = [c \in Clients |-> {}]
  /\ mail = [m \in Mailboxes |-> {}]
  /\ uidNext = [m \in Mailboxes |-> 1]
  /\ uidValidity = [m \in Mailboxes |-> 0]
  /\ reports = [m \in Mailboxes |-> [u \in Uids |-> 0]]
  /\ baseline = AllUnknown

-----------------------------------------------------------------------------
(* Helpers.                                                                *)

\* The commands of w without cmd, which is among them at most once.
Without(w, cmd) ==
  IF \A i \in 1..Len(w) : w[i] # cmd THEN w
  ELSE LET i == CHOOSE i \in 1..Len(w) : w[i] = cmd
       IN  SubSeq(w, 1, i - 1) \o SubSeq(w, i + 1, Len(w))

Answered(c, cmd) == [wire EXCEPT ![c] = Without(@, cmd)]
Issued(w, c, cmd) == [w EXCEPT ![c] = Append(@, cmd)]
FirstOn(c, cmd) == wire[c] # <<>> /\ Head(wire[c]) = cmd

\* What stop() and handleConnectionDrop() forget about the mailboxes.
ForgetMailboxes ==
  /\ activeMailbox' = 0
  /\ mailboxCounts' = AllUnknown
  /\ mailboxUidWatermarks' = AllUnknown
  /\ mailboxUidValidity' = AllUnknown
  /\ pendingEnrichment' = NoLink

\* Promise callbacks that are due run before the next event of the loop: a
\* thread whose awaited enrichment has settled, then the next chain link.
DrainDue(t) == pc[t] = "draining" /\ awaits[t] = NoLink
LinkDue(l) == link[l].st = "waiting" /\ link[l].prev = NoLink
Idle == (\A t \in Clients : ~DrainDue(t)) /\ (\A l \in Links : ~LinkDue(l))

\* Promise l has settled.
Settle(l) ==
  /\ link' = [k \in Links |->
                IF k = l THEN FreeLink
                ELSE [link[k] EXCEPT !.prev = IF @ = l THEN NoLink ELSE @]]
  /\ pendingEnrichment' = IF pendingEnrichment = l THEN NoLink ELSE pendingEnrichment
  /\ awaits' = [t \in Clients |-> IF awaits[t] = l THEN NoLink ELSE awaits[t]]

\* openActiveMailbox() of thread t on client c up to `await mailboxOpen`.
OpenActiveMailbox(t, c, index) ==
  /\ activeMailboxIndex' = index
  /\ activeMailbox' = index
  /\ opens' = [opens EXCEPT ![t] = index]
  /\ wire' = Issued(wire, c, t)

\* (activeMailboxIndex + 1) % watchMailboxes.length, plus 1
NextIndex == (activeMailboxIndex % numMailboxes) + 1

\* Mutant: UIDNEXT itself is taken for the highest UID there is.
Baseline_OffByOne(m) == uidNext[m]

\* result.uidNext - 1
Baseline(m) == uidNext[m] - 1

\* updateUidWatermark for mailbox m, with the result's uidNext present, and
\* its uidValidity if known.
UpdateUidWatermark(m, known) ==
  LET changed == known /\ mailboxUidValidity[m] \notin {Unknown, uidValidity[m]}
      reset == changed \/ mailboxUidWatermarks[m] = Unknown
  IN  /\ mailboxUidValidity' =
           [mailboxUidValidity EXCEPT ![m] = IF known THEN uidValidity[m] ELSE @]
      /\ mailboxUidWatermarks' =
           [mailboxUidWatermarks EXCEPT ![m] = IF reset THEN Baseline(m) ELSE @]
      /\ baseline' = [baseline EXCEPT ![m] = IF reset THEN Baseline(m) ELSE @]

\* Mutant: a known count survives the open.
CountOpened_OldCount(m) ==
  mailboxCounts' = [mailboxCounts EXCEPT ![m] = IF @ = Unknown THEN Cardinality(mail[m]) ELSE @]

\* this.mailboxCounts.set(mailbox, exists), where exists is result.exists or,
\* without one, what the map has.
CountOpened(m) ==
  \/ mailboxCounts' = [mailboxCounts EXCEPT ![m] = Cardinality(mail[m])]
  \/ /\ "noExists" \in Faults
     /\ mailboxCounts' = [mailboxCounts EXCEPT ![m] = IF @ = Unknown THEN 0 ELSE @]

\* The rest of openActiveMailbox() when the mailboxOpen of thread t resolves.
MailboxOpened(t) ==
  LET m == opens[t]
      c == on[t]
  IN  /\ FirstOn(c, t)
      /\ wire' = Answered(c, t)
      /\ selected' = [selected EXCEPT ![c] = m]
      /\ view' = [view EXCEPT ![c] = mail[m]]
      /\ CountOpened(m)
      /\ \/ UpdateUidWatermark(m, TRUE)
         \/ "noUidValidity" \in Faults /\ UpdateUidWatermark(m, FALSE)
         \/ /\ "noUidNext" \in Faults
            /\ UNCHANGED <<mailboxUidValidity, mailboxUidWatermarks, baseline>>

\* A new client has no history: nothing that is still pending refers to it.
FreshClient(c) ==
  /\ wire[c] = <<>>
  /\ \A l \in Links : link[l].to # c
  /\ selected' = [selected EXCEPT ![c] = 0]
  /\ view' = [view EXCEPT ![c] = {}]

-----------------------------------------------------------------------------
(* start(), stop() and the reconnect timer.                                *)

StartWatcher(c) ==
  /\ Start(c)
  /\ FreshClient(c)
  /\ UNCHANGED <<rotation, maps, enrichment, opens, wire, server, history>>

StopWatcher ==
  /\ Stop
  /\ ForgetMailboxes
  /\ UNCHANGED <<activeMailboxIndex, awaits, link, opens, wire, session, server, history>>

\* Unless timers may overtake, the fetches of the lost connection are over.
ReconnectTimerFires(c) ==
  /\ TimerFires(c)
  /\ "overtake" \in Faults \/ \A l \in Links : link[l].st = "free"
  /\ FreshClient(c)
  /\ UNCHANGED <<rotation, maps, enrichment, opens, wire, server, history>>

-----------------------------------------------------------------------------
(* connectAndWatch.                                                        *)

ConnectedAfterStop(c) ==
  /\ ConnectAfterStop(c)
  /\ ForgetMailboxes
  /\ UNCHANGED <<activeMailboxIndex, awaits, link, opens, wire, session, server, history>>

ConnectedOpensFirst(c) ==
  /\ ConnectThenOpen(c)
  /\ OpenActiveMailbox(c, c, 1)
  /\ UNCHANGED <<maps, enrichment, session, server, history>>

FirstOpened(t) ==
  /\ OpenOk(t)
  /\ MailboxOpened(t)
  /\ UNCHANGED <<rotation, enrichment, opens, server, reports>>

AttemptRejected(t) ==
  /\ AttemptFails(t)
  /\ wire' = Answered(on[t], t)
  /\ UNCHANGED <<rotation, maps, enrichment, opens, session, server, history>>

ReconnectFailed(t) ==
  /\ HandleReconnectFailure(t)
  /\ ForgetMailboxes
  /\ UNCHANGED <<activeMailboxIndex, awaits, link, opens, wire, session, server, history>>

\* Handlers that leave the mailbox state alone.
SupervisionOnly(t) ==
  /\ ConnectNothingToWatch(t) \/ StartRejects(t) \/ StopUnwinds(t) \/ LogoutCompletes(t)
     \/ ErrorWithoutListener(t)
  /\ UNCHANGED ownVars

-----------------------------------------------------------------------------
(* The IDLE loop and connection drops.                                     *)

IdleResolved(t) ==
  /\ IdleEnds(t)
  /\ awaits' = [awaits EXCEPT ![t] = IF StillCurrent(t) THEN pendingEnrichment ELSE NoLink]
  /\ UNCHANGED <<rotation, maps, pendingEnrichment, link, opens, wire, session, server, history>>

IdleRejected(t) ==
  /\ IdleFails(t)
  /\ IF StillCurrent(t) THEN ForgetMailboxes
     ELSE UNCHANGED <<activeMailbox, maps, pendingEnrichment>>
  /\ UNCHANGED <<activeMailboxIndex, awaits, link, opens, wire, session, server, history>>

EnrichmentDrained(t) ==
  /\ DrainDue(t)
  /\ \/ /\ DrainedStale(t) \/ DrainedIdleAgain(t)
        /\ UNCHANGED <<rotation, opens, wire>>
     \/ /\ DrainedReopen(t)
        /\ OpenActiveMailbox(t, on[t], NextIndex)
  /\ UNCHANGED <<maps, enrichment, session, server, history>>

NextOpened(t) ==
  /\ ReopenOk(t)
  /\ MailboxOpened(t)
  /\ UNCHANGED <<rotation, enrichment, opens, server, reports>>

NextOpenRejected(t) ==
  /\ ReopenFails(t)
  /\ ForgetMailboxes
  /\ wire' = Answered(on[t], t)
  /\ UNCHANGED <<activeMailboxIndex, awaits, link, opens, session, server, history>>

ConnectionEvent(c) ==
  /\ HandleError(c) \/ HandleClose(c)
  /\ IF started THEN ForgetMailboxes
     ELSE UNCHANGED <<activeMailbox, maps, pendingEnrichment>>
  /\ UNCHANGED <<activeMailboxIndex, awaits, link, opens, wire, session, server, history>>

-----------------------------------------------------------------------------
(* Mailbox events and their enrichment.                                    *)

\* Mutant: an EXISTS during an enrichment does not chain another one.
ChainEnrichment_OnlyWhenIdle(m) ==
  IF pendingEnrichment # NoLink THEN UNCHANGED <<pendingEnrichment, link>>
  ELSE \E l \in Links :
         /\ link[l].st = "free"
         /\ link' = [link EXCEPT ![l] = NewLink(m, NoLink)]
         /\ pendingEnrichment' = l

\* A call of emitNewMail is chained to the enrichment already pending.
ChainEnrichment(m) ==
  \E l \in Links :
    /\ link[l].st = "free"
    /\ link' = [link EXCEPT ![l] = NewLink(m, pendingEnrichment)]
    /\ pendingEnrichment' = l

\* The session announces all new messages of its mailbox in one EXISTS; the
\* handler books them on activeMailbox, whichever mailbox that is by now.
HandleExists(c) ==
  /\ c \in attached /\ Up(c)
  /\ selected[c] # 0
  /\ ~(mail[selected[c]] \subseteq view[c])
  /\ view' = [view EXCEPT ![c] = @ \cup mail[selected[c]]]
  /\ LET m == activeMailbox
         count == Cardinality(view'[c])
         previousCount == IF mailboxCounts[m] = Unknown THEN 0 ELSE mailboxCounts[m]
     IN  IF m = 0 THEN UNCHANGED <<mailboxCounts, pendingEnrichment, link>>
         ELSE /\ mailboxCounts' = [mailboxCounts EXCEPT ![m] = count]
              /\ IF count <= previousCount THEN UNCHANGED <<pendingEnrichment, link>>
                 ELSE ChainEnrichment(m)
  /\ UNCHANGED <<supVars, rotation, mailboxUidWatermarks, mailboxUidValidity, awaits,
                 opens, wire, selected, server, history>>

CountExpunged ==
  [m \in Mailboxes |-> IF m = activeMailbox /\ mailboxCounts[m] > 0
                       THEN mailboxCounts[m] - 1 ELSE mailboxCounts[m]]

HandleExpunge(c) ==
  /\ c \in attached /\ Up(c)
  /\ selected[c] # 0
  /\ \E u \in view[c] \ mail[selected[c]] : view' = [view EXCEPT ![c] = @ \ {u}]
  /\ mailboxCounts' = CountExpunged
  /\ UNCHANGED <<supVars, rotation, mailboxUidWatermarks, mailboxUidValidity, enrichment,
                 opens, wire, selected, server, history>>

\* emitNewMail up to its first await: client and watermark are read now.
EmitNewMail(l) ==
  /\ LinkDue(l)
  /\ \A t \in Clients : ~DrainDue(t)
  /\ LET m == link[l].box
     IN  IF client = NoClient \/ mailboxUidWatermarks[m] = Unknown
         THEN Settle(l) /\ UNCHANGED wire
         ELSE /\ link' = [link EXCEPT ![l] =
                            [@ EXCEPT !.st = "fetching", !.to = client, !.attempt = 1,
                                      !.above = mailboxUidWatermarks[m]]]
              /\ wire' = Issued(wire, client, l)
              /\ UNCHANGED <<pendingEnrichment, awaits>>
  /\ UNCHANGED <<supVars, rotation, maps, opens, session, server, history>>

\* Mutant: the range starts one UID too late.
RangeStart_Late(l) == link[l].above + 2

RangeStart(l) == link[l].above + 1

\* UID FETCH from:* in the session of client c: with nothing there, some
\* servers return the last message of the mailbox.
FetchAll(c, from) ==
  LET here == view[c] \cap mail[selected[c]]
      new == {u \in here : u >= from}
  IN  IF new = {} /\ here # {} THEN {Max(here)} ELSE new

\* Mutant: the fetch result is trusted to hold new UIDs only.
NewUids_Trusting(l) == link[l].got

\* The UIDs of the result that are above the watermark.
NewUids(l) == {u \in link[l].got : u > link[l].above}

Fetching(l) == link[l].st \in {"fetching", "listed"}

\* The server carries out the FETCH; a message announced before the fetch
\* resolves need not be in the result.
FetchListed(l) ==
  /\ link[l].st = "fetching"
  /\ LET c == link[l].to
     IN  /\ FirstOn(c, l) /\ Answers(c)
         /\ selected[c] # 0
         /\ link' = [link EXCEPT ![l].st = "listed", ![l].got = FetchAll(c, RangeStart(l))]
  /\ UNCHANGED <<supVars, rotation, maps, pendingEnrichment, awaits, opens, wire, session,
                 server, history>>

\* The fetch resolves: the UIDs above the watermark become newMail events.
FetchResolved(l) ==
  /\ link[l].st = "listed"
  /\ LET c == link[l].to
         m == link[l].box
         uids == NewUids(l)
     IN  /\ Answers(c)
         /\ wire' = Answered(c, l)
         /\ IF uids = {} THEN UNCHANGED <<mailboxUidWatermarks, reports>>
            ELSE /\ mailboxUidWatermarks' = [mailboxUidWatermarks EXCEPT ![m] = Max(uids)]
                 /\ reports' = [reports EXCEPT ![m] =
                                  [u \in Uids |-> IF u \in uids THEN Min({2, @[u] + 1}) ELSE @[u]]]
  /\ Settle(l)
  /\ UNCHANGED <<supVars, rotation, mailboxCounts, mailboxUidValidity, opens, session,
                 server, baseline>>

\* Mutant: one attempt too many.
MayRetry_OneMore(l) == link[l].attempt <= FetchAttempts

MayRetry(l) == link[l].attempt < FetchAttempts

\* The fetch rejects: fetchNewUids tries again or gives up.
FetchRejected(l) ==
  /\ Fetching(l)
  /\ LET c == link[l].to
     IN  /\ ~Up(c) \/ ("fetch" \in Faults /\ FirstOn(c, l))
         /\ IF MayRetry(l)
            THEN /\ link' = [link EXCEPT ![l].st = "fetching", ![l].got = {}, ![l].attempt = @ + 1]
                 /\ wire' = Issued(Answered(c, l), c, l)
                 /\ UNCHANGED <<pendingEnrichment, awaits>>
            ELSE Settle(l) /\ wire' = Answered(c, l)
  /\ UNCHANGED <<supVars, rotation, maps, opens, session, server, history>>

-----------------------------------------------------------------------------
(* The mail server (external).                                             *)

Deliver(m) ==
  /\ uidNext[m] <= MaxUid
  /\ mail' = [mail EXCEPT ![m] = @ \cup {uidNext[m]}]
  /\ uidNext' = [uidNext EXCEPT ![m] = @ + 1]
  /\ UNCHANGED <<supVars, rotation, maps, enrichment, opens, wire, session, uidValidity, history>>

Purge(m) ==
  /\ "expunge" \in Faults
  /\ \E u \in mail[m] : mail' = [mail EXCEPT ![m] = @ \ {u}]
  /\ UNCHANGED <<supVars, rotation, maps, enrichment, opens, wire, session, uidNext,
                 uidValidity, history>>

\* A rebuild renumbers the messages of a mailbox no session has selected.
Rebuild(m) ==
  /\ "rebuild" \in Faults
  /\ uidValidity[m] < MaxRebuilds
  /\ \A c \in Clients : conn[c] \in {"up", "leaving"} => selected[c] # m
  /\ uidValidity' = [uidValidity EXCEPT ![m] = @ + 1]
  /\ mail' = [mail EXCEPT ![m] = 1..Cardinality(@)]
  /\ uidNext' = [uidNext EXCEPT ![m] = Cardinality(mail[m]) + 1]
  /\ reports' = [reports EXCEPT ![m] = [u \in Uids |-> 0]]
  /\ UNCHANGED <<supVars, rotation, maps, enrichment, opens, wire, session, baseline>>

-----------------------------------------------------------------------------
Callbacks ==
  \/ \E t \in Clients : EnrichmentDrained(t)
  \/ \E l \in Links : EmitNewMail(l)

\* An awaited connect, mailboxOpen or logout settles.
Settlement(t) ==
  \/ ConnectedAfterStop(t) \/ ConnectedOpensFirst(t) \/ FirstOpened(t)
  \/ AttemptRejected(t) \/ ReconnectFailed(t) \/ SupervisionOnly(t)
  \/ NextOpened(t) \/ NextOpenRejected(t)

Events ==
  \/ StopWatcher
  \/ TimerExpires /\ UNCHANGED ownVars
  \/ \E c \in Clients :
       \/ StartWatcher(c) \/ ReconnectTimerFires(c)
       \/ Settlement(c) \/ IdleResolved(c) \/ IdleRejected(c)
       \/ ConnectionEvent(c) \/ HandleExists(c) \/ HandleExpunge(c)
  \/ \E l \in Links : FetchListed(l) \/ FetchResolved(l) \/ FetchRejected(l)
  \/ \E m \in Mailboxes : Deliver(m) \/ Purge(m) \/ Rebuild(m)

Next == ~crashed /\ (Callbacks \/ (Idle /\ Events))

Spec == Init /\ [][Next]_vars

-----------------------------------------------------------------------------
(* Properties.                                                             *)

\* Thread t is past an opening and idles, or waits for enrichment, on the
\* current client.
Settled(t) == pc[t] \in {"idling", "draining"} /\ StillCurrent(t)

Current(m) == mailboxUidValidity[m] = uidValidity[m]

Accounted(m) == {u \in Uids : u <= baseline[m] \/ reports[m][u] > 0}

(* The message count that decides whether an EXISTS is news is the count   *)
(* of the session's own mailbox once a mailbox is open: were it too high,  *)
(* arrivals would be ignored, whatever EXISTS and EXPUNGE came before.     *)
CountMirrorsSession ==
  \A t \in Clients : Settled(t) =>
    /\ activeMailbox = selected[client]
    /\ mailboxCounts[activeMailbox] = Cardinality(view[client])

(* The watermark never passes a message that is still in the mailbox and   *)
(* has not been reported: what is above the baseline and not above the     *)
(* watermark has had its newMail event.                                    *)
NothingSkipped ==
  \A m \in Mailboxes : Current(m) =>
    \A u \in mail[m] : u <= mailboxUidWatermarks[m] => u \in Accounted(m)

(* README: newMail "fires once per message".                               *)
NoDuplicateNewMail ==
  \A m \in Mailboxes : \A u \in Uids : reports[m][u] <= 1

(* README: a newMail event carries the mailbox and "the new message's UID" *)
(* in it.  No event names a UID that its mailbox has never given out, as   *)
(* one would whose FETCH ran after the round-robin had opened another      *)
(* mailbox on the connection.                                              *)
NewMailNamesMessage ==
  \A m \in Mailboxes : \A u \in Uids : reports[m][u] > 0 => u < uidNext[m]

(* While the watcher idles with no enrichment pending and no announcement  *)
(* outstanding, every message of the mailbox is reported or was there when *)
(* the baseline was taken: none waits for a later arrival to be noticed.   *)
CaughtUp ==
  \A t \in Clients :
    /\ pc[t] = "idling" /\ StillCurrent(t)
    /\ \A l \in Links : link[l].st = "free"
    /\ view[client] = mail[selected[client]]
    => mail[activeMailbox] \subseteq Accounted(activeMailbox)

(* The comment on getMailboxMessageCount: undefined after stop().          *)
CountsUndefinedAfterStop == ~started => mailboxCounts = AllUnknown

(* The comment on updateUidWatermark: stop() and handleConnectionDrop()    *)
(* clear the maps, so the first open after a reconnect takes the baseline  *)
(* afresh.                                                                 *)
NoWatermarkWhileDown == client = NoClient => mailboxUidWatermarks = AllUnknown

\* A fetch for mailbox m, which has been renumbered, is listed and holds a
\* watermark read before.
OutdatedFetch(m) ==
  /\ uidValidity[m] # 0
  /\ \E l \in Links :
       /\ link[l].st = "listed" /\ link[l].box = m
       /\ link[l].above # mailboxUidWatermarks[m]

(* While a connection lasts and UIDVALIDITY with it, no watermark goes     *)
(* back: leaving a mailbox and opening it again, or a late fetch, must not *)
(* make old messages new again.  The exception: a fetch booked on the      *)
(* mailbox about to be opened, when that open finds it renumbered.         *)
WatermarkKept ==
  [][client' = client /\ client # NoClient =>
       \A m \in Mailboxes : mailboxUidValidity'[m] = mailboxUidValidity[m] =>
         mailboxUidWatermarks'[m] >= mailboxUidWatermarks[m] \/ OutdatedFetch(m)]_vars

-----------------------------------------------------------------------------
(* The feed of newMail events: mailbox 1, its watermark as it is.          *)

Feed == INSTANCE NewMailFeed WITH
          mail     <- mail[1],
          uidNext  <- uidNext[1],
          last     <- mailboxUidWatermarks[1],
          reported <- reports[1]

(* An account with one mailbox keeps the feed's promise: whatever FETCHes  *)
(* fail, whatever is expunged, and whenever connections come and go, each  *)
(* batch of newMail events is new, leaves nothing out and moves the        *)
(* watermark to its end, and nothing else but a connection moves it.       *)
ImplementsFeed == Feed!FeedSpec

-----------------------------------------------------------------------------
(* Liveness.                                                               *)

\* As in SupFairness; a live session announces its messages, and commands are
\* answered.  None of these is stated with the guard Idle: a pending event
\* waits while callbacks run, but they cannot keep it waiting for ever.
Fairness ==
  /\ \A t \in Clients :
       /\ WF_vars(Settlement(t))
       /\ WF_vars(EnrichmentDrained(t))
       /\ WF_vars(conn[on[t]] = "closed" /\ (IdleResolved(t) \/ IdleRejected(t)))
       /\ WF_vars(HandleExists(t))
  /\ WF_vars(\E c \in Clients : ReconnectTimerFires(c))
  /\ \A l \in Links :
       /\ WF_vars(EmitNewMail(l))
       /\ WF_vars(FetchListed(l) \/ FetchResolved(l) \/ FetchRejected(l))

FairSpec == Spec /\ Fairness

\* The last attempt of a fetch for mailbox m, on a live connection: should it
\* fail too, the range is left to the next EXISTS.
LastTry(m) ==
  \E l \in Links :
    /\ Fetching(l) /\ link[l].box = m /\ link[l].attempt = FetchAttempts
    /\ Up(link[l].to)

(* README: "no message is silently missed".  Every message that reaches    *)
(* the mailbox and stays there is reported, or was there when a connection *)
(* took its baseline, however connections come and go; short of a stop or  *)
(* the end of the process, only a live connection whose fetch is rejected  *)
(* FETCH_UID_ATTEMPTS times may put it off.                                *)
EventuallyAccounted ==
  \A m \in Mailboxes :
    \/ <>LastTry(m)
    \/ \A u \in Uids :
         (started /\ u \in mail[m]) ~> (u \in Accounted(m) \/ u \notin mail[m] \/ ~started \/ crashed)

(* README, watchMailboxes: each of them is watched over IDLE; the round-   *)
(* robin comes to every mailbox of a watcher that stays up.                *)
WatchesEveryMailbox ==
  \A m \in Mailboxes : started ~> (~started \/ client = NoClient \/ activeMailbox = m)

=============================================================================
