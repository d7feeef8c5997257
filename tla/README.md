# A formal model of the mail tool server

This directory holds TLA+ modules that model the mail tool server of this
repository (`src/src`, TypeScript on Node.js), TLC configurations that check them
on small instances, and theorems about them checked by TLAPS. The code is the
reference: a definition says what the code does, and `PROJECT.json` ("map") names
the lines it stands for. Where code and documentation disagree, the model follows the
code and a run named `find_...` shows the disagreement.

- [The system](#the-system): components, their state, what is hard about them
- [Modules](#modules): what models what, and how
- [Runs](#runs): what is checked, bounds, fairness, disagreements found
- [Proofs](#proofs)
- [What is not modelled](#what-is-not-modelled)
- [Plan](#plan)

## The system

One process, started by `server.ts`. For each configured mail account it runs an
`AccountWatcher`, which keeps one IMAP connection in IDLE and emits mailbox events;
the events are POSTed to the account's webhooks. Next to that, an HTTP API and an MCP
server execute mailbox operations on request, each on a short-lived connection of its
own. Nothing is persisted, except what the operations do to the mail store and the
objects staged for download.

```
 server.ts ── start/stop ──> AccountWatcher ── newMail, ... ──> fanOut ──> WebhookDispatcher ── POST ──> endpoint
     │                           │ IDLE, UID FETCH
     │                           v
     │                       IMAP server
     │                           ^ one connection per request
     └─ listen/close ─> HTTP API ┤
                        MCP tools┴─> mailboxService ── withClient ──> IMAP server
                           └───────> blobStore (get_attachment, export_message)
```

| Component | State | Operations | What is hard | What makes it correct |
| --- | --- | --- | --- | --- |
| Watcher: supervision (`imap/watcher.ts`) | `started`, `client`, `reconnectTimer`, failure counters, `escalated`; every suspended async call; listeners on clients | start, stop, connect, IDLE loop, drop, backoff, reconnect, escalate | callbacks of an old client, stop() during a connect, timers that overtake an attempt, a half-made connection | always a way back to a watched connection; one connection; every attempt counted once; nothing left after stop |
| Watcher: mailboxes (`imap/watcher.ts`) | `activeMailbox`, counts, UID watermarks and validities, the chain of enrichment promises | round-robin, EXISTS, EXPUNGE, enrichment FETCH with one retry | state read before an await and written after it; EXISTS during a SELECT; ranges `n:*` | one newMail per message, none skipped; counts belong to the open mailbox |
| Event delivery (`events/`) | none but the calls in flight | fan-out, POST, one retry | endpoints that do not answer, lost responses, losses nobody awaits | attempts within the budget, every message notified in spite of other endpoints, losses leave a trace |
| Server lifecycle (`server.ts`) | the watchers, `app`, `mcpServer` | start, listen, signals, shutdown | signals during startup, second signals, work in flight | IDLE connections closed and requests answered before exit; shutdown ends |
| Mailbox service (`services/mailboxService.ts`) | none of its own | eight operations through `withClient`; the walks over a message's MIME tree | resets at every await, races of two callers in the store; part ids, and which part is the body | an OK is true, a NOT_FOUND of a read as well; connections closed; read-only accounts untouched; what is listed can be fetched |
| HTTP API and MCP tools (`api/`, `mcp/`) | none | routes, tools, error mapping | the same outcomes turned into answers and metrics in many places | both fronts and the metrics agree |
| Object storage (`storage/blobStore.ts`) | objects in the bucket | stage | failure between upload and signature | an OK has its content in storage |
| Telemetry (`telemetry/`) | registered gauges | decorators that record outcomes | each sees one part of a request | together they say what the caller was told |
| Client factory, configuration, logging, documentation generator | – | – | pure or observing only | see [below](#what-is-not-modelled) |

`PROJECT.json` ("hazards") lists what is hard to test, at the line where it bites,
with the property that watches over it.

## Modules

| Module | Models | Built on |
| --- | --- | --- |
| `WatcherSupervision` | connection lifecycle of one watcher | – |
| `ReconnectPolicy` | abstract: what the supervision promises an operator | – |
| `AccountWatcher` | the whole watcher: supervision, mailboxes, enrichment, newMail | EXTENDS `WatcherSupervision` |
| `NewMailFeed` | abstract: what the watcher promises of one mailbox, a feed of newMail events | – |
| `EventDelivery` | fan-out and webhook delivery of one account | – |
| `MailNotifications` | from an arriving message to the webhooks | EXTENDS `NewMailFeed`, `EventDelivery` |
| `ServerLifecycle` | the process: startup, servers, signals, exit | EXTENDS `EventDelivery` |
| `MailboxOperations` | HTTP and MCP operations on the mail store | – |
| `MessagePaging` | an agent paging through `list_messages` | – |
| `MessageStructure` | `get_message` and `get_attachment` on a MIME structure | – |
| `MCWatcherSupervision`, `MCAccountWatcher`, `MCMailboxOperations` | symmetry sets for TLC | the module they name |
| `MCMessageStructure` | the structures TLC checks | `MessageStructure` |
| `WatcherSupervisionProofs`, `AccountWatcherProofs`, `EventDeliveryProofs`, `MailNotificationsProofs`, `ServerLifecycleProofs`, `MailboxOperationsProofs` | theorems and proofs | the module they name, `TLAPS`; the proofs of the modules that one extends |
| `MessageReadingProofs` | theorems and proofs | `MessagePaging`, `MessageStructure` |
| `UidRanks` | lemmas on finite sets of UIDs: the highest, and the number of those above one | – |

Definitions called `X_Something` and commented `Mutant:` stand beside the definition
`X` they vary: each is a plausible bug, and `PROJECT.json` ("mutants") pairs it with the
property that finds it. No behaviour specification uses them. Where a bug would sit in
one clause of a handler, that clause has a definition of its own (`ScheduleReconnect`,
`Baseline`, `Awaiting`).

### WatcherSupervision and AccountWatcher

Node runs one callback at a time, so an action is the code from the settlement of an
awaited promise, a timer or an event up to the next `await`. The instance fields are
variables of the same name. Suspended calls are state as well: every client is made by
exactly one `connectAndWatch`, and that call with the IDLE loop it starts is a *thread*
named after the client. `pc[t]` says which await the thread sits in, and `on[t]` is the
captured local `client`, which need not be the client it made once attempts overlap
(`beginIdle` and `openActiveMailbox` read `this.client`). A client that nothing refers to
any more is reused, so a finite set of clients stands for any number of `new ImapFlow()`.
`numMailboxes` is chosen from `MailboxCounts` in the initial state and never changes, so one
run covers accounts with none, one and two mailboxes.

The client library is external: `conn[c]` is the state of a connection, `attached` the
clients with the watcher's listeners. `error` may come before `close` or not at all.

`AccountWatcher` joins each of these actions with what the same handler does to the
mailboxes (`StopWatcher == Stop /\ ForgetMailboxes ...`), so a handler is always one
action. Each connection answers the commands in `wire[c]` in order; `view[c]` is what
its session has been told, `mail[m]` what the mailbox holds. A call of `emitNewMail` is
a link of the promise chain; `pendingEnrichment` is the last one. The server carries out a
FETCH (`FetchListed`) before the client resolves it (`FetchResolved`), so a message
announced in between is not in the result, and a FETCH runs in whatever mailbox the
session has selected by then. Promise callbacks that
are due (`DrainDue`, `LinkDue`) run before the next event, as microtasks do (`Idle`).

The environment's bad habits are switched on per run through `Faults`:

| Fault | Assumption |
| --- | --- |
| `overtake` | a reconnect timer may fire while an earlier attempt still unwinds (the jittered delay may round to 0); without it attempts are serial |
| `lateError` | a client may emit `error` while it is logging out |
| `linger` | a command pending at logout may still be answered |
| `fetch` | a FETCH may fail |
| `noExists`, `noUidNext`, `noUidValidity` | the result of a mailboxOpen may lack `exists`, `uidNext` or `uidValidity` (the code tests for each; a server that follows IMAP sends `exists`) |
| `expunge`, `rebuild` | messages are removed; a mailbox gets a new UIDVALIDITY |

### NewMailFeed

What `AccountWatcher` comes to for one mailbox when connections, commands and promise
chains are taken away: a watermark while a connection lasts, and reports that leave out no
message below their highest. `AccountWatcher` implements it (`ImplementsFeed`, through
`Feed == INSTANCE NewMailFeed WITH ...`): `mail` and `uidNext` are the mailbox, `last` is the
watermark of the map (unknown while it has none), `reported` counts the newMail events. The
mapping is stated for an account with one mailbox; with two the claim is false, because a fetch may
run in the wrong mailbox (`find_wrong_mailbox`).

### EventDelivery, MailNotifications and ServerLifecycle

Events are numbered; a delivery is one call of `handle()`. `Retry` and `GiveUp` are the two
branches of the catch in `postWithRetry`; `HandleSettles` goes through the decorator
`withDispatcherMetrics`. A POST that fails may have reached the endpoint all the same, so
`posts` counts every call of `fetch`. `Logger` says whether
`createDispatcher` was given a logger: `server.ts` gives it none, and then the metric is
the only trace of a loss.

`MailNotifications` joins the two: a report of the feed emits one event per message in the
callback of the enrichment, and each is handed to every dispatcher before the next. Because
`AccountWatcher` implements the feed, what holds here of an account with one mailbox holds of
the watcher with its webhooks. Its two properties reach from the mailbox to the endpoint: an
upper bound on the copies of a message, and that it is notified at all.

`ServerLifecycle` reduces a watcher to what `start()` and `stop()` show of it and adds the
`Promise.all`s of `start` and of each `shutdown`, one per signal (`awaited[k]`). The
deliveries go on in the same process until it exits. The `onClose` hook of `app.ts` stops the
watchers a second time when the HTTP server has closed (`OnClose`), and finds nothing to do.

### MailboxOperations, MessagePaging and MessageStructure

A caller sends one request, by HTTP or MCP; callers meet only in the store. `todo` holds the commands
of the operation, `Execute` is the server carrying one out, `Proceed` the handler
getting the reply. `Reset` is the error event winning the race of `withClient`: the
command stays in flight and may still be executed (`todo` is kept), but nobody reads
its reply. `Refusal` is the chain of checks before a connection is opened; `list_accounts`
opens none. Every file of routes or tools has a definition that says which operations it
registers and whether its handler turns a false into a NotFoundError; the two fronts are
their unions. `HttpCode` and `McpCode` are the two error mappings, `MetricOutcome` the third;
`ConnectSettled` and `StageSettled` are the decorators of `connect()` and `stage()`. Accounts in
`MatchingIds` have an id that the not-found pattern matches, which is possible because error
texts quote the id. Other texts quote the mailbox, the part or the attachment's name, or are the
server's own words: a `failed` operation may therefore turn out `noMailbox` (`Texts`), which is answered
NOT_FOUND.

What the IMAP server and ImapFlow answer is external, and assumed to be this (`Replies`, `Applies`,
`Interrupted`):

- UID MOVE and UID STORE of a UID that is gone are OK without effect (RFC 3501, 6.4.8), and ImapFlow then
  returns a result that is not false;
- the server may answer NO to MOVE, STORE and APPEND, with the message where it was. ImapFlow makes
  false of the first two;
- `fetchOne` is false only if the message is gone; otherwise a read succeeds or is an error;
- when the connection goes under a command, ImapFlow rejects it, or (MOVE, STORE) returns false. The
  texts of such rejections, unlike the server's, and those of the S3 client do not read like a missing mailbox.

`MessagePaging` is the pure part of `list_messages` under a loop: an agent that passes the
highest uid it has seen as `sinceUid`.

`MessageStructure` holds the walks over the `bodyStructure` that ImapFlow hands over: which leaf is
the body, what is listed as attachments, which part an id leads to, and the cap on the body. A
structure is a function from *places* to nodes: the root is at `<<>>`, the i-th child of the node
at `p` at `Append(p, i)`. The code compares nodes by identity (`node === textPart`), and the place
is that identity. The three recursive functions of the code walk alike, depth first to the leaves, so
they share the steps between nodes (`FirstChild`, `NextChild`, `ChildrenDone`) and differ in what they do
at a leaf (`TextLeaf`, `AttachmentLeaf`, `PartLeaf`) and when they are done (`TextFound`,
`AttachmentsCollected`, `PartNotFound`). `walk.at` holds the index of each loop over `childNodes` that is
under way: it is the call stack, and with it no definition is RECURSIVE. `GetMessage` and `GetAttachment`
are the two calls; whether the answer goes through `formatMessageBody` (MCP) or
`formatMessageDetails` (HTTP) is a choice of `Answer`. `Structures` is a constant; what is assumed of
it (`StructureAssumption`) is that its members are trees and that no two leaves of one have the same
part id, as IMAP numbers them.

## Runs

All runs but `message_structure` switch deadlock checking off: a stopped watcher, a process that has exited, an
answered set of callers and an exhausted bound are states in which the system really stops.

### Runs that pass

| Run | Shows |
| --- | --- |
| `supervision_overtake` | `NeverAbandoned` with overlapping attempts, lingering answers, late errors and a restart, with no mailbox to watch and with two: the inductive core of the supervision |
| `supervision_recovery` | with serial attempts and 0, 1 or 2 mailboxes: one connection, listeners only where they belong, each attempt accounted for, a client that is heard; under fairness `Recovery`, `ReleasedAfterStop` and the refinement `ImplementsPolicy` |
| `watcher_one_mailbox` | the enrichment of one mailbox, with failing FETCHes, expunges, drops and a restart: each message reported once, none passed over, under fairness each accounted for in the end (`EventuallyAccounted`), and the whole refines `NewMailFeed` (`ImplementsFeed`) |
| `watcher_two_mailboxes` | round-robin, late answers, renumbered mailboxes, missing UIDNEXT: counts belong to the open mailbox, watermarks do not go back (with [one exception](#the-exception-in-watermarkkept)) |
| `mail_notifications` | arrivals, removals and lost connections joined with two dispatchers, of which one may never be answered: the attempts stay in the budget, no endpoint gets a message more often than that (`CopiesBounded`), losses leave a trace, and every message that stays is delivered to the endpoint that answers or given up after all attempts (`EveryMessageNotified`) |
| `lifecycle` | startup, both servers and a delivery, one signal at any time: IDLE connections closed, requests answered, the process ends |
| `operations_race` | two callers and a message that others may take away: an OK agrees with the store, read-only accounts are untouched, no session leaks. OK of a move means that the message is no longer there, and no more ([below](#further-disagreements)) |
| `operations_answered` | all nine operations, with and without object storage, with resets at any time, beside other mail clients: OK agrees with the store, NOT_FOUND of a request for content means that the message is gone, HTTP, MCP and the metrics classify alike, every request is answered |
| `paging` | what a page promises |
| `message_structure` | every step of the walks over every structure within the bounds: the body is the preferred text, everything attached is listed once or is the body, a cut body says so, and every listed id leads back to its part |

`NoDuplicateNewMail` and `NothingSkipped` are checked with one mailbox only: with two, the
first is false ([below](#further-disagreements)), and the second would count an event that names
the wrong mailbox as a report. Results of an open without `exists` occur in
`watcher_one_mailbox`, those without `uidNext` or `uidValidity` in `watcher_two_mailboxes`.

### Runs that find a disagreement

Each checks one sentence of a document or comment that the code does not keep.
`PROJECT.json` ("findings") quotes the sentence.

| Run | What happens |
| --- | --- |
| `find_wrong_mailbox` | an EXISTS during `await pendingEnrichment` chains a link that nobody awaits; its FETCH runs after the SELECT of the next mailbox and reports UIDs of that mailbox as new mail of the old one (`NewMailNamesMessage`: the UID of an event has been given out in the mailbox it names). The behaviour found has no failure in it: no connection is lost and no command fails. An EXISTS that comes while the SELECT is under way does the same |
| `find_not_caught_up` | mail that arrived while the other mailbox was open is not reported on reopening |

### Further disagreements

These claims are stated in the modules as properties as well, and TLC refutes each within
seconds. To see it, make a configuration with the given specification, the given property
and the constants of the run named in the last column, changed as shown.

| Property | What happens | Configuration |
| --- | --- | --- |
| `AtMostOneConnection` (`handleError`: error and close never lead to two reconnects) | an error during an attempt arms a timer with a delay of 0; the timer overtakes the attempt | `SupSpec`, `supervision_recovery` with `Faults = {"overtake"}` |
| `ConnectedMeansLive` (`isConnected`: "currently holds a live IMAP connection") | `isConnected()` while the first mailbox could not be opened and logout is under way | `SupSpec`, `supervision_recovery` |
| `ErrorsAreHeard`, `ResetNeverCrashes` (README: an error listener on every client) | an `error` event between `off('error')` and the end of `logout()` ends the process (watcher; per-operation client) | `SupSpec`, `supervision_overtake`; `OpsSpec`, `operations_answered` |
| `CountsUndefinedAfterStop`, `NoWatermarkWhileDown` (comments on the two maps) | an answer after stop() or a drop writes into the cleared maps | `Spec`, `watcher_one_mailbox` with `Faults = {"linger"}` |
| `NothingSkipped` | the same stale watermark outlives a reconnect during which the mailbox is renumbered, and hides its messages | `Spec`, `watcher_two_mailboxes` with `Faults = {"linger", "rebuild", "fetch", "noUidNext"}` |
| `NoDuplicateNewMail` with two mailboxes (`README.md:271`: newMail "fires once per message") | a FETCH for mailbox 1 runs in mailbox 2 and its UIDs are reported for mailbox 1, which has not yet given them out; the connection is lost, mailbox 1 gets a lower baseline on reopening, and its own message with such a UID is reported. The two events are of different messages but name the same mailbox and UID. Within one connection the watermark, raised with the wrong report, hides the second message instead | `Spec`, `find_wrong_mailbox` |
| `WatchesEveryMailbox` (README: mailboxes to watch over IDLE) | nothing ends a quiet IDLE, so the second mailbox is never opened | `FairSpec`, `watcher_two_mailboxes` with `Faults = {}`, `MaxAttempts = 3` |
| `IdleConnectionsClosed` (`README.md:153-154`: "the server closes all watcher IDLE connections gracefully before exiting") | every signal runs its own `shutdown()` (`server.ts:101`); the second finds no client left to stop and exits while the first awaits its logouts | `ServerSpec`, `lifecycle` with `MaxSignals = 2` |
| `DeliveredBeforeExit` (README: one retry on failure) | exit with a POST in flight | `ServerSpec`, `lifecycle` |
| `LossIsLogged` (the proposal: error logging) | `server.ts` passes no logger to the dispatchers | `ServerSpec`, `lifecycle` |
| `FrontsAgree` (`docs/mcp-tools.md`: no drift) | HTTP tries the message pattern before the error classes, MCP after; an account id can match the pattern | `OpsSpec`, `operations_answered` with `MatchingIds = {a1}` |
| `OkMeansMoved` (`mcp/tools/mutations.ts:58`: "Moved message ... to ..."; `docs/mcp-tools.md:38`: NOT_FOUND if there is "no message/attachment at that uid/part id") | a move without effect has a result like one that worked (`mailboxService.ts:555`): of two movers both are told OK, or one is, of a message that another client took away | `OpsSpec`, `operations_race` with `Ops = {"move_message"}` |
| `MoveNotFoundIsTrue` (the same line of `docs/mcp-tools.md`) | a move that the server refuses, for instance because the destination does not exist, is answered NOT_FOUND ("Message not found", `move.ts:55`) with the message still there | `OpsSpec`, `operations_answered` |
| `ConnectionErrorMeansNotDone` (`docs/mcp-tools.md:39`: "Couldn't connect to the account's IMAP server.") | IMAP_CONNECTION_ERROR for a move, a change of flags or a draft that the server has carried out (`mailboxService.ts:279`) | `OpsSpec`, `operations_answered` |
| `OnlyGreater`, `NothingMissedByPaging` (`sinceUid`: greater than; page incrementally) | `sinceUid` is inclusive; a full page hides the messages before it | `PagingSpec`, `paging` |

Some of these rest on an assumption about the client library or the network that the
repository does not settle: `lateError`/`LateResets` (ImapFlow may emit an error while it
logs out), `linger` (an answer may be processed after logout was requested), and for moves what is
assumed [above](#mailboxoperations-messagepaging-and-messagestructure) of UID MOVE.

Noticed while modelling, and not a property of any module:

- the leaf that becomes the body may sit inside an attached message, whose other parts are then
  listed as if they were the outer message's own, while the attached message itself never is
  (`collectAttachments` looks at leaves only; the proposal says "Attachment metadata is always
  included");
- content over the size limit, in a draft or a download, reaches the caller as INTERNAL_ERROR
  without the text that explains it;
- `mcpTransportMetrics.ts` says it records "every POST /mcp call": it records every request of that
  server, and none whose client went away before the response was finished.

### Bounds

| Bound | Value | Why it is enough |
| --- | --- | --- |
| `Clients` | 3 (1 in the passing runs of `AccountWatcher`) | a current client, one being logged out and an attempt; clients are reused, so the number of reconnects is not bounded by it. With one client a reconnect waits for the logout of the lost connection; the overlap of connections is explored by the supervision runs |
| `MailboxCounts` | subsets of {0, 1, 2} | the three paths of the code; a third mailbox only lengthens the rotation |
| `Threshold` | 1, 2 | failures before, at and after the threshold (`MaxFailures` up to 3) |
| `MaxFailures`, `MaxAttempts`, `MaxStarts` | 1–3, 1–5, 1–2 | MaxFailures bounds failed attempts in a row: with Recovery it is the assumption that an outage ends. `MaxAttempts` is above `MaxFailures` wherever liveness is checked, so it never blocks a retry there |
| `Links` | 2 | one enrichment running and one chained to it; a third would wait for the second as the second for the first |
| `MaxUid`, `MaxRebuilds` | 2, 1 | a message under the baseline and one above it; a burst of two; one renumbering |
| `FetchAttempts`, `MaxAttempts` of a delivery | 2, 2 | the values in the code |
| `NumEvents`, `Dispatchers` | 2, 2 (1, 1 in `lifecycle`) | an event behind another, or both in one batch; a dispatcher beside another. `NumEvents >= MaxUid` in `mail_notifications`, so that the bound never holds up a report |
| `Watchers`, `MaxSignals`, `MaxRequests` | 2, 1, 1 | partial startup, a request in progress |
| `Callers`, `Accounts` | 2, 2 | one race; a writable and a read-only account, and an id that is unknown |
| `BodyCap`, `MaxLength` | 1, 2 | a body below, at and above the cap |
| `Structures` (`MCStructures`) | three levels, two children, seven kinds of leaf | text or not, plain or not, attached or not, named or not, so that each test of the code is met both ways; a text before and after another, inside a multipart inside another, and inside an attached message |
| `Limits`, `MaxUid`, `MaxPages` in `paging` | {1, 2}, 6, 4 | pages shorter than, equal to and overflowing the limit, twice over |

### Fairness

Liveness runs assume weak fairness of single actions, no more than this:

- pending promises settle: `connect`, `mailboxOpen`, `logout` and commands are answered or
  time out in ImapFlow (its socket and greeting timeouts), S3 calls in the AWS client;
- `idle()` settles when its connection has closed. A live IDLE need not end: that is why
  `WatchesEveryMailbox` is false;
- an armed timer fires; a live session announces its messages;
- code that can go on goes on (the event loop is never blocked);
- a webhook endpoint answers only if it is in `Responsive`: `fetch` is given no timeout;
- in `mail_notifications` a watcher that is down comes back and one that is up reports what
  arrives: `Recovery` and `EventuallyAccounted`, which the watcher's own runs check.

No fairness is assumed for `start`, `stop`, signals, failures, new mail or requests.

## Proofs

TLC checks the instances above; TLAPS proves the following for every value of the constants
that the assumptions of the modules allow (`SupervisionAssumption`, `WatcherAssumption`, ...).
All theorems are safety: invariants, one action property and refinements. The finiteness
assumptions (`Clients`, `MailboxCounts`, `Callers`) cost nothing: a process has made finitely
many of them at any time.

| Theorem | Property | Needs besides |
| --- | --- | --- |
| `WatcherSupervisionProofs` | | |
| `TypeCorrect`, `AlwaysAWayBack` | `SupTypeOK`, `NeverAbandoned` | – |
| `OneConnection`, `ListenersAccounted`, `CurrentClientIsHeard`, `EveryAttemptCounted` | `AtMostOneConnection`, `NoForgottenListeners`, `ClientIsHeard`, `AttemptsAccounted` | `Serial` |
| `ReleasedWhenStopped` | the safety part of `ReleasedAfterStop`: a stopped watcher has no connection and no listener but those of a `connect()` under way | `Serial` |
| `PolicyImplemented` | `ImplementsPolicy` | `Serial` |
| `AccountWatcherProofs` | | |
| `WatcherSupervised` | the watcher implements the supervision | – |
| `WatcherTyped` | `TypeOK` | – |
| `CountsMirrored` | `CountMirrorsSession` | `Serial`, `CountsGiven` |
| `WatermarksKept`, `OneFetchAtATime` | `WatermarkKept`, one fetch at a time | `Serial` |
| `NewMailOnce` | `NoDuplicateNewMail` | `Serial`, one mailbox |
| `NothingIsSkipped` | `NothingSkipped` | `OneFeed` |
| `NothingSkippedByOverlap` | `NothingSkipped` | one mailbox, no `rebuild` |
| `FeedImplemented` | `ImplementsFeed` | `OneFeed`, no `rebuild` |
| `EventDeliveryProofs` | | |
| `DeliveryTypeCorrect`, `AttemptsBounded`, `LossesTraced` | `DeliveryTypeOK`, `RetryBudget`, `LossLeavesTrace` | – |
| `MailNotificationsProofs` | | |
| `FeedReportsOnce` | `NewMailFeed` reports no message twice | – |
| `FeedKept`, `DeliveriesKept` | the composition implements `FeedSpec` and `DeliverySpec` | – |
| `NotifyTyped`, `OneDeliveryPerMessage` | `NotifyTypeOK`, `CopiesBounded` | – |
| `ServerLifecycleProofs` | | |
| `ServerTypeCorrect`, `ServerDelivers` | `ServerTypeOK`, `RetryBudget` and `LossLeavesTrace` under `ServerSpec` | – |
| `ConnectionsClosedAtExit`, `RequestsAnsweredAtExit` | `IdleConnectionsClosed`, `RequestsDrained` | `MaxSignals <= 1` |
| `MailboxOperationsProofs` | | |
| `OperationsTyped`, `ConnectionsClosed`, `ReadOnlyAccountsKept`, `AnswersTrue` | `OpsTypeOK`, `NoSessionLeaks`, `ReadOnlyUntouched`, `AnswerMatchesEffect` | – |
| `NotFoundMeansGone`, `SameCodes`, `MetricsTrue` | `NotFoundIsTrue`, `FrontsAgree`, `MetricTellsAnswer` | `MatchingIds = {}` |
| `MessageReadingProofs` | | |
| `PagingTyped`, `NewestAlwaysShown`, `ShortPagesComplete` | `PagingTypeOK`, `NewestIncluded`, `ShortPagesMissNothing` | – |
| `ListedPartIsFound`, `BodyPreferred`, `AllWithinReach` | `ListedIsFound`, `BodyIsPreferredText`, `NothingOutOfReach` | – |

### The hypotheses

They exclude what makes a property false, and [Further disagreements](#further-disagreements) or
the run given here shows it. TLC finds, when one is dropped:

| Hypothesis | Justified by | Without it |
| --- | --- | --- |
| `Serial`: `"overtake" \notin Faults` | the backoff outlasts the unwinding of an attempt, unless its jitter rounds to 0 | `AtMostOneConnection`, `CountMirrorsSession`, `WatermarkKept`, `NoDuplicateNewMail` and `ImplementsFeed` fail with two clients |
| `Serial`: `MaxStarts <= 1` | `server.ts` starts a watcher once and stops it before it exits | a start() during the attempt that stop() left behind: `AtMostOneConnection` and `CountMirrorsSession` fail |
| `CountsGiven`: no `noExists` | the EXISTS that IMAP requires of a SELECT | `CountMirrorsSession` fails: the count is a guess |
| `Max(MailboxCounts) = 1` (also in `OneFeed`) | an account with one mailbox to watch | `NoDuplicateNewMail` fails |
| `OneFeed`: no `linger` | what is pending at logout is rejected, an assumption about ImapFlow that the repository does not settle | `ImplementsFeed` fails; `NothingSkipped` fails with `rebuild` and `expunge` |
| no `rebuild` (`FeedImplemented`) | one UIDVALIDITY | `NewMailFeed` has no renumbering |
| no `rebuild` (`NothingSkippedByOverlap`) | one UIDVALIDITY | `NothingSkipped` fails with `rebuild`, `expunge` and one of `linger`, `overtake` |
| `MaxSignals <= 1` | one SIGTERM | the second shutdown() awaits nothing |
| `MatchingIds = {}` | account ids that do not read like "not found" | the two fronts test text and class in opposite orders |

The two theorems on `NothingSkipped` complement each other: one allows the mailbox to be renumbered,
the other lets attempts overlap and answers come late. Both at once is false. With one mailbox, serial
attempts, `Faults = {"linger", "rebuild", "expunge"}` and `MaxUid = 3` TLC finds in 15 steps that the
result of a FETCH, processed after a drop has cleared the maps, sets a watermark
(`watcher.ts:514`) with no UIDVALIDITY beside it; the mailbox is renumbered meanwhile, the next
open finds no UIDVALIDITY to compare with (`watcher.ts:363-389`) and keeps the stale watermark, which hides
the renumbered messages. Overlapping attempts do the same without `linger`: a client that was overtaken
is still up when stop() logs out `this.client` and clears the maps, the result of its FETCH sets a watermark
after that, the connection closes and the mailbox is renumbered before the next start() opens it. That
behaviour has 33 steps (two clients, `MaxStarts = 2`, `MaxUid = 2`, `Faults = {"overtake", "expunge",
"rebuild"}`), too deep for TLC's search; it was found by giving TLC the steps. `NewMailOnce` needs neither of these exclusions: a stale
watermark hides messages, it never shows them twice.

### The arguments

*Supervision, any faults.* `NeverAbandoned` is not inductive: a drop handler logs out
`this.client` and the thread that watches some *other* client goes on, so one must know whom the
threads work for. The invariant `IInv` adds `OwnClient`: a thread that has not yet got through its
first open works on the client it made. With it, each action either arms the timer, starts or
keeps an attempt, or leaves `this.client` with the thread that waits on it.

*Supervision, serial attempts.* `SerialInv` says that one thread unwinds at a time
(`OneUnwinding`), that each thread works on the client it made (`OwnWork`), that a connection
that is up is the current one or the one being made (`UpIsOwned`), and that the counters count
what the timer and the attempt under way will finish (`Counted`). No conjunct can be
left out: `AtMostOneConnection` needs `UpIsOwned`, that needs `OneUnwinding`, and this needs to know
that no timer is armed while there is a client (`NoTimerWithClient`). The refinement maps every
step on the counters to a step of `ReconnectPolicy`.

*The watcher.* Every action is one of the supervision or leaves it alone (`NextIsSup`), so
`SerialInv` holds of the watcher and the rest builds on it:

1. `OwnInv`: types, and that an open or a call of `emitNewMail` is for a mailbox.
2. `MirrorInv`: a count is that of the session of the client that owns the thread; while an open
   is under way the active mailbox is the one being opened.
3. `Chain`: the unsettled calls of `emitNewMail` form one chain, of which only the head fetches.
   That each waits for one that is unsettled, and no two for the same, holds across drops only
   because `pendingEnrichment` is forgotten together with the client, and because no call outlives
   its connection into the next attempt.
4. `MarksInv`: a pending fetch holds the watermark of its mailbox, unless that was renumbered.
   With `Chain`, nobody else can have raised the watermark since.
5. `FeedInv`, for one mailbox: what is reported is not above the watermark; what is below it and
   still there is accounted for; a session that was told of a message was told of all before it
   (`ViewClosed`), so that the result of a FETCH leaves out none below its highest
   (`FetchFromMark`), though messages may have arrived since.
6. `CoverInv`, for one mailbox that is not renumbered, on types alone: what every watermark covers, the
   present one and the one each fetch started from, is accounted for (`CoveredTo`). Overlapping attempts
   may put a watermark *back*, to the highest of a stale result, and that one covers no less than it
   says, since the result has no gap.
7. `OnceInv`, for one mailbox, on `Chain`: nothing reported lies above the present watermark or the one a
   fetch started from (`Fresh`), and a result that can still be processed is of the present numbering
   (`ListingsHold`), as a mailbox is renumbered only when no session has it open. `Chain` is what makes
   it inductive: when a result is booked, no other fetch has started from a lower watermark.

`OwnInv` gives `TypeOK`, `MirrorInv` the counts, `MarksInv` the watermarks, and the last three the properties
of one mailbox. The step lemma of `FeedInv` shows in the same case analysis that the step is one
of `NewMailFeed`.

*Deliveries and notifications.* `DeliveryInv` relates the parts of a delivery (`WellKept`): the
POSTs made and the attempts left add up, only one that was given up is logged or counted as an
error. In the composition each part keeps its own specification (`FeedKept`, `DeliveriesKept`), so
their theorems hold there; the events emitted are distinct messages, each reported, so all copies of
a message are POSTs of one delivery.

*Lifecycle.* `shutdown()` awaits what idled when its signal came; with one signal nothing else is
awaited, and no watcher comes up afterwards, because start() has been left or fails.

*Operations.* `OperationsInv` says of each request separately how its command script, what was carried
out, its result and what the decorators recorded agree (`Sound`), and across requests that the drafts
are those appended (`DraftsCounted`). A move that was answered leaves no message, whoever moved it, and
what is gone does not come back. The properties follow from `Sound` by cases on the outcome.

*Paging.* A page holds the newest `limit` messages from `sinceUid` on; `Cut` is shown to be the set of
those with fewer than `limit` above them by the lemmas of `UidRanks`.

*Structures.* Places are ordered as the message is read (`Before`). `Passed`, the leaves before the
place of the walk and, on the way back, those below it, is what the call stack stands for: a step
between nodes leaves it as it is (`MovePasses`, from the lemmas on the first child, the next one and the last),
the visit of a leaf adds that leaf, which is not before any passed (`LeafPasses`), and at the end it is
all leaves (`EndPasses`). So an induction over trees becomes one over steps. `StructureInv` says that what
has been collected is the texts, or the entries of the attachments, in `Passed`, in their order and once each,
and that no leaf in `Passed` has the id being searched; at the end of a walk these are the properties.
`PartsNumbered` is needed where an id must lead back to *its* part and where two entries must have
two ids, and nowhere else.

### The exception in `WatermarkKept`

The proof of `WatermarkKept` failed for a version without the exception `OutdatedFetch`, and TLC then found a
behaviour of 19 states that the bounds of the run had kept out (`MailboxCounts = {2}`, `MaxUid = 3`,
`MaxRebuilds = 1`, `Faults = {"expunge", "rebuild"}`): an EXISTS of the old mailbox is booked on
the next one while its SELECT is under way, the call of `emitNewMail` reads that mailbox's
watermark, the mailbox is found renumbered when it opens and gets a new baseline, its highest
message is removed, and the result of the FETCH, which reports what is left above the old
watermark, sets the watermark back below the baseline (`watcher.ts:514`). The property now names
this case: a listed FETCH for a mailbox that has been renumbered, whose watermark is no longer the
mailbox's. The same step is the reason for the hypothesis of one mailbox: a FETCH booked on the
wrong mailbox.

### What stays with TLC

Liveness (`Recovery`, `ReleasedAfterStop`, `EventuallyAccounted`, `EveryMessageNotified`, `ShutdownEnds`,
`EveryRequestAnswered`) and `ENABLED` are out of the prover's reach; of `ReleasedAfterStop` the safety part is a theorem. Every other property of a passing
run is the subject of a theorem.

## What is not modelled

- `flagsChanged` and the `mailRemoved` event: one synchronous emit each, without state
  (the effect of EXPUNGE on the count is modelled);
- the backoff formula: the delay is nondeterministic time;
- message content, filenames, envelopes, snippets, and what a schema accepts: pure functions of
  their input, without a property of their own;
- configuration and logging: read once, or observing;
- the gauges and counters of `telemetry/watcherMetrics.ts`, which read what `AccountWatcher`
  models (`mailboxCounts`, `isConnected`, the events), and the request duration of the MCP server;
- the transport of the MCP server (`mcp/httpServer.ts`): stateless, one server object per request. A
  client that goes away closes it and does not stop the operation, which ends as if the client
  were there;
- keys, URLs and expiry of staged objects;
- `createConnectedImapClient`: not called by the server;
- `mcpDocs.ts`: a build script.

## Plan

Done: the watcher with its two abstractions (`ReconnectPolicy`, `NewMailFeed`), delivery and its
composition with the feed, lifecycle, operations, paging and message structure, and theorems on
all of them. What is left:

1. with several mailboxes, what is true in place of `NoDuplicateNewMail`: of two events with one mailbox
   and UID, one comes from a fetch that ran in another mailbox;
2. the attempts that overlap (`overtake`): an invariant that bounds the connections left open.
