-------------------------- MODULE MailboxOperations --------------------------
(***************************************************************************)
(* The mailbox operations of the HTTP API and of the MCP tools             *)
(* (src/services/mailboxService.ts, src/api, src/mcp).  A caller sends one *)
(* request; its handler checks the account, opens an IMAP connection of    *)
(* its own (withClient), runs the commands of the operation in order and   *)
(* races them against the connection's error event, logs out, and turns    *)
(* the outcome into an answer.  The decorators of src/telemetry record an  *)
(* outcome of their own on the way.  Callers run concurrently and meet     *)
(* only in the mail store.                                                 *)
(*                                                                         *)
(* Data is reduced to one message per account, its \Flagged flag and a     *)
(* number of drafts.  All callers ask for that message and for a part it   *)
(* has; the mailboxes and destinations they name may or may not exist.     *)
(***************************************************************************)
EXTENDS Naturals, Sequences, FiniteSets

CONSTANTS
  Callers,        \* one request each
  Accounts,       \* configured accounts
  NoAccount,      \* an account id that is not configured
  ReadOnly,       \* accounts with readOnly: true
  MatchingIds,    \* accounts whose id matches the pattern of isResourceNotFoundError
  Ops,            \* operations that are called
  StorageConfigs, \* whether objectStorage is configured, in the runs considered
  LateResets      \* a connection may fail between off('error') and the end of logout()

Mutating == {"move_message", "set_flags", "create_draft"}
Staging == {"get_attachment", "export_message"}
Fronts == {"http", "mcp"}

(***************************************************************************)
(* The routes and the tools.  TRUE: the handler looks at the result and    *)
(* throws a NotFoundError when it is false; FALSE: it passes it on.        *)
(***************************************************************************)
registerMailboxRoutes == {<<"list_mailboxes", FALSE>>}
registerMessageRoutes == {<<"list_messages", FALSE>>, <<"get_message", TRUE>>}
registerMoveRoutes == {<<"move_message", TRUE>>}
registerFlagsRoutes == {<<"set_flags", FALSE>>}
registerDraftRoutes == {<<"create_draft", FALSE>>}

registerApiRoutes ==
  registerMailboxRoutes \cup registerMessageRoutes \cup registerMoveRoutes
    \cup registerFlagsRoutes \cup registerDraftRoutes

registerAccountTools == {<<"list_accounts", FALSE>>, <<"list_mailboxes", FALSE>>}
registerMessageTools == {<<"list_messages", FALSE>>, <<"get_message", TRUE>>}
registerDeliveryTools == {<<"get_attachment", TRUE>>, <<"export_message", TRUE>>}

registerMutationTools == {<<"move_message", TRUE>>, <<"set_flags", FALSE>>}
registerDraftTools == {<<"create_draft", FALSE>>}

createMcpServer ==
  registerAccountTools \cup registerMessageTools \cup registerDeliveryTools
    \cup registerMutationTools \cup registerDraftTools

HttpOps == {route[1] : route \in registerApiRoutes}
McpOps == {tool[1] : tool \in createMcpServer}

ASSUME OperationsAssumption ==
  /\ IsFiniteSet(Callers)
  /\ ReadOnly \subseteq Accounts
  /\ MatchingIds \subseteq Accounts
  /\ NoAccount \notin Accounts
  /\ Ops \subseteq McpOps
  /\ StorageConfigs \subseteq BOOLEAN
  /\ LateResets \in BOOLEAN

VARIABLES
  storage,   \* objectStorage is configured
  store,     \* the mail server's side of each account (external)
  req,       \* each caller's request
  sessions,  \* callers whose IMAP client is connected and not logged out
  blobs,     \* callers whose content is in object storage
  crashed    \* the process has exited on an uncaught exception

opVars == <<storage, store, req, sessions, blobs, crashed>>

(***************************************************************************)
(* phase  "idle"; "connecting" connect() is awaited; "running" a command   *)
(*        is in flight; "closing" logout() is awaited; "result" the        *)
(*        service has answered the handler; "staging" the upload and       *)
(*        "signing" the signature are awaited; "answered";                 *)
(* todo   the commands left, the one in flight first;                      *)
(* reply  the server's reply to it, "none" before it is executed;          *)
(* res    outcome: a value, false, or the class of the error ("noMailbox": *)
(*        one whose text reads like a mailbox that does not exist);        *)
(* done   commands the server has carried out with effect (history);       *)
(* metric outcome recorded for the operation, "none" before;               *)
(* conn, staged  outcomes recorded for connect() and for stage().          *)
(***************************************************************************)
Commands == {"LIST", "SELECT", "FETCH", "FETCHONE", "DOWNLOAD", "SOURCE",
             "MOVE", "ADD", "REMOVE", "APPEND"}
Changing == {"MOVE", "ADD", "REMOVE", "APPEND"}
Metrics == {"success", "not_found", "read_only", "imap_connection_error", "error"}
Marks == {"none", "ok", "error"}
Outcomes == {"value", "false", "invalid", "unknown", "readOnly", "noStorage",
             "connection", "noMailbox", "failed"}

Requests ==
  [phase : {"idle", "connecting", "running", "closing", "result", "staging", "signing", "answered"},
   front : Fronts, op : Ops \cup {"none"}, acct : Accounts \cup {NoAccount}, big : BOOLEAN,
   todo : Seq(Commands), reply : {"none", "yes", "no", "error"},
   res : Outcomes \cup {"pending"}, done : SUBSET Commands,
   metric : Metrics \cup {"none"}, conn : Marks, staged : Marks]

NoRequest ==
  [phase |-> "idle", front |-> "http", op |-> "none", acct |-> NoAccount, big |-> FALSE,
   todo |-> <<>>, reply |-> "none", res |-> "pending", done |-> {},
   metric |-> "none", conn |-> "none", staged |-> "none"]

OpsTypeOK ==
  /\ storage \in StorageConfigs
  /\ store \in [Accounts -> [here : BOOLEAN, flagged : BOOLEAN, drafts : 0..Cardinality(Callers)]]
  /\ req \in [Callers -> Requests]
  /\ sessions \in SUBSET Callers
  /\ blobs \in SUBSET Callers
  /\ crashed \in BOOLEAN

Untouched == [here |-> TRUE, flagged |-> FALSE, drafts |-> 0]

OpsInit ==
  /\ storage \in StorageConfigs
  /\ store = [a \in Accounts |-> Untouched]
  /\ req = [c \in Callers |-> NoRequest]
  /\ sessions = {}
  /\ blobs = {}
  /\ crashed = FALSE

-----------------------------------------------------------------------------
(* What an operation does.                                                 *)

\* The commands of each operation; the accounts are read from the
\* configuration.
listAccounts == {<<>>}
listMailboxes == {<<"LIST">>}
listMessages == {<<"SELECT", "FETCH">>}

\* A message without a text part is not downloaded from.
getMessage == {<<"SELECT", "FETCHONE", "DOWNLOAD">>, <<"SELECT", "FETCHONE">>}
getAttachment == {<<"SELECT", "FETCHONE", "DOWNLOAD">>}
getRawSource == {<<"SELECT", "FETCHONE", "SOURCE">>}
moveMessage == {<<"SELECT", "MOVE">>}

\* An empty list of flags is left out.
setFlags == {<<"SELECT", "ADD", "REMOVE">>, <<"SELECT", "ADD">>, <<"SELECT", "REMOVE">>, <<"SELECT">>}

\* Mutant: the draft is saved, and saved again.
createDraft_Twice == {<<"SELECT", "APPEND", "APPEND">>}

createDraft == {<<"SELECT", "APPEND">>}

Scripts ==
  [list_accounts |-> listAccounts, list_mailboxes |-> listMailboxes,
   list_messages |-> listMessages, get_message |-> getMessage,
   get_attachment |-> getAttachment, export_message |-> getRawSource,
   move_message |-> moveMessage, set_flags |-> setFlags, create_draft |-> createDraft]

\* Storage is there if the tool needs it, and the account is configured.
requireBlobStore(op) == op \in Staging => storage
findAccount(acct) == acct \in Accounts

\* Mutant: one mutating operation is left without the read-only check.
Writable_DraftsAllowed(op, acct) == ~(acct \in ReadOnly /\ op \in Mutating \ {"create_draft"})

\* The read-only check at the head of the mutating operations.
Writable(op, acct) == ~(acct \in ReadOnly /\ op \in Mutating)

\* A draft is built, and its size checked, before the connection.
buildDraftMessage(op, big) == ~(op = "create_draft" /\ big)

\* What answers a request before a connection is opened, in the order of the
\* checks; "pending" lets it through.
Refusal(op, acct, big) ==
  IF op = "list_accounts" THEN "value"
  ELSE IF ~requireBlobStore(op) THEN "noStorage"
  ELSE IF ~findAccount(acct) THEN "unknown"
  ELSE IF ~Writable(op, acct) THEN "readOnly"
  ELSE IF ~buildDraftMessage(op, big) THEN "failed"
  ELSE "pending"

\* An error may quote a name the caller gave (mailbox, part, attachment) or
\* the server's own words, and so read like "no such mailbox".
Texts(out) == IF out = "failed" THEN {"failed", "noMailbox"} ELSE {out}

\* Mutant: the second fetch of getRawSource and the move go unchecked.
Missing_FirstFetchOnly(q) == q.reply = "no" /\ Head(q.todo) = "FETCHONE"

\* A falsy result that ends the operation, and one that is an error.
\* setFlags does not look at what its commands return.
Missing(q) == q.reply = "no" /\ Head(q.todo) \in {"FETCHONE", "SOURCE", "MOVE"}
Rejected(q) ==
  \/ q.reply = "error"
  \/ q.reply = "no" /\ Head(q.todo) = "APPEND"
  \/ Head(q.todo) = "FETCHONE" /\ q.op \in Staging /\ q.big

\* The outcome of the operation at the reply to the command in flight;
\* "pending" when there is a command to follow.
Outcome(q) ==
  CASE Missing(q) -> "false"
    [] Rejected(q) /\ ~Missing(q) -> "failed"
    [] ~Missing(q) /\ ~Rejected(q) /\ Len(q.todo) = 1 -> "value"
    [] OTHER -> "pending"

-----------------------------------------------------------------------------
(* Answers.                                                                *)

Class == [value |-> "OK", false |-> "NOT_FOUND", invalid |-> "VALIDATION_ERROR",
          unknown |-> "INTERNAL_ERROR", readOnly |-> "READ_ONLY_ACCOUNT",
          noStorage |-> "OBJECT_STORAGE_NOT_CONFIGURED",
          connection |-> "IMAP_CONNECTION_ERROR",
          noMailbox |-> "INTERNAL_ERROR", failed |-> "INTERNAL_ERROR"]

\* isResourceNotFoundError looks at the text, which may quote the account id.
Matches(res, acct) ==
  \/ res \in {"unknown", "noMailbox"}
  \/ res \in {"readOnly", "connection"} /\ acct \in MatchingIds

\* errorHandler tries the text before the classes,
HttpCode(res, acct) == IF Matches(res, acct) THEN "NOT_FOUND" ELSE Class[res]

\* Mutant: errors are told apart by the text alone.
McpCode_TextOnly(res, acct) ==
  IF Matches(res, acct) THEN "NOT_FOUND"
  ELSE IF res = "readOnly" THEN "INTERNAL_ERROR" ELSE Class[res]

\* mapError tries the classes first.
McpCode(res, acct) ==
  IF Class[res] = "INTERNAL_ERROR" /\ Matches(res, acct) THEN "NOT_FOUND" ELSE Class[res]

\* Mutant: every operation that does not throw is a success.
MetricOutcome_AnyResult ==
  [value |-> "success", false |-> "success", unknown |-> "not_found", readOnly |-> "read_only",
   connection |-> "imap_connection_error", noMailbox |-> "not_found", failed |-> "error"]

\* classifyOutcome, and what is made of a result that is false.
MetricOutcome ==
  [value |-> "success", false |-> "not_found", unknown |-> "not_found", readOnly |-> "read_only",
   connection |-> "imap_connection_error", noMailbox |-> "not_found", failed |-> "error"]

\* What instrumentOperation records of a call of the mailbox service.  There
\* is none without storage, nor for a request that is not valid.
Recorded(res) ==
  IF res \in {"invalid", "noStorage", "pending"} THEN "none" ELSE MetricOutcome[res]

\* The same for the account service, which has no refusals to tell apart.
AccountRecorded(res) == IF res = "value" THEN "success" ELSE "error"

\* Whether the handler of the request throws a NotFoundError for a false.
Checked(q) ==
  <<q.op, TRUE>> \in (IF q.front = "http" THEN registerApiRoutes ELSE createMcpServer)

\* What the caller is told.
Code(q) ==
  IF q.res = "false" /\ ~Checked(q) THEN "OK"
  ELSE IF q.front = "http" THEN HttpCode(q.res, q.acct) ELSE McpCode(q.res, q.acct)

-----------------------------------------------------------------------------
(* Steps of a request.                                                     *)

At(c, phase) == req[c].phase = phase

\* Fastify finds that a request does not fit the schema of its route.  (The
\* MCP SDK checks the arguments of a tool, and answers, by itself.)
Invalid(c, op) ==
  /\ At(c, "idle")
  /\ op \in HttpOps
  /\ req' = [req EXCEPT ![c] =
       [NoRequest EXCEPT !.phase = "answered", !.op = op, !.res = "invalid"]]
  /\ UNCHANGED <<storage, store, sessions, blobs, crashed>>

\* The route or the tool is called; up to the first await.
Call(c, front, op, acct, big, script) ==
  /\ At(c, "idle")
  /\ op \in IF front = "http" THEN HttpOps ELSE McpOps
  /\ big => op \in Staging \cup {"create_draft"}
  /\ op = "list_accounts" => acct = NoAccount
  /\ \E early \in Texts(Refusal(op, acct, big)) :
       req' = [req EXCEPT ![c] =
          [NoRequest EXCEPT !.phase = IF early = "pending" THEN "connecting" ELSE "result",
                            !.front = front, !.op = op, !.acct = acct, !.big = big,
                            !.todo = IF early = "pending" THEN script ELSE <<>>,
                            !.res = early,
                            !.metric = IF op = "list_accounts" THEN AccountRecorded(early)
                                       ELSE Recorded(early)]]
  /\ UNCHANGED <<storage, store, sessions, blobs, crashed>>

\* connect() of the decorated client settles, and how is recorded.
ConnectSettled(q, ok) == [q EXCEPT !.conn = IF ok THEN "ok" ELSE "error"]

\* connect() resolves: the error listener is attached, the first command sent.
ConnectOk(c) ==
  /\ At(c, "connecting")
  /\ req' = [req EXCEPT ![c] = [ConnectSettled(@, TRUE) EXCEPT !.phase = "running"]]
  /\ sessions' = sessions \cup {c}
  /\ UNCHANGED <<storage, store, blobs, crashed>>

\* connect() rejects: there is nothing to log out of.
ConnectFails(c) ==
  /\ At(c, "connecting")
  /\ req' = [req EXCEPT ![c] =
       [ConnectSettled(@, FALSE) EXCEPT !.phase = "result", !.res = "connection", !.todo = <<>>,
                                        !.metric = Recorded("connection")]]
  /\ UNCHANGED <<storage, store, sessions, blobs, crashed>>

\* What the server may reply: a change or a list may be refused for reasons
\* of its own; a message that is gone has no content.
Replies(cmd, acct) ==
  CASE cmd \in {"LIST", "SELECT", "FETCH"} -> {"yes", "error"}
    [] cmd \in {"FETCHONE", "SOURCE"} -> {IF store[acct].here THEN "yes" ELSE "no", "error"}
    [] cmd = "DOWNLOAD" -> {"error"} \cup (IF store[acct].here THEN {"yes"} ELSE {})
    [] cmd \in {"MOVE", "ADD", "REMOVE", "APPEND"} -> {"yes", "no"}

Effect(cmd, s) ==
  CASE cmd = "MOVE"   -> [s EXCEPT !.here = FALSE]
    [] cmd = "ADD"    -> [s EXCEPT !.flagged = TRUE]
    [] cmd = "REMOVE" -> [s EXCEPT !.flagged = FALSE]
    [] cmd = "APPEND" -> [s EXCEPT !.drafts = @ + 1]
    [] OTHER -> s

\* UID MOVE and UID STORE of a message that is gone are OK without effect
\* (RFC 3501, 6.4.8).
Applies(cmd, s) == cmd \in {"MOVE", "ADD", "REMOVE"} => s.here

\* The server carries out the command in flight.  It does so even when the
\* connection has failed in the meantime; nobody then gets the reply.
Execute(c) ==
  LET q == req[c]
      cmd == Head(q.todo)
  IN /\ ~At(c, "connecting") /\ q.todo # <<>> /\ q.reply = "none"
     /\ \E r \in Replies(cmd, q.acct) :
          LET works == r = "yes" /\ Applies(cmd, store[q.acct])
          IN /\ req' = [req EXCEPT ![c].reply = r,
                                  ![c].done = IF works THEN @ \cup {cmd} ELSE @]
             /\ store' = IF works THEN [store EXCEPT ![q.acct] = Effect(cmd, @)] ELSE store
     /\ UNCHANGED <<storage, sessions, blobs, crashed>>

\* Another mail client, or a rule of the server, takes the message away.
Vanish(a) ==
  /\ store[a].here
  /\ store' = [store EXCEPT ![a].here = FALSE]
  /\ UNCHANGED <<storage, req, sessions, blobs, crashed>>

\* Mutant: a failed operation does not log out.
Proceed_LogoutOnSuccess(c) ==
  /\ At(c, "running") /\ c \in sessions /\ req[c].reply # "none"
  /\ \E out \in Texts(Outcome(req[c])) :
       req' = [req EXCEPT ![c].res = out, ![c].todo = Tail(@), ![c].reply = "none",
          ![c].phase = CASE out = "pending" -> "running"
                         [] out \in {"value", "false"} -> "closing"
                         [] OTHER -> "result"]
  /\ UNCHANGED <<storage, store, sessions, blobs, crashed>>

\* The handler gets the reply: the next command is sent, or the operation is
\* over, the error listener detached and logout() called.
Proceed(c) ==
  /\ At(c, "running") /\ c \in sessions /\ req[c].reply # "none"
  /\ \E out \in Texts(Outcome(req[c])) :
       req' = [req EXCEPT ![c].res = out, ![c].reply = "none",
          ![c].todo = IF out = "pending" THEN Tail(@) ELSE <<>>,
          ![c].phase = IF out = "pending" THEN "running" ELSE "closing"]
  /\ UNCHANGED <<storage, store, sessions, blobs, crashed>>

\* Mutant: the error event does not reject the operation.
Reset_NoRace(c) ==
  /\ At(c, "running")
  /\ sessions' = sessions \ {c}
  /\ UNCHANGED <<storage, store, req, blobs, crashed>>

\* Mutant: a reset operation is taken for one that found nothing.
Reset_SaysFalse(c) ==
  /\ At(c, "running")
  /\ req' = [req EXCEPT ![c].phase = "closing", ![c].res = "false"]
  /\ UNCHANGED <<storage, store, sessions, blobs, crashed>>

\* The client's error event wins the race.
Reset(c) ==
  /\ At(c, "running")
  /\ req' = [req EXCEPT ![c].phase = "closing", ![c].res = "connection"]
  /\ UNCHANGED <<storage, store, sessions, blobs, crashed>>

\* What becomes of an operation whose connection goes under a command: the
\* client rejects it, or (the commands that answer false) turns the rejection
\* into a false, which setFlags does not look at.
Interrupted(cmd) ==
  CASE cmd = "MOVE" -> {"failed", "false"}
    [] cmd \in {"ADD", "REMOVE"} -> {"failed", "value"}
    [] cmd = "APPEND" -> Texts("failed")
    [] OTHER -> {"failed"}

\* The connection goes without an error event.
HangUp(c) ==
  /\ At(c, "running") /\ c \in sessions
  /\ \E out \in Interrupted(Head(req[c].todo)) :
       req' = [req EXCEPT ![c].phase = "closing", ![c].res = out]
  /\ UNCHANGED <<storage, store, sessions, blobs, crashed>>

\* logout() settles; a rejection is ignored.
LogoutSettles(c) ==
  /\ At(c, "closing")
  /\ req' = [req EXCEPT ![c].phase = "result", ![c].metric = Recorded(req[c].res)]
  /\ sessions' = sessions \ {c}
  /\ UNCHANGED <<storage, store, blobs, crashed>>

\* An error event during logout() has no listener left.
LateReset(c) ==
  /\ LateResets
  /\ At(c, "closing")
  /\ crashed' = TRUE
  /\ UNCHANGED <<storage, store, req, sessions, blobs>>

\* The handler goes on with the outcome of the service.
Answer(c) ==
  /\ At(c, "result")
  /\ req' = [req EXCEPT ![c].phase =
       IF req[c].res = "value" /\ req[c].op \in Staging THEN "staging" ELSE "answered"]
  /\ UNCHANGED <<storage, store, sessions, blobs, crashed>>

\* stage() of the decorated store settles, and how is recorded.
StageSettled(q, ok) == [q EXCEPT !.phase = "answered", !.staged = IF ok THEN "ok" ELSE "error"]

\* stage(): the upload, then the signature.
Uploaded(c) ==
  /\ At(c, "staging")
  /\ blobs' = blobs \cup {c}
  /\ req' = [req EXCEPT ![c].phase = "signing"]
  /\ UNCHANGED <<storage, store, sessions, crashed>>

Signed(c) ==
  /\ At(c, "signing")
  /\ req' = [req EXCEPT ![c] = StageSettled(@, TRUE)]
  /\ UNCHANGED <<storage, store, sessions, blobs, crashed>>

StagingFails(c) ==
  /\ At(c, "staging") \/ At(c, "signing")
  /\ req' = [req EXCEPT ![c] = [StageSettled(@, FALSE) EXCEPT !.res = "failed"]]
  /\ UNCHANGED <<storage, store, sessions, blobs, crashed>>

-----------------------------------------------------------------------------
Connect(c) == ConnectOk(c) \/ ConnectFails(c)
Stage(c) == Uploaded(c) \/ Signed(c) \/ StagingFails(c)

RequestStep(c) ==
  \/ Connect(c) \/ Execute(c) \/ Proceed(c) \/ Reset(c) \/ HangUp(c)
  \/ LogoutSettles(c) \/ LateReset(c) \/ Answer(c) \/ Stage(c)

Calling(c) ==
  \E op \in Ops :
    \/ Invalid(c, op)
    \/ \E front \in Fronts, acct \in Accounts \cup {NoAccount}, big \in BOOLEAN :
         \E script \in Scripts[op] : Call(c, front, op, acct, big, script)

OpsNext ==
  /\ ~crashed
  /\ (\E c \in Callers : Calling(c) \/ RequestStep(c)) \/ (\E a \in Accounts : Vanish(a))

OpsSpec == OpsInit /\ [][OpsNext]_opVars

-----------------------------------------------------------------------------
(* Properties.                                                             *)

Answered(c) == At(c, "answered")

(* README, "readOnly": no request, by whichever front and in whatever      *)
(* state of the others, changes anything in a read-only account.           *)
ReadOnlyUntouched == \A c \in Callers : req[c].acct \in ReadOnly => req[c].done \cap Changing = {}

(* What OK promises is so: after a move the message is no longer there,    *)
(* whoever took it away (see OkMeansMoved); the draft has been appended,   *)
(* the source or the part read, and what is to be downloaded is in storage.*)
(* (OK of set_flags promises nothing about the flags: see Rejected.)       *)
AnswerMatchesEffect ==
  \A c \in Callers : Answered(c) /\ Code(req[c]) = "OK" =>
    LET q == req[c] IN
      /\ q.op = "move_message" => ~store[q.acct].here
      /\ q.op = "create_draft" => "APPEND" \in q.done
      /\ q.op = "export_message" => "SOURCE" \in q.done
      /\ q.op = "get_attachment" => "DOWNLOAD" \in q.done
      /\ q.op \in Staging => c \in blobs

\* The request was not answered for the name of an account or a mailbox.
NamesKnown(q) == q.acct \in Accounts /\ q.res # "noMailbox"

(* docs/mcp-tools.md, NOT_FOUND: "Unknown accountId/mailbox, or no         *)
(* message/attachment at that uid/part id".  A message that a request for  *)
(* its content did not find is gone, not merely out of reach.              *)
NotFoundIsTrue ==
  \A c \in Callers :
    Answered(c) /\ NamesKnown(req[c]) /\ req[c].op # "move_message"
      /\ Code(req[c]) = "NOT_FOUND" => ~store[req[c].acct].here

(* The same of a move, as docs/mcp-tools.md says it of every tool.         *)
MoveNotFoundIsTrue ==
  \A c \in Callers :
    Answered(c) /\ NamesKnown(req[c]) /\ req[c].op = "move_message"
      /\ Code(req[c]) = "NOT_FOUND" => ~store[req[c].acct].here

(* The tool answers a move with "Moved message ... to ...": the caller who *)
(* is told so has moved it, so that of two movers one is told NOT_FOUND.   *)
OkMeansMoved ==
  \A c \in Callers :
    Answered(c) /\ req[c].op = "move_message" /\ Code(req[c]) = "OK" => "MOVE" \in req[c].done

(* withClient: whatever ends an operation, its connection is closed before *)
(* the caller is answered.                                                 *)
NoSessionLeaks ==
  \A c \in sessions : req[c].phase \in {"running", "closing"}

(* docs/mcp-tools.md: "no drift between the two".  HTTP and MCP give an    *)
(* outcome that both can have the same code.                               *)
FrontsAgree ==
  \A c \in Callers : Answered(c) /\ req[c].op \in HttpOps /\ req[c].res # "invalid" =>
    Code([req[c] EXCEPT !.front = "http"]) = Code([req[c] EXCEPT !.front = "mcp"])

(* docs/metrics.md: the outcomes recorded for an operation, its connection *)
(* and its staging, each by a decorator that sees one of them, together    *)
(* say what the caller was told; a failed connect() means that nothing     *)
(* was done.                                                               *)
MetricTellsAnswer ==
  \A c \in Callers : Answered(c) =>
    LET q == req[c]
        code == Code(q)
    IN /\ code = "OK" <=> q.metric = "success" /\ q.staged # "error"
       /\ code = "NOT_FOUND" <=> q.metric = "not_found"
       /\ code = "READ_ONLY_ACCOUNT" <=> q.metric = "read_only"
       /\ code = "IMAP_CONNECTION_ERROR" <=> q.metric = "imap_connection_error"
       /\ code \in {"OBJECT_STORAGE_NOT_CONFIGURED", "VALIDATION_ERROR"} <=> q.metric = "none"
       /\ q.conn = "error" => code = "IMAP_CONNECTION_ERROR" /\ q.done = {}
       /\ q.staged = "ok" <=> code = "OK" /\ q.op \in Staging

(* docs/mcp-tools.md, IMAP_CONNECTION_ERROR: "Couldn't connect to the      *)
(* account's IMAP server", so that nothing was done and a retry is safe.   *)
ConnectionErrorMeansNotDone ==
  \A c \in Callers : Answered(c) /\ Code(req[c]) = "IMAP_CONNECTION_ERROR" =>
    req[c].done \cap Changing = {}

(* README: every client "registers an error listener, so a socket reset    *)
(* fails only the in-flight operation [...] instead of crashing the        *)
(* process".                                                               *)
ResetNeverCrashes == ~crashed

\* ImapFlow settles connect(), commands and logout() (its timeouts), the S3
\* client its calls, and code that can go on goes on.
OpsFairness ==
  \A c \in Callers :
    /\ WF_opVars(~crashed /\ Connect(c))
    /\ WF_opVars(~crashed /\ At(c, "running") /\ (Execute(c) \/ HangUp(c)))
    /\ WF_opVars(~crashed /\ Proceed(c))
    /\ WF_opVars(~crashed /\ LogoutSettles(c))
    /\ WF_opVars(~crashed /\ Answer(c))
    /\ WF_opVars(~crashed /\ Stage(c))

OpsFairSpec == OpsSpec /\ OpsFairness

(* Every request is answered, also when the connection fails under it, in  *)
(* a process that is not ended by an error event that nobody heard.        *)
EveryRequestAnswered ==
  \A c \in Callers : At(c, "connecting") ~> (Answered(c) \/ crashed)

=============================================================================
