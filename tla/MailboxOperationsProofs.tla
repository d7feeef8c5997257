----------------------- MODULE MailboxOperationsProofs -----------------------
(***************************************************************************)
(* Proofs about MailboxOperations, for any finite number of callers and    *)
(* any accounts.  The invariant describes one request at a time (Sound):   *)
(* what it still sends, what the reply in flight says, what it has changed *)
(* and what was recorded.  Callers meet in the mail store only, where a    *)
(* message that is gone stays gone, so that a step of one caller leaves    *)
(* the others Sound (OthersSound); what the callers have to do with each   *)
(* other is DraftsCounted.                                                 *)
(***************************************************************************)
EXTENDS MailboxOperations, FiniteSetTheorems, SequenceTheorems, TLAPS

(* The inductive invariant.                                                *)

\* Commands that are OK, and do nothing, when the message is gone.
Lenient == {"MOVE", "ADD", "REMOVE"}

\* The operations that may find nothing.
Finding == {"get_message", "get_attachment", "export_message", "move_message"}

\* A command that an operation may send, with so many to follow.
Fits(op, cmd, after) ==
  /\ cmd \in Commands
  /\ op \notin {"none", "list_accounts"}
  /\ cmd = "MOVE" => op = "move_message"
  /\ cmd = "APPEND" => op = "create_draft"
  /\ cmd = "SOURCE" => op = "export_message"
  /\ cmd \in {"ADD", "REMOVE"} => op = "set_flags"
  /\ cmd = "FETCHONE" => op \in {"get_message", "get_attachment", "export_message"}
  /\ op = "move_message" => (after = 0 <=> cmd = "MOVE")
  /\ op = "create_draft" => (after = 0 <=> cmd = "APPEND")
  /\ op = "export_message" => (after = 0 <=> cmd = "SOURCE")
  /\ op = "get_attachment" => (after = 0 <=> cmd = "DOWNLOAD")

\* The rest of a script, with every command in its place.
Suits(op, todo) ==
  /\ todo \in Seq(Commands)
  /\ \A i \in 1..Len(todo) : Fits(op, todo[i], Len(todo) - i)

\* The message of the request's account is gone.
Gone(q) == q.acct \in Accounts /\ ~store[q.acct].here

\* There is no outcome yet.
Waiting(q) == q.phase \in {"idle", "connecting", "running"}

\* What a request asks for, and what it still sends.
Asks(q) ==
  /\ q.phase = "idle" => q = NoRequest
  /\ q.phase # "idle" => q.op \in Ops /\ (q.front = "http" => q.op \in HttpOps)
  /\ Suits(q.op, q.todo)
  /\ q.phase \in {"connecting", "running"} => q.todo # <<>>
  /\ q.todo # <<>> =>
       /\ q.acct \in Accounts /\ ~(q.acct \in ReadOnly /\ q.op \in Mutating)

\* The reply to the command in flight.
Hears(q) ==
  /\ q.reply # "none" => q.todo # <<>>
  /\ q.reply = "yes" => Head(q.todo) \in q.done \cup Lenient
  /\ q.reply = "yes" /\ Head(q.todo) = "MOVE" => Gone(q)
  /\ q.reply = "no" /\ Head(q.todo) \in {"FETCHONE", "SOURCE"} => Gone(q)
  /\ q.reply = "no" => Head(q.todo) # "DOWNLOAD"

\* What it has changed.  A draft is the last command.
Changes(q) ==
  /\ q.done \cap Changing # {} => q.acct \in Accounts \ ReadOnly
  /\ "APPEND" \in q.done =>
       q.op = "create_draft" /\ (q.todo = <<>> \/ (Head(q.todo) = "APPEND" /\ q.reply = "yes"))

\* What its outcome says.
Results(q) ==
  /\ q.res = "pending" <=> Waiting(q)
  /\ q.res = "value" =>
       /\ q.op = "move_message" => Gone(q)
       /\ q.op = "create_draft" => "APPEND" \in q.done
       /\ q.op = "export_message" => "SOURCE" \in q.done
       /\ q.op = "get_attachment" => "DOWNLOAD" \in q.done
  /\ q.res = "false" => q.op \in Finding /\ (q.op # "move_message" => Gone(q))
  /\ q.res = "unknown" => q.acct = NoAccount
  /\ q.phase \in {"idle", "connecting"} => q.done = {} /\ q.reply = "none"

\* What is recorded of it.
Records(q) ==
  /\ q.phase \in {"result", "staging", "signing", "answered"} /\ q.staged # "error" =>
       q.metric = Recorded(q.res)
  /\ q.staged = "error" => q.phase = "answered" /\ q.metric = "success" /\ q.res = "failed"
  /\ q.staged = "ok" => q.phase = "answered" /\ q.res = "value" /\ q.op \in Staging
  /\ q.phase = "answered" /\ q.res = "value" /\ q.op \in Staging => q.staged = "ok"
  /\ q.phase \in {"staging", "signing"} => q.res = "value" /\ q.op \in Staging
  /\ q.conn = "error" => q.res = "connection" /\ q.todo = <<>> /\ q.done = {}
  /\ q.phase = "connecting" => q.conn = "none"

\* What has been signed has been uploaded.
Uploads(c) ==
  LET q == req[c]
  IN q.phase = "signing" \/ (q.phase = "answered" /\ q.res = "value" /\ q.op \in Staging) =>
       c \in blobs

Sound(c) ==
  /\ Asks(req[c]) /\ Hears(req[c]) /\ Changes(req[c]) /\ Results(req[c]) /\ Records(req[c])
  /\ Uploads(c)

Drafters(a) == {c \in Callers : req[c].acct = a /\ "APPEND" \in req[c].done}
\* The drafts of an account are those its requests have appended.
DraftsCounted == \A a \in Accounts : store[a].drafts = Cardinality(Drafters(a))

OperationsInv ==
  /\ OpsTypeOK /\ (\A c \in Callers : Sound(c))
  /\ DraftsCounted /\ NoSessionLeaks

-----------------------------------------------------------------------------
\* The operations of either front.
LEMMA RoutesAndTools ==
  /\ HttpOps = {"list_mailboxes", "list_messages", "get_message", "move_message", "set_flags",
                 "create_draft"}
  /\ McpOps = HttpOps \cup {"list_accounts", "get_attachment", "export_message"}
BY DEF HttpOps, McpOps, registerApiRoutes, createMcpServer, registerMailboxRoutes,
   registerMessageRoutes,
   registerMoveRoutes, registerFlagsRoutes, registerDraftRoutes, registerAccountTools,
   registerMessageTools,
   registerDeliveryTools, registerMutationTools, registerDraftTools

\* Both fronts turn a false into a NotFoundError where the service can return one.
LEMMA ResultsChecked ==
  /\ \A op \in {"get_message", "move_message"} : <<op, TRUE>> \in registerApiRoutes
  /\ \A op \in {"get_message", "get_attachment", "export_message", "move_message"} :
       <<op, TRUE>> \in createMcpServer
BY DEF registerApiRoutes, createMcpServer, registerMessageRoutes,
   registerMoveRoutes, registerMessageTools,
   registerDeliveryTools, registerMutationTools

\* A sequence of at most three commands suits when each of them fits.
LEMMA ShortScripts ==
  ASSUME NEW op
  PROVE  /\ Suits(op, <<>>)
         /\ \A a : Fits(op, a, 0) => Suits(op, <<a>>)
         /\ \A a, b : Fits(op, a, 1) /\ Fits(op, b, 0) => Suits(op, <<a, b>>)
         /\ \A a, b, c : Fits(op, a, 2) /\ Fits(op, b, 1) /\ Fits(op, c, 0) =>
              Suits(op, <<a, b, c>>)
<1>1. \A cmd, after : Fits(op, cmd, after) => cmd \in Commands
  BY DEF Fits
<1>2. Suits(op, <<>>)
  BY DEF Suits
<1>3. ASSUME NEW a, Fits(op, a, 0) PROVE Suits(op, <<a>>)
  <2>1. <<a>> \in Seq(Commands) /\ Len(<<a>>) = 1 /\ <<a>>[1] = a
    BY <1>1, <1>3
  <2> QED BY <2>1, <1>3 DEF Suits
<1>4. ASSUME NEW a, NEW b, Fits(op, a, 1), Fits(op, b, 0) PROVE Suits(op, <<a, b>>)
  <2>1. <<a, b>> \in Seq(Commands) /\ Len(<<a, b>>) = 2 /\ <<a, b>>[1] = a /\ <<a, b>>[2] = b
    BY <1>1, <1>4
  <2> QED BY <2>1, <1>4 DEF Suits
<1>5. ASSUME NEW a, NEW b, NEW c, Fits(op, a, 2), Fits(op, b, 1), Fits(op, c, 0)
      PROVE  Suits(op, <<a, b, c>>)
  <2>1. /\ <<a, b, c>> \in Seq(Commands) /\ Len(<<a, b, c>>) = 3
        /\ <<a, b, c>>[1] = a /\ <<a, b, c>>[2] = b /\ <<a, b, c>>[3] = c
    BY <1>1, <1>5
  <2> QED BY <2>1, <1>5 DEF Suits
<1> QED BY <1>2, <1>3, <1>4, <1>5

\* The scripts of the operations suit them.
LEMMA ScriptsSuit ==
  ASSUME NEW op \in McpOps, NEW script \in Scripts[op]
  PROVE  Suits(op, script)
<1>1. CASE op = "list_accounts"
  BY <1>1, ShortScripts DEF Scripts, listAccounts
<1>2. CASE op = "list_mailboxes"
  <2>1. Fits(op, "LIST", 0) /\ script = <<"LIST">>
    BY <1>2 DEF Fits, Commands, Scripts, listMailboxes
  <2> QED
    BY <2>1, ShortScripts
<1>3. CASE op = "list_messages"
  <2>1. Fits(op, "SELECT", 1) /\ Fits(op, "FETCH", 0)
    BY <1>3 DEF Fits, Commands
  <2>2. script = <<"SELECT", "FETCH">>
    BY <1>3 DEF Scripts, listMessages
  <2> QED
    BY <2>1, <2>2, ShortScripts
<1>4. CASE op = "get_message"
  <2>1. /\ Fits(op, "SELECT", 2) /\ Fits(op, "FETCHONE", 1) /\ Fits(op, "DOWNLOAD", 0)
        /\ Fits(op, "SELECT", 1) /\ Fits(op, "FETCHONE", 0)
    BY <1>4 DEF Fits, Commands
  <2>2. script \in {<<"SELECT", "FETCHONE", "DOWNLOAD">>, <<"SELECT", "FETCHONE">>}
    BY <1>4 DEF Scripts, getMessage
  <2> QED
    BY <2>1, <2>2, ShortScripts
<1>5. CASE op = "get_attachment"
  <2>1. Fits(op, "SELECT", 2) /\ Fits(op, "FETCHONE", 1) /\ Fits(op, "DOWNLOAD", 0)
    BY <1>5 DEF Fits, Commands
  <2>2. script = <<"SELECT", "FETCHONE", "DOWNLOAD">>
    BY <1>5 DEF Scripts, getAttachment
  <2> QED
    BY <2>1, <2>2, ShortScripts
<1>6. CASE op = "export_message"
  <2>1. Fits(op, "SELECT", 2) /\ Fits(op, "FETCHONE", 1) /\ Fits(op, "SOURCE", 0)
    BY <1>6 DEF Fits, Commands
  <2>2. script = <<"SELECT", "FETCHONE", "SOURCE">>
    BY <1>6 DEF Scripts, getRawSource
  <2> QED
    BY <2>1, <2>2, ShortScripts
<1>7. CASE op = "move_message"
  <2>1. Fits(op, "SELECT", 1) /\ Fits(op, "MOVE", 0)
    BY <1>7 DEF Fits, Commands
  <2>2. script = <<"SELECT", "MOVE">>
    BY <1>7 DEF Scripts, moveMessage
  <2> QED
    BY <2>1, <2>2, ShortScripts
<1>8. CASE op = "set_flags"
  <2>1. /\ Fits(op, "SELECT", 2) /\ Fits(op, "SELECT", 1) /\ Fits(op, "SELECT", 0)
        /\ Fits(op, "ADD", 1) /\ Fits(op, "ADD", 0) /\ Fits(op, "REMOVE", 0)
    BY <1>8 DEF Fits, Commands
  <2>2. script \in {<<"SELECT", "ADD", "REMOVE">>, <<"SELECT", "ADD">>,
                    <<"SELECT", "REMOVE">>, <<"SELECT">>}
    BY <1>8 DEF Scripts, setFlags
  <2> QED
    BY <2>1, <2>2, ShortScripts
<1>9. CASE op = "create_draft"
  <2>1. Fits(op, "SELECT", 1) /\ Fits(op, "APPEND", 0)
    BY <1>9 DEF Fits, Commands
  <2>2. script = <<"SELECT", "APPEND">>
    BY <1>9 DEF Scripts, createDraft
  <2> QED
    BY <2>1, <2>2, ShortScripts
<1> QED
  BY RoutesAndTools, <1>1, <1>2, <1>3, <1>4, <1>5, <1>6, <1>7, <1>8, <1>9

\* Operations that go to the mail server have something to say.
LEMMA ScriptsTalk ==
  ASSUME NEW op \in McpOps, op # "list_accounts", NEW script \in Scripts[op]
  PROVE  script # <<>>
BY RoutesAndTools DEF Scripts, listMailboxes, listMessages, getMessage, getAttachment,
   getRawSource, moveMessage, setFlags, createDraft

\* What is left after a command suits as well.
LEMMA SuitsRest ==
  ASSUME NEW op, NEW todo, Suits(op, todo), todo # <<>>
  PROVE  /\ todo \in Seq(Commands)
         /\ Len(todo) = 1 <=> Tail(todo) = <<>>
         /\ Fits(op, Head(todo), Len(todo) - 1)
         /\ Suits(op, Tail(todo))
<1>1. todo \in Seq(Commands) /\ Len(todo) \in Nat \ {0} /\ Head(todo) = todo[1]
  BY EmptySeq DEF Suits
<1>2. /\ Tail(todo) \in Seq(Commands) /\ Len(Tail(todo)) = Len(todo) - 1
      /\ \A i \in 1..Len(Tail(todo)) : Tail(todo)[i] = todo[i + 1]
  BY <1>1
<1>3. Len(todo) = 1 <=> Tail(todo) = <<>>
  <2>1. Tail(todo) = <<>> <=> Len(Tail(todo)) = 0
    BY <1>2, EmptySeq
  <2> QED BY <2>1, <1>1, <1>2
<1>4. ASSUME NEW i \in 1..Len(Tail(todo)) PROVE Fits(op, Tail(todo)[i], Len(Tail(todo)) - i)
  <2>1. /\ i + 1 \in 1..Len(todo) /\ Len(todo) - (i + 1) = Len(Tail(todo)) - i
        /\ Tail(todo)[i] = todo[i + 1]
    BY <1>1, <1>2
  <2>2. Fits(op, todo[i + 1], Len(todo) - (i + 1))
    BY <2>1 DEF Suits
  <2> QED BY <2>1, <2>2
<1>5. Fits(op, Head(todo), Len(todo) - 1)
  <2>1. 1 \in 1..Len(todo)
    BY <1>1
  <2> QED BY <2>1, <1>1 DEF Suits
<1> QED
  BY <1>1, <1>2, <1>3, <1>4, <1>5 DEF Suits

-----------------------------------------------------------------------------
(* Steps.                                                                  *)

\* A step of one caller that leaves the mail store alone.
Quiet(c) ==
  /\ req' = [req EXCEPT ![c] = req'[c]] /\ req'[c] \in Requests
  /\ req'[c].done = req[c].done /\ (req'[c].acct = req[c].acct \/ req[c].done = {})
  /\ store' = store /\ storage' = storage /\ crashed' \in BOOLEAN
  /\ blobs' \subseteq Callers /\ blobs \subseteq blobs'
  /\ sessions' \subseteq sessions \cup {c}
  /\ c \in sessions' => req'[c].phase \in {"running", "closing"}

\* A caller is not disturbed by what others do.
LEMMA OthersSound ==
  ASSUME NEW d \in Callers, Sound(d), req'[d] = req[d], d \in blobs => d \in blobs',
         \A a \in Accounts : store'[a].here => store[a].here
  PROVE  Sound(d)'
<1>1. Gone(req[d]) => Gone(req[d])'
  BY DEF Gone
<1>2. Asks(req[d])' /\ Results(req[d])' /\ Records(req[d])'
  BY <1>1 DEF Sound, Asks, Results, Records, Waiting
<1>3. Hears(req[d])' /\ Changes(req[d])'
  BY <1>1 DEF Sound, Hears, Changes
<1>4. Uploads(d)'
  BY DEF Sound, Uploads
<1> QED
  BY <1>2, <1>3, <1>4 DEF Sound

\* The invariant after a quiet step of a caller who is Sound after it.
LEMMA QuietKept ==
  ASSUME OperationsInv, NEW c \in Callers, Quiet(c), Sound(c)'
  PROVE  OperationsInv'
<1> USE OperationsAssumption
<1>1. req' \in [Callers -> Requests] /\ \A d \in Callers : d # c => req'[d] = req[d]
  BY DEF OperationsInv, OpsTypeOK, Quiet
<1>2. OpsTypeOK'
  BY <1>1 DEF OperationsInv, OpsTypeOK, Quiet
<1>3. ASSUME NEW d \in Callers PROVE Sound(d)'
  BY <1>1, OthersSound DEF OperationsInv, Quiet
<1>4. \A d \in Callers : req'[d].done = req[d].done /\ (req'[d].acct = req[d].acct \/ req[d].done = {})
  BY <1>1 DEF Quiet
<1>6. \A a \in Accounts : Drafters(a)' = Drafters(a)
  BY <1>4 DEF Drafters
<1>7. DraftsCounted'
  BY <1>6 DEF OperationsInv, DraftsCounted, Quiet
<1>8. NoSessionLeaks'
  BY <1>1 DEF OperationsInv, OpsTypeOK, NoSessionLeaks, Quiet
<1> QED
  BY <1>2, <1>3, <1>7, <1>8 DEF OperationsInv

\* One lemma for each action: it keeps the invariant.
LEMMA ConnectOkKept ==
  ASSUME OperationsInv, NEW c \in Callers, ConnectOk(c)
  PROVE  OperationsInv'
<1> DEFINE q == req[c]
<1> USE DEF OperationsInv
<1>1. /\ q \in Requests /\ q.phase = "connecting"
      /\ q' = [q EXCEPT !.phase = "running", !.conn = "ok"]
      /\ req' = [req EXCEPT ![c] = q'] /\ sessions' = sessions \cup {c}
      /\ UNCHANGED <<storage, store, blobs, crashed>>
  BY DEF ConnectOk, At, OpsTypeOK, Requests, ConnectSettled
<1>2. /\ Asks(q) /\ Hears(q) /\ Changes(q) /\ Results(q) /\ Records(q)
      /\ Uploads(c)
  BY DEF Sound
<1>3. /\ q' \in Requests
      /\ q'.phase = "running" /\ q'.front = q.front /\ q'.op = q.op /\ q'.acct = q.acct
      /\ q'.big = q.big /\ q'.todo = q.todo /\ q'.reply = q.reply /\ q'.res = q.res
      /\ q'.done = q.done /\ q'.metric = q.metric /\ q'.conn = "ok" /\ q'.staged = q.staged
  BY <1>1, ZenonT(40) DEF Requests, Marks
<1>4. Quiet(c)
  BY <1>1, <1>2, <1>3 DEF Quiet, OpsTypeOK, NoSessionLeaks
<1>5. Uploads(c)'
  BY <1>1, <1>2, <1>3 DEF Uploads, Records
<1> HIDE DEF q
<1>6. Asks(q)'
  BY <1>1, <1>2, <1>3 DEF Asks
<1>7. Hears(q)' /\ Changes(q)'
  BY <1>1, <1>2, <1>3 DEF Hears, Changes, Missing, Gone, Results
<1>8. Results(q)'
  BY <1>1, <1>2, <1>3 DEF Results, Waiting, Gone
<1>9. Records(q)'
  BY <1>1, <1>2, <1>3 DEF Records, Results, Recorded, MetricOutcome, Waiting
<1> USE DEF q
<1>10. Sound(c)'
  BY <1>6, <1>7, <1>8, <1>9, <1>5 DEF Sound
<1> QED
  BY <1>4, <1>10, QuietKept

LEMMA ConnectFailsKept ==
  ASSUME OperationsInv, NEW c \in Callers, ConnectFails(c)
  PROVE  OperationsInv'
<1> DEFINE q == req[c]
<1> USE DEF OperationsInv
<1>1. /\ q \in Requests /\ q.phase = "connecting"
      /\ q' = [q EXCEPT !.phase = "result", !.conn = "error", !.res = "connection", !.todo = <<>>,
                 !.metric = "imap_connection_error"]
      /\ req' = [req EXCEPT ![c] = q'] /\ UNCHANGED <<storage, store, sessions, blobs, crashed>>
  BY DEF ConnectFails, At, OpsTypeOK, Requests, ConnectSettled, Recorded, MetricOutcome
<1>2. /\ Asks(q) /\ Hears(q) /\ Changes(q) /\ Results(q) /\ Records(q)
      /\ Uploads(c)
  BY DEF Sound
<1>3. Suits(q.op, <<>>) /\ <<>> \in Seq(Commands)
  BY ShortScripts DEF Suits
<1>4. /\ q' \in Requests
      /\ q'.phase = "result" /\ q'.front = q.front /\ q'.op = q.op /\ q'.acct = q.acct
      /\ q'.big = q.big /\ q'.todo = <<>> /\ q'.reply = q.reply /\ q'.res = "connection"
      /\ q'.done = q.done /\ q'.metric = "imap_connection_error" /\ q'.conn = "error" /\ q'.staged = q.staged
  BY <1>1, <1>3, ZenonT(40) DEF Requests, Marks, Metrics, Outcomes
<1>5. Quiet(c)
  BY <1>1, <1>2, <1>4, <1>3 DEF Quiet, OpsTypeOK, NoSessionLeaks
<1>6. Uploads(c)'
  BY <1>1, <1>2, <1>4, <1>3 DEF Uploads, Records
<1> HIDE DEF q
<1>7. Asks(q)'
  BY <1>1, <1>2, <1>4, <1>3 DEF Asks
<1>8. Hears(q)' /\ Changes(q)'
  BY <1>1, <1>2, <1>4, <1>3 DEF Hears, Changes, Missing, Gone, Results
<1>9. Results(q)'
  BY <1>1, <1>2, <1>4, <1>3 DEF Results, Waiting, Gone
<1>10. Records(q)'
  BY <1>1, <1>2, <1>4, <1>3 DEF Records, Results, Recorded, MetricOutcome, Waiting
<1> USE DEF q
<1>11. Sound(c)'
  BY <1>7, <1>8, <1>9, <1>10, <1>6 DEF Sound
<1> QED
  BY <1>5, <1>11, QuietKept

LEMMA ResetKept ==
  ASSUME OperationsInv, NEW c \in Callers, Reset(c)
  PROVE  OperationsInv'
<1> DEFINE q == req[c]
<1> USE DEF OperationsInv
<1>1. /\ q \in Requests /\ q.phase = "running"
      /\ q' = [q EXCEPT !.phase = "closing", !.res = "connection"]
      /\ req' = [req EXCEPT ![c] = q'] /\ UNCHANGED <<storage, store, sessions, blobs, crashed>>
  BY DEF Reset, At, OpsTypeOK, Requests
<1>2. /\ Asks(q) /\ Hears(q) /\ Changes(q) /\ Results(q) /\ Records(q)
      /\ Uploads(c)
  BY DEF Sound
<1>3. /\ q' \in Requests
      /\ q'.phase = "closing" /\ q'.front = q.front /\ q'.op = q.op /\ q'.acct = q.acct
      /\ q'.big = q.big /\ q'.todo = q.todo /\ q'.reply = q.reply /\ q'.res = "connection"
      /\ q'.done = q.done /\ q'.metric = q.metric /\ q'.conn = q.conn /\ q'.staged = q.staged
  BY <1>1, ZenonT(40) DEF Requests, Marks, Outcomes
<1>4. Quiet(c)
  BY <1>1, <1>2, <1>3 DEF Quiet, OpsTypeOK, NoSessionLeaks
<1>5. Uploads(c)'
  BY <1>1, <1>2, <1>3 DEF Uploads, Records
<1> HIDE DEF q
<1>6. Asks(q)'
  BY <1>1, <1>2, <1>3 DEF Asks
<1>7. Hears(q)' /\ Changes(q)'
  BY <1>1, <1>2, <1>3 DEF Hears, Changes, Missing, Gone, Results
<1>8. Results(q)'
  BY <1>1, <1>2, <1>3 DEF Results, Waiting, Gone
<1>9. Records(q)'
  BY <1>1, <1>2, <1>3 DEF Records, Results, Recorded, MetricOutcome, Waiting
<1> USE DEF q
<1>10. Sound(c)'
  BY <1>6, <1>7, <1>8, <1>9, <1>5 DEF Sound
<1> QED
  BY <1>4, <1>10, QuietKept

LEMMA HangUpKept ==
  ASSUME OperationsInv, NEW c \in Callers, HangUp(c)
  PROVE  OperationsInv'
<1> DEFINE q == req[c]
<1> USE DEF OperationsInv
<1>0. PICK out \in Interrupted(Head(q.todo)) :
        req' = [req EXCEPT ![c].phase = "closing", ![c].res = out]
  BY DEF HangUp
<1>1. /\ q \in Requests /\ q.phase = "running" /\ c \in sessions
      /\ q' = [q EXCEPT !.phase = "closing", !.res = out]
      /\ req' = [req EXCEPT ![c] = q'] /\ UNCHANGED <<storage, store, sessions, blobs, crashed>>
  BY <1>0 DEF HangUp, At, OpsTypeOK, Requests
<1>2. /\ Asks(q) /\ Hears(q) /\ Changes(q) /\ Results(q) /\ Records(q)
      /\ Uploads(c)
  BY DEF Sound
<1>11. Fits(q.op, Head(q.todo), Len(q.todo) - 1) /\ Head(q.todo) \in Commands
  <2>1. Suits(q.op, q.todo) /\ q.todo # <<>>
    BY <1>1, <1>2 DEF Asks
  <2> QED BY <2>1, SuitsRest DEF Fits
<1>12. /\ out \in {"failed", "noMailbox", "false", "value"}
       /\ out = "false" => q.op = "move_message"
       /\ out = "value" => q.op = "set_flags"
  BY <1>11 DEF Interrupted, Texts, Fits, Commands
<1>3. /\ q' \in Requests
      /\ q'.phase = "closing" /\ q'.front = q.front /\ q'.op = q.op /\ q'.acct = q.acct
      /\ q'.big = q.big /\ q'.todo = q.todo /\ q'.reply = q.reply /\ q'.res = out
      /\ q'.done = q.done /\ q'.metric = q.metric /\ q'.conn = q.conn /\ q'.staged = q.staged
  <2>1. out \in Outcomes
    BY <1>12 DEF Outcomes
  <2> QED BY <1>1, <2>1, ZenonT(40) DEF Requests, Marks
<1>4. Quiet(c)
  BY <1>1, <1>2, <1>3 DEF Quiet, OpsTypeOK, NoSessionLeaks
<1>5. Uploads(c)'
  BY <1>1, <1>2, <1>3 DEF Uploads
<1> HIDE DEF q
<1>6. Asks(q)'
  BY <1>1, <1>2, <1>3 DEF Asks
<1>7. Hears(q)' /\ Changes(q)'
  BY <1>1, <1>2, <1>3 DEF Hears, Changes, Missing, Gone, Results
<1>8. Results(q)'
  BY <1>1, <1>2, <1>3, <1>12 DEF Results, Waiting, Gone, Finding
<1>9. Records(q)'
  BY <1>1, <1>2, <1>3 DEF Records, Results, Recorded, MetricOutcome, Waiting
<1> USE DEF q
<1>10. Sound(c)'
  BY <1>6, <1>7, <1>8, <1>9, <1>5 DEF Sound
<1> QED
  BY <1>4, <1>10, QuietKept

LEMMA LogoutSettlesKept ==
  ASSUME OperationsInv, NEW c \in Callers, LogoutSettles(c)
  PROVE  OperationsInv'
<1> DEFINE q == req[c]
<1> USE DEF OperationsInv
<1>1. /\ q \in Requests /\ q.phase = "closing"
      /\ q' = [q EXCEPT !.phase = "result", !.metric = Recorded(q.res)]
      /\ req' = [req EXCEPT ![c] = q'] /\ sessions' = sessions \ {c}
      /\ UNCHANGED <<storage, store, blobs, crashed>>
  BY DEF LogoutSettles, At, OpsTypeOK, Requests
<1>2. /\ Asks(q) /\ Hears(q) /\ Changes(q) /\ Results(q) /\ Records(q)
      /\ Uploads(c)
  BY DEF Sound
<1>3. q.res \in Outcomes
  BY <1>1, <1>2 DEF Requests, Results, Waiting
<1>4. Recorded(q.res) \in Metrics \cup {"none"}
  BY <1>3 DEF Recorded, MetricOutcome, Metrics, Outcomes
<1>5. /\ q' \in Requests
      /\ q'.phase = "result" /\ q'.front = q.front /\ q'.op = q.op /\ q'.acct = q.acct
      /\ q'.big = q.big /\ q'.todo = q.todo /\ q'.reply = q.reply /\ q'.res = q.res
      /\ q'.done = q.done /\ q'.metric = Recorded(q.res) /\ q'.conn = q.conn /\ q'.staged = q.staged
  BY <1>1, <1>3, <1>4, ZenonT(40) DEF Requests, Marks, Metrics
<1>6. Quiet(c)
  BY <1>1, <1>2, <1>5, <1>3, <1>4 DEF Quiet, OpsTypeOK, NoSessionLeaks
<1>7. Uploads(c)'
  BY <1>1, <1>2, <1>5, <1>3, <1>4 DEF Uploads, Records
<1> HIDE DEF q
<1>8. Asks(q)'
  BY <1>1, <1>2, <1>5, <1>3, <1>4 DEF Asks
<1>9. Hears(q)' /\ Changes(q)'
  BY <1>1, <1>2, <1>5, <1>3, <1>4 DEF Hears, Changes, Missing, Gone, Results
<1>10. Results(q)'
  BY <1>1, <1>2, <1>5, <1>3, <1>4 DEF Results, Waiting, Gone
<1>11. Records(q)'
  BY <1>1, <1>2, <1>5, <1>3, <1>4 DEF Records, Results, Recorded, MetricOutcome, Waiting
<1> USE DEF q
<1>12. Sound(c)'
  BY <1>8, <1>9, <1>10, <1>11, <1>7 DEF Sound
<1> QED
  BY <1>6, <1>12, QuietKept

LEMMA AnswerKept ==
  ASSUME OperationsInv, NEW c \in Callers, Answer(c)
  PROVE  OperationsInv'
<1> DEFINE q == req[c]
<1> USE DEF OperationsInv
<1>1. /\ q \in Requests /\ q.phase = "result"
      /\ q' = [q EXCEPT !.phase = q'.phase]
      /\ req' = [req EXCEPT ![c] = q'] /\ q'.phase \in {"staging", "answered"}
      /\ q'.phase = "staging" <=> q.res = "value" /\ q.op \in Staging
      /\ UNCHANGED <<storage, store, sessions, blobs, crashed>>
  BY DEF Answer, At, OpsTypeOK, Requests
<1>2. /\ Asks(q) /\ Hears(q) /\ Changes(q) /\ Results(q) /\ Records(q)
      /\ Uploads(c)
  BY DEF Sound
<1>3. /\ q' \in Requests
      /\ q'.phase = q'.phase /\ q'.front = q.front /\ q'.op = q.op /\ q'.acct = q.acct
      /\ q'.big = q.big /\ q'.todo = q.todo /\ q'.reply = q.reply /\ q'.res = q.res
      /\ q'.done = q.done /\ q'.metric = q.metric /\ q'.conn = q.conn /\ q'.staged = q.staged
  BY <1>1 DEF Requests, Marks
<1>4. Quiet(c)
  BY <1>1, <1>2, <1>3 DEF Quiet, OpsTypeOK, NoSessionLeaks
<1>5. Uploads(c)'
  BY <1>1, <1>2, <1>3 DEF Uploads, Records
<1> HIDE DEF q
<1>6. Asks(q)'
  BY <1>1, <1>2, <1>3 DEF Asks
<1>7. Hears(q)' /\ Changes(q)'
  BY <1>1, <1>2, <1>3 DEF Hears, Changes, Missing, Gone, Results
<1>8. Results(q)'
  BY <1>1, <1>2, <1>3 DEF Results, Waiting, Gone
<1>9. Records(q)'
  BY <1>1, <1>2, <1>3 DEF Records, Results, Recorded, MetricOutcome, Waiting
<1> USE DEF q
<1>10. Sound(c)'
  BY <1>6, <1>7, <1>8, <1>9, <1>5 DEF Sound
<1> QED
  BY <1>4, <1>10, QuietKept

LEMMA UploadedKept ==
  ASSUME OperationsInv, NEW c \in Callers, Uploaded(c)
  PROVE  OperationsInv'
<1> DEFINE q == req[c]
<1> USE DEF OperationsInv
<1>1. /\ q \in Requests /\ q.phase = "staging"
      /\ q' = [q EXCEPT !.phase = "signing"]
      /\ req' = [req EXCEPT ![c] = q'] /\ blobs' = blobs \cup {c}
      /\ UNCHANGED <<storage, store, sessions, crashed>>
  BY DEF Uploaded, At, OpsTypeOK, Requests
<1>2. /\ Asks(q) /\ Hears(q) /\ Changes(q) /\ Results(q) /\ Records(q)
      /\ Uploads(c)
  BY DEF Sound
<1>3. /\ q' \in Requests
      /\ q'.phase = "signing" /\ q'.front = q.front /\ q'.op = q.op /\ q'.acct = q.acct
      /\ q'.big = q.big /\ q'.todo = q.todo /\ q'.reply = q.reply /\ q'.res = q.res
      /\ q'.done = q.done /\ q'.metric = q.metric /\ q'.conn = q.conn /\ q'.staged = q.staged
  BY <1>1 DEF Requests, Marks
<1>4. Quiet(c)
  BY <1>1, <1>2, <1>3 DEF Quiet, OpsTypeOK, NoSessionLeaks
<1>5. Uploads(c)'
  BY <1>1, <1>2, <1>3 DEF Uploads, Records
<1> HIDE DEF q
<1>6. Asks(q)'
  BY <1>1, <1>2, <1>3 DEF Asks
<1>7. Hears(q)' /\ Changes(q)'
  BY <1>1, <1>2, <1>3 DEF Hears, Changes, Missing, Gone, Results
<1>8. Results(q)'
  BY <1>1, <1>2, <1>3 DEF Results, Waiting, Gone
<1>9. Records(q)'
  BY <1>1, <1>2, <1>3 DEF Records, Results, Recorded, MetricOutcome, Waiting
<1> USE DEF q
<1>10. Sound(c)'
  BY <1>6, <1>7, <1>8, <1>9, <1>5 DEF Sound
<1> QED
  BY <1>4, <1>10, QuietKept

LEMMA SignedKept ==
  ASSUME OperationsInv, NEW c \in Callers, Signed(c)
  PROVE  OperationsInv'
<1> DEFINE q == req[c]
<1> USE DEF OperationsInv
<1>1. /\ q \in Requests /\ q.phase = "signing"
      /\ q' = [q EXCEPT !.phase = "answered", !.staged = "ok"]
      /\ req' = [req EXCEPT ![c] = q'] /\ UNCHANGED <<storage, store, sessions, blobs, crashed>>
  BY DEF Signed, At, OpsTypeOK, Requests, StageSettled
<1>2. /\ Asks(q) /\ Hears(q) /\ Changes(q) /\ Results(q) /\ Records(q)
      /\ Uploads(c)
  BY DEF Sound
<1>3. /\ q' \in Requests
      /\ q'.phase = "answered" /\ q'.front = q.front /\ q'.op = q.op /\ q'.acct = q.acct
      /\ q'.big = q.big /\ q'.todo = q.todo /\ q'.reply = q.reply /\ q'.res = q.res
      /\ q'.done = q.done /\ q'.metric = q.metric /\ q'.conn = q.conn /\ q'.staged = "ok"
  BY <1>1 DEF Requests, Marks
<1>4. Quiet(c)
  BY <1>1, <1>2, <1>3 DEF Quiet, OpsTypeOK, NoSessionLeaks
<1>5. Uploads(c)'
  BY <1>1, <1>2, <1>3 DEF Uploads, Records
<1> HIDE DEF q
<1>6. Asks(q)'
  BY <1>1, <1>2, <1>3 DEF Asks
<1>7. Hears(q)' /\ Changes(q)'
  BY <1>1, <1>2, <1>3 DEF Hears, Changes, Missing, Gone, Results
<1>8. Results(q)'
  BY <1>1, <1>2, <1>3 DEF Results, Waiting, Gone
<1>9. Records(q)'
  BY <1>1, <1>2, <1>3 DEF Records, Results, Recorded, MetricOutcome, Waiting
<1> USE DEF q
<1>10. Sound(c)'
  BY <1>6, <1>7, <1>8, <1>9, <1>5 DEF Sound
<1> QED
  BY <1>4, <1>10, QuietKept

LEMMA StagingFailsKept ==
  ASSUME OperationsInv, NEW c \in Callers, StagingFails(c)
  PROVE  OperationsInv'
<1> DEFINE q == req[c]
<1> USE DEF OperationsInv
<1>1. /\ q \in Requests /\ q.phase \in {"staging", "signing"}
      /\ q' = [q EXCEPT !.phase = "answered", !.staged = "error", !.res = "failed"]
      /\ req' = [req EXCEPT ![c] = q'] /\ UNCHANGED <<storage, store, sessions, blobs, crashed>>
  BY DEF StagingFails, At, OpsTypeOK, Requests, StageSettled
<1>2. /\ Asks(q) /\ Hears(q) /\ Changes(q) /\ Results(q) /\ Records(q)
      /\ Uploads(c)
  BY DEF Sound
<1>3. /\ q' \in Requests
      /\ q'.phase = "answered" /\ q'.front = q.front /\ q'.op = q.op /\ q'.acct = q.acct
      /\ q'.big = q.big /\ q'.todo = q.todo /\ q'.reply = q.reply /\ q'.res = "failed"
      /\ q'.done = q.done /\ q'.metric = q.metric /\ q'.conn = q.conn /\ q'.staged = "error"
  <2>1. "answered" \in {"idle", "connecting", "running", "closing", "result", "staging", "signing",
                        "answered"}
    OBVIOUS
  <2>2. "failed" \in Outcomes /\ "error" \in Marks
    BY DEF Outcomes, Marks
  <2> QED BY <1>1, <2>1, <2>2, ZenonT(40) DEF Requests
<1>4. Quiet(c)
  BY <1>1, <1>2, <1>3 DEF Quiet, OpsTypeOK, NoSessionLeaks
<1>5. Uploads(c)'
  BY <1>1, <1>2, <1>3 DEF Uploads, Records
<1> HIDE DEF q
<1>6. Asks(q)'
  BY <1>1, <1>2, <1>3 DEF Asks
<1>7. Hears(q)' /\ Changes(q)'
  BY <1>1, <1>2, <1>3 DEF Hears, Changes, Missing, Gone, Results
<1>8. Results(q)'
  BY <1>1, <1>2, <1>3 DEF Results, Waiting, Gone
<1>9. Records(q)'
  BY <1>1, <1>2, <1>3 DEF Records, Results, Recorded, MetricOutcome, Waiting
<1> USE DEF q
<1>10. Sound(c)'
  BY <1>6, <1>7, <1>8, <1>9, <1>5 DEF Sound
<1> QED
  BY <1>4, <1>10, QuietKept

LEMMA LateResetKept ==
  ASSUME OperationsInv, NEW c \in Callers, LateReset(c)
  PROVE  OperationsInv'
<1>1. UNCHANGED <<storage, store, req, sessions, blobs>> /\ crashed' \in BOOLEAN
  BY DEF LateReset
<1>2. OpsTypeOK' /\ NoSessionLeaks'
  BY <1>1 DEF OperationsInv, OpsTypeOK, NoSessionLeaks
<1>3. \A d \in Callers : Sound(d)'
  BY <1>1, OthersSound DEF OperationsInv
<1>4. DraftsCounted'
  BY <1>1 DEF OperationsInv, DraftsCounted, Drafters
<1> QED
  BY <1>2, <1>3, <1>4 DEF OperationsInv

LEMMA InvalidKept ==
  ASSUME OperationsInv, NEW c \in Callers, NEW op \in Ops, Invalid(c, op)
  PROVE  OperationsInv'
<1> DEFINE q == req[c]
<1> USE OperationsAssumption DEF OperationsInv
<1>1. /\ q \in Requests /\ q = NoRequest /\ op \in HttpOps
      /\ q' = [NoRequest EXCEPT !.phase = "answered", !.op = op, !.res = "invalid"]
      /\ req' = [req EXCEPT ![c] = q'] /\ UNCHANGED <<storage, store, sessions, blobs, crashed>>
  BY DEF Invalid, At, OpsTypeOK, Sound, Asks
<1>2. q' = [NoRequest EXCEPT !.phase = "answered", !.op = op, !.res = "invalid"]
  BY <1>1
<1>3. /\ q'.phase = "answered" /\ q'.front = "http" /\ q'.op = op /\ q'.acct = NoAccount
      /\ q'.todo = <<>> /\ q'.reply = "none" /\ q'.res = "invalid"
      /\ q'.done = {} /\ q'.metric = "none" /\ q'.conn = "none" /\ q'.staged = "none"
  BY <1>2 DEF NoRequest
<1>4. q' \in Requests
  <2>1. q' = [phase |-> "answered", front |-> "http", op |-> op, acct |-> NoAccount, big |-> FALSE,
              todo |-> <<>>, reply |-> "none", res |-> "invalid", done |-> {}, metric |-> "none",
              conn |-> "none", staged |-> "none"]
    BY <1>2, <1>3 DEF NoRequest
  <2>2. <<>> \in Seq(Commands) /\ "invalid" \in Outcomes /\ "none" \in Marks
    BY DEF Outcomes, Marks
  <2> QED BY <2>1, <2>2 DEF Requests, Fronts
<1>5. Suits(op, <<>>) /\ q.done = {} /\ q.phase = "idle"
  BY <1>1, ShortScripts DEF NoRequest
<1>6. Quiet(c)
  BY <1>1, <1>3, <1>4, <1>5 DEF Quiet, OpsTypeOK, NoSessionLeaks
<1>7. Uploads(c)'
  BY <1>3, <1>4 DEF Uploads
<1> HIDE DEF q
<1>8. Asks(q)' /\ Hears(q)' /\ Changes(q)'
  BY <1>1, <1>3, <1>4, <1>5 DEF Asks, Hears, Changes, Missing
<1>9. Results(q)' /\ Records(q)'
  BY <1>3, <1>4 DEF Results, Waiting, Records, Recorded
<1> USE DEF q
<1>10. Sound(c)'
  BY <1>7, <1>8, <1>9 DEF Sound
<1> QED
  BY <1>6, <1>10, QuietKept

\* What answers a request early, and what it means when nothing does.
LEMMA RefusalCases ==
  ASSUME NEW op \in McpOps, NEW acct \in Accounts \cup {NoAccount}, NEW big \in BOOLEAN
  PROVE  /\ Refusal(op, acct, big) \in {"value", "noStorage", "unknown", "readOnly", "failed",
                                         "pending"}
         /\ Refusal(op, acct, big) = "value" <=> op = "list_accounts"
         /\ Refusal(op, acct, big) = "unknown" => acct = NoAccount
         /\ Refusal(op, acct, big) = "pending" =>
              acct \in Accounts /\ op # "list_accounts" /\ ~(acct \in ReadOnly /\ op \in Mutating)
BY OperationsAssumption, RoutesAndTools DEF Refusal, requireBlobStore, findAccount,
   Writable, buildDraftMessage, Staging, Mutating

LEMMA CallKept ==
  ASSUME OperationsInv, NEW c \in Callers, NEW op \in Ops, NEW front \in Fronts,
         NEW acct \in Accounts \cup {NoAccount}, NEW big \in BOOLEAN, NEW script \in Scripts[op],
         Call(c, front, op, acct, big, script)
  PROVE  OperationsInv'
<1> DEFINE q == req[c]
<1> USE OperationsAssumption DEF OperationsInv
<1>0. PICK early \in Texts(Refusal(op, acct, big)) :
        req' = [req EXCEPT ![c] =
          [NoRequest EXCEPT !.phase = IF early = "pending" THEN "connecting" ELSE "result",
                            !.front = front, !.op = op, !.acct = acct, !.big = big,
                            !.todo = IF early = "pending" THEN script ELSE <<>>, !.res = early,
                            !.metric = IF op = "list_accounts" THEN AccountRecorded(early)
                                       ELSE Recorded(early)]]
  BY DEF Call
<1>1. /\ q \in Requests /\ q = NoRequest /\ op \in McpOps /\ (front = "http" => op \in HttpOps)
      /\ q' = [NoRequest EXCEPT !.phase = IF early = "pending" THEN "connecting" ELSE "result",
                 !.front = front, !.op = op, !.acct = acct, !.big = big,
                 !.todo = IF early = "pending" THEN script ELSE <<>>, !.res = early,
                 !.metric = IF op = "list_accounts" THEN AccountRecorded(early) ELSE Recorded(early)]
      /\ req' = [req EXCEPT ![c] = q'] /\ UNCHANGED <<storage, store, sessions, blobs, crashed>>
  BY <1>0 DEF Call, At, OpsTypeOK, Sound, Asks
<1>2. /\ early \in {"value", "noStorage", "unknown", "readOnly", "failed", "noMailbox", "pending"}
      /\ early = "value" <=> op = "list_accounts"
      /\ early = "unknown" => acct = NoAccount
      /\ early = "pending" =>
           acct \in Accounts /\ op # "list_accounts" /\ ~(acct \in ReadOnly /\ op \in Mutating)
  BY <1>1, RefusalCases DEF Texts
<1>3. /\ q'.phase = IF early = "pending" THEN "connecting" ELSE "result"
      /\ q'.front = front /\ q'.op = op /\ q'.acct = acct /\ q'.big = big
      /\ q'.todo = IF early = "pending" THEN script ELSE <<>>
      /\ q'.reply = "none" /\ q'.res = early /\ q'.done = {}
      /\ q'.metric = IF op = "list_accounts" THEN AccountRecorded(early) ELSE Recorded(early)
      /\ q'.conn = "none" /\ q'.staged = "none"
  BY <1>1 DEF NoRequest
<1>4. Suits(op, q'.todo)
  BY <1>1, <1>3, ShortScripts, ScriptsSuit
<1>5. q'.metric = Recorded(early) /\ q'.metric \in Metrics \cup {"none"}
  BY <1>2, <1>3 DEF Recorded, AccountRecorded, MetricOutcome, Metrics
<1>6. q' \in Requests
  <2>1. /\ q'.todo \in Seq(Commands) /\ q'.res \in Outcomes \cup {"pending"}
        /\ q'.phase \in {"connecting", "result"}
    BY <1>2, <1>3, <1>4 DEF Suits, Outcomes
  <2>2. q' = [phase |-> q'.phase, front |-> front, op |-> op, acct |-> acct, big |-> big,
              todo |-> q'.todo, reply |-> "none", res |-> q'.res, done |-> {}, metric |-> q'.metric, conn |-> "none",
              staged |-> "none"]
    BY <1>1, <1>3 DEF NoRequest
  <2> QED BY <2>1, <2>2, <1>5 DEF Requests, Marks
<1>7. q.done = {} /\ q.phase = "idle"
  BY <1>1 DEF NoRequest
<1>8. Quiet(c)
  BY <1>1, <1>3, <1>6, <1>7 DEF Quiet, OpsTypeOK, NoSessionLeaks
<1>9. Uploads(c)'
  BY <1>3 DEF Uploads
<1> HIDE DEF q
<1>10. Asks(q)'
  BY <1>1, <1>2, <1>3, <1>4, ScriptsTalk DEF Asks
<1>11. Hears(q)' /\ Changes(q)'
  BY <1>3 DEF Hears, Changes
<1>12. Results(q)'
  BY <1>2, <1>3, RoutesAndTools DEF Results, Waiting
<1>13. Records(q)'
  BY <1>3, <1>5 DEF Records
<1> USE DEF q
<1>14. Sound(c)'
  BY <1>9, <1>10, <1>11, <1>12, <1>13 DEF Sound
<1> QED
  BY <1>8, <1>14, QuietKept

LEMMA ProceedKept ==
  ASSUME OperationsInv, NEW c \in Callers, Proceed(c)
  PROVE  OperationsInv'
<1> DEFINE q == req[c]
<1> USE DEF OperationsInv
<1>0. PICK out \in Texts(Outcome(q)) :
        req' = [req EXCEPT ![c].res = out, ![c].reply = "none",
                  ![c].todo = IF out = "pending" THEN Tail(@) ELSE <<>>,
                  ![c].phase = IF out = "pending" THEN "running" ELSE "closing"]
  BY DEF Proceed
<1>1. /\ q \in Requests /\ q.phase = "running" /\ c \in sessions /\ q.reply # "none"
      /\ q' = [q EXCEPT !.res = out, !.reply = "none",
                 !.todo = IF out = "pending" THEN Tail(q.todo) ELSE <<>>,
                 !.phase = IF out = "pending" THEN "running" ELSE "closing"]
      /\ req' = [req EXCEPT ![c] = q'] /\ UNCHANGED <<storage, store, sessions, blobs, crashed>>
  BY <1>0 DEF Proceed, At, OpsTypeOK
<1>2. /\ Asks(q) /\ Hears(q) /\ Changes(q) /\ Results(q) /\ Records(q)
      /\ Uploads(c)
  BY DEF Sound
<1>3. /\ q.todo # <<>> /\ q.reply \in {"yes", "no", "error"}
      /\ Suits(q.op, q.todo) /\ q.acct \in Accounts
  BY <1>1, <1>2 DEF Hears, Asks, Requests
<1>4. /\ q.todo \in Seq(Commands) /\ Fits(q.op, Head(q.todo), Len(q.todo) - 1)
      /\ Suits(q.op, Tail(q.todo)) /\ (Len(q.todo) = 1 <=> Tail(q.todo) = <<>>)
  BY <1>3, SuitsRest
<1>5. /\ out \in {"false", "failed", "noMailbox", "value", "pending"}
      /\ out = "false" <=> Missing(q)
      /\ out = "value" => ~Missing(q) /\ ~Rejected(q) /\ Len(q.todo) = 1
      /\ out = "pending" => ~Missing(q) /\ ~Rejected(q) /\ Len(q.todo) # 1
  BY DEF Outcome, Texts
<1>6. /\ q'.phase = (IF out = "pending" THEN "running" ELSE "closing") /\ q'.front = q.front
      /\ q'.op = q.op /\ q'.acct = q.acct /\ q'.big = q.big
      /\ q'.todo = (IF out = "pending" THEN Tail(q.todo) ELSE <<>>) /\ q'.reply = "none"
      /\ q'.res = out /\ q'.done = q.done /\ q'.metric = q.metric /\ q'.conn = q.conn
      /\ q'.staged = q.staged
  BY <1>1 DEF Requests
<1>7. Suits(q.op, q'.todo)
  BY <1>4, <1>6, ShortScripts
<1>8. q' \in Requests
  <2>1. /\ q'.todo \in Seq(Commands) /\ out \in Outcomes \cup {"pending"}
        /\ q'.phase \in {"running", "closing"}
    BY <1>5, <1>6, <1>7 DEF Suits, Outcomes
  <2> QED BY <1>1, <1>6, <2>1 DEF Requests
<1>9. Quiet(c)
  BY <1>1, <1>6, <1>8 DEF Quiet, OpsTypeOK
<1>10. Uploads(c)'
  BY <1>6 DEF Uploads
<1> HIDE DEF q
<1>11. Asks(q)'
  BY <1>1, <1>2, <1>3, <1>4, <1>5, <1>6, <1>7 DEF Asks
<1>12. Hears(q)'
  BY <1>6 DEF Hears
<1>13. out = "pending" => "APPEND" \notin q.done
  BY <1>2, <1>3, <1>4, <1>5 DEF Changes, Fits, Commands
<1>14. Changes(q)'
  BY <1>1, <1>2, <1>6, <1>13 DEF Changes
<1>15. out = "value" =>
         /\ q.op = "move_message" => Gone(q)
         /\ q.op = "create_draft" => "APPEND" \in q.done
         /\ q.op = "export_message" => "SOURCE" \in q.done
         /\ q.op = "get_attachment" => "DOWNLOAD" \in q.done
  BY <1>2, <1>3, <1>4, <1>5 DEF Hears, Fits, Commands, Missing, Rejected, Lenient
<1>16. out = "false" => q.op \in Finding /\ (q.op # "move_message" => Gone(q))
  BY <1>2, <1>3, <1>4, <1>5 DEF Hears, Fits, Missing, Finding
<1>17. Results(q)'
  BY <1>1, <1>2, <1>5, <1>6, <1>15, <1>16 DEF Results, Waiting, Gone
<1>18. Records(q)'
  BY <1>1, <1>2, <1>6 DEF Records, Results, Waiting
<1> USE DEF q
<1>19. Sound(c)'
  BY <1>10, <1>11, <1>12, <1>14, <1>17, <1>18 DEF Sound
<1> QED
  BY <1>9, <1>19, QuietKept

LEMMA VanishKept ==
  ASSUME OperationsInv, NEW a \in Accounts, Vanish(a)
  PROVE  OperationsInv'
<1> USE DEF OperationsInv
<1>1. /\ store' = [store EXCEPT ![a].here = FALSE]
      /\ UNCHANGED <<storage, req, sessions, blobs, crashed>>
  BY DEF Vanish
<1>2. /\ \A b \in Accounts : store'[b].drafts = store[b].drafts /\ (store'[b].here => store[b].here)
      /\ store' \in [Accounts -> [here : BOOLEAN, flagged : BOOLEAN, drafts : 0..Cardinality(Callers)]]
  BY <1>1 DEF OpsTypeOK
<1>3. OpsTypeOK' /\ NoSessionLeaks'
  BY <1>1, <1>2 DEF OpsTypeOK, NoSessionLeaks
<1>4. \A d \in Callers : Sound(d)'
  BY <1>1, <1>2, OthersSound
<1>5. DraftsCounted'
  BY <1>1, <1>2 DEF DraftsCounted, Drafters
<1> QED
  BY <1>3, <1>4, <1>5

LEMMA ExecuteKept ==
  ASSUME OperationsInv, NEW c \in Callers, Execute(c)
  PROVE  OperationsInv'
<1> DEFINE q == req[c]
           cmd == Head(q.todo)
           works(r) == r = "yes" /\ Applies(cmd, store[q.acct])
           Mailboxes == [here : BOOLEAN, flagged : BOOLEAN, drafts : Nat]
<1> USE OperationsAssumption DEF OperationsInv
<1>1. PICK r \in Replies(cmd, q.acct) :
        /\ q' = [q EXCEPT !.reply = r, !.done = IF works(r) THEN @ \cup {cmd} ELSE @]
        /\ req' = [req EXCEPT ![c] = q']
        /\ store' = IF works(r) THEN [store EXCEPT ![q.acct] = Effect(cmd, @)] ELSE store
  BY DEF Execute, OpsTypeOK, Requests
<1>2. /\ q \in Requests /\ q.phase # "connecting" /\ q.todo # <<>> /\ q.reply = "none"
      /\ UNCHANGED <<storage, sessions, blobs, crashed>>
  BY DEF Execute, At, OpsTypeOK
<1>3. /\ Asks(q) /\ Hears(q) /\ Changes(q) /\ Results(q) /\ Records(q)
      /\ Uploads(c)
  BY DEF Sound
<1>4. /\ q.acct \in Accounts /\ ~(q.acct \in ReadOnly /\ q.op \in Mutating)
      /\ q.phase # "idle" /\ "APPEND" \notin q.done
  <2>1. q.phase # "idle"
    BY <1>2, <1>3 DEF Asks, NoRequest
  <2>2. "APPEND" \notin q.done
    BY <1>2, <1>3 DEF Changes
  <2> QED BY <2>1, <2>2, <1>2, <1>3 DEF Asks
<1>5. Fits(q.op, cmd, Len(q.todo) - 1)
  BY <1>2, <1>3, SuitsRest DEF Asks
<1> HIDE DEF cmd
<1>6. /\ r \in {"yes", "no", "error"}
      /\ works(r) => r = "yes"
      /\ r = "yes" /\ ~works(r) => cmd \in Lenient /\ ~store[q.acct].here
      /\ r = "no" /\ cmd \in {"FETCHONE", "SOURCE"} => ~store[q.acct].here
      /\ r = "no" => cmd # "DOWNLOAD"
  <2>1. /\ r \in {"yes", "no", "error"}
        /\ r = "no" /\ cmd \in {"FETCHONE", "SOURCE"} => ~store[q.acct].here
        /\ r = "no" => cmd # "DOWNLOAD"
    BY <1>1, <1>5 DEF Replies, Fits, Commands
  <2>2. r = "yes" /\ ~works(r) => cmd \in Lenient /\ ~store[q.acct].here
    BY DEF Applies, Lenient
  <2> QED BY <2>1, <2>2
<1> HIDE DEF works
<1>7. /\ q'.phase = q.phase /\ q'.front = q.front /\ q'.op = q.op /\ q'.acct = q.acct
      /\ q'.big = q.big /\ q'.todo = q.todo /\ q'.reply = r /\ q'.res = q.res
      /\ q'.done = (IF works(r) THEN q.done \cup {cmd} ELSE q.done)
      /\ q'.metric = q.metric /\ q'.conn = q.conn /\ q'.staged = q.staged
  BY <1>1, <1>2 DEF Requests
<1>8. q' \in Requests
  <2>1. q'.done \in SUBSET Commands /\ r \in {"none", "yes", "no", "error"}
    BY <1>2, <1>5, <1>6, <1>7 DEF Requests, Fits
  <2> QED BY <1>1, <1>2, <1>7, <2>1 DEF Requests
<1>9. /\ store' \in [Accounts -> Mailboxes]
      /\ \A a \in Accounts : store'[a].here => store[a].here
      /\ \A a \in Accounts :
           store'[a].drafts = store[a].drafts
             + (IF a = q.acct /\ works(r) /\ cmd = "APPEND" THEN 1 ELSE 0)
      /\ works(r) /\ cmd = "MOVE" => ~store'[q.acct].here
  <2>1. store \in [Accounts -> Mailboxes]
    BY FS_CardinalityType DEF OpsTypeOK
  <2>2. ASSUME NEW s \in Mailboxes
        PROVE  /\ Effect(cmd, s) \in Mailboxes /\ (Effect(cmd, s).here => s.here)
               /\ Effect(cmd, s).drafts = s.drafts + (IF cmd = "APPEND" THEN 1 ELSE 0)
               /\ cmd = "MOVE" => ~Effect(cmd, s).here
    <3>1. CASE cmd = "MOVE"
      <4>1. Effect(cmd, s) = [s EXCEPT !.here = FALSE]
        BY <3>1 DEF Effect
      <4>2. Effect(cmd, s) \in Mailboxes
        BY <4>1
      <4>3. Effect(cmd, s).drafts = s.drafts /\ (Effect(cmd, s).here => s.here)
        BY <4>1
      <4>4. cmd = "MOVE" => ~Effect(cmd, s).here
        BY <3>1, <4>1
      <4> QED BY <3>1, <4>2, <4>3, <4>4
    <3>2. CASE cmd = "ADD"
      <4>1. Effect(cmd, s) = [s EXCEPT !.flagged = TRUE]
        BY <3>2 DEF Effect
      <4>2. Effect(cmd, s) \in Mailboxes
        BY <4>1
      <4>3. Effect(cmd, s).drafts = s.drafts /\ (Effect(cmd, s).here => s.here)
        BY <4>1
      <4>4. cmd = "MOVE" => ~Effect(cmd, s).here
        BY <3>2, <4>1
      <4> QED BY <3>2, <4>2, <4>3, <4>4
    <3>3. CASE cmd = "REMOVE"
      <4>1. Effect(cmd, s) = [s EXCEPT !.flagged = FALSE]
        BY <3>3 DEF Effect
      <4>2. Effect(cmd, s) \in Mailboxes
        BY <4>1
      <4>3. Effect(cmd, s).drafts = s.drafts /\ (Effect(cmd, s).here => s.here)
        BY <4>1
      <4>4. cmd = "MOVE" => ~Effect(cmd, s).here
        BY <3>3, <4>1
      <4> QED BY <3>3, <4>2, <4>3, <4>4
    <3>4. CASE cmd = "APPEND"
      BY <3>4 DEF Effect
    <3>5. CASE cmd \notin {"MOVE", "ADD", "REMOVE", "APPEND"}
      BY <3>5 DEF Effect
    <3> QED
      BY <3>1, <3>2, <3>3, <3>4, <3>5
  <2> QED BY <2>1, <2>2, <1>1, <1>4
<1>10. \A d \in Callers : d # c => req'[d] = req[d]
  BY <1>1 DEF OpsTypeOK
<1>11. req' \in [Callers -> Requests]
  BY <1>1, <1>8 DEF OpsTypeOK
<1>12. ASSUME NEW d \in Callers, d # c PROVE Sound(d)'
  BY <1>2, <1>9, <1>10, <1>12, OthersSound
<1>13. Uploads(c)'
  BY <1>2, <1>3, <1>7 DEF Uploads
<1>15. /\ DraftsCounted'
       /\ \A a \in Accounts : store'[a].drafts \in 0..Cardinality(Callers)
  <2>1. ASSUME NEW a \in Accounts
        PROVE  /\ store'[a].drafts = Cardinality(Drafters(a)')
               /\ store'[a].drafts \in 0..Cardinality(Callers)
    <3>1. Drafters(a) \subseteq Callers /\ Drafters(a)' \subseteq Callers
      BY DEF Drafters
    <3>2. IsFiniteSet(Drafters(a)) /\ Cardinality(Drafters(a)') \in 0..Cardinality(Callers)
      BY <3>1, FS_Subset, FS_CardinalityType
    <3>3. CASE a = q.acct /\ works(r) /\ cmd = "APPEND"
      <4>1. Drafters(a)' = Drafters(a) \cup {c} /\ c \notin Drafters(a)
        BY <3>3, <1>4, <1>7, <1>10 DEF Drafters
      <4>2. Cardinality(Drafters(a)') = Cardinality(Drafters(a)) + 1
        BY <4>1, <3>2, FS_AddElement
      <4> QED BY <4>2, <3>2, <3>3, <1>9 DEF DraftsCounted
    <3>4. CASE ~(a = q.acct /\ works(r) /\ cmd = "APPEND")
      <4>1. Drafters(a)' = Drafters(a)
        BY <3>4, <1>4, <1>7, <1>10 DEF Drafters
      <4>2. store'[a].drafts = store[a].drafts + 0
        BY <3>4, <1>9
      <4>3. store[a].drafts = Cardinality(Drafters(a)) /\ Cardinality(Drafters(a)) \in Nat
        BY <3>2, FS_CardinalityType DEF DraftsCounted
      <4> QED BY <4>1, <4>2, <4>3, <3>2
    <3> QED BY <3>3, <3>4
  <2> QED BY <2>1 DEF DraftsCounted
<1>16. OpsTypeOK'
  BY <1>2, <1>9, <1>11, <1>15 DEF OpsTypeOK
<1>17. NoSessionLeaks'
  BY <1>2, <1>7, <1>10 DEF NoSessionLeaks, OpsTypeOK
<1> HIDE DEF q
<1>18. Asks(q)'
  BY <1>2, <1>3, <1>4, <1>7 DEF Asks
<1>19. Hears(q)'
  <2>1. r = "yes" => cmd \in q'.done \cup Lenient
    BY <1>6, <1>7
  <2>2. r = "yes" /\ cmd = "MOVE" => ~store'[q.acct].here
    BY <1>4, <1>6, <1>9
  <2>3. r = "no" /\ cmd \in {"FETCHONE", "SOURCE"} => ~store'[q.acct].here
    BY <1>4, <1>6, <1>9
  <2> QED BY <2>1, <2>2, <2>3, <1>2, <1>4, <1>6, <1>7 DEF Hears, Gone, cmd
<1>20. Changes(q)'
  <2>1. q'.done \cap Changing # {} => q'.acct \in Accounts \ ReadOnly
    BY <1>3, <1>4, <1>5, <1>7 DEF Changes, Changing, Mutating, Fits
  <2>2. "APPEND" \in q'.done => works(r) /\ cmd = "APPEND"
    BY <1>4, <1>7
  <2> QED BY <2>1, <2>2, <1>5, <1>6, <1>7 DEF Changes, Fits, cmd
<1>21. Results(q)'
  <2>1. Gone(q) => Gone(q)'
    BY <1>7, <1>9 DEF Gone
  <2> QED BY <2>1, <1>2, <1>3, <1>4, <1>7 DEF Results, Waiting
<1>22. Records(q)'
  BY <1>2, <1>3, <1>4, <1>7 DEF Records
<1> USE DEF q
<1>23. Sound(c)'
  BY <1>13, <1>18, <1>19, <1>20, <1>21, <1>22 DEF Sound
<1> QED
  BY <1>12, <1>15, <1>16, <1>17, <1>23

-----------------------------------------------------------------------------
(* The invariant, and what follows from it.                                *)

\* The invariant holds before any request,
LEMMA OperationsInit == OpsInit => OperationsInv
<1> SUFFICES ASSUME OpsInit PROVE OperationsInv
  OBVIOUS
<1> USE OperationsAssumption DEF OpsInit
<1>1. NoRequest \in Requests
  <2>1. <<>> \in Seq(Commands)
    OBVIOUS
  <2> QED BY <2>1 DEF NoRequest, Requests, Fronts, Marks
<1>2. OpsTypeOK
  <2>1. Untouched \in [here : BOOLEAN, flagged : BOOLEAN, drafts : 0..Cardinality(Callers)]
    BY FS_CardinalityType DEF Untouched
  <2> QED BY <1>1, <2>1 DEF OpsTypeOK
<1>3. ASSUME NEW c \in Callers PROVE Sound(c)
  <2>1. Suits("none", <<>>)
    BY ShortScripts
  <2>2. Asks(req[c]) /\ Hears(req[c]) /\ Changes(req[c])
    BY <2>1 DEF NoRequest, Asks, Hears, Changes, Missing
  <2>3. Results(req[c]) /\ Records(req[c]) /\ Uploads(c)
    BY DEF NoRequest, Results, Waiting, Records, Uploads
  <2> QED BY <2>2, <2>3 DEF Sound
<1>4. NoSessionLeaks
  BY DEF NoSessionLeaks
<1>5. DraftsCounted
  <2>1. \A a \in Accounts : Drafters(a) = {} /\ store[a].drafts = 0
    BY DEF Drafters, NoRequest, Untouched
  <2> QED BY <2>1, FS_EmptySet DEF DraftsCounted
<1> QED
  BY <1>2, <1>3, <1>4, <1>5 DEF OperationsInv

\* and every step keeps it.
LEMMA OperationsStep == OperationsInv /\ [OpsNext]_opVars => OperationsInv'
<1> SUFFICES ASSUME OperationsInv, [OpsNext]_opVars PROVE OperationsInv'
  OBVIOUS
<1>1. CASE UNCHANGED opVars
  <2>1. OpsTypeOK' /\ NoSessionLeaks' /\ DraftsCounted'
    BY <1>1 DEF OperationsInv, OpsTypeOK, NoSessionLeaks, DraftsCounted, Drafters,
       opVars
  <2>2. \A d \in Callers : Sound(d)'
    BY <1>1, OthersSound DEF OperationsInv, opVars
  <2> QED BY <2>1, <2>2 DEF OperationsInv
<1>2. ASSUME NEW c \in Callers, Calling(c) PROVE OperationsInv'
  BY <1>2, InvalidKept, CallKept DEF Calling
<1>3. ASSUME NEW c \in Callers, RequestStep(c) PROVE OperationsInv'
  BY <1>3, ConnectOkKept, ConnectFailsKept, ExecuteKept, ProceedKept, ResetKept, HangUpKept,
     LogoutSettlesKept, LateResetKept, AnswerKept, UploadedKept, SignedKept, StagingFailsKept
     DEF RequestStep, Connect, Stage
<1> QED
  BY <1>1, <1>2, <1>3, VanishKept DEF OpsNext

(* Whatever the callers ask for and in whatever order the steps of their   *)
(* requests come, every request stays Sound.                               *)
THEOREM OperationsInvariant == OpsSpec => []OperationsInv
  BY OperationsInit, OperationsStep, PTL DEF OpsSpec

(* The state of the mailbox operations keeps its types; an account never   *)
(* gets more drafts than there are requests (createDraft does not save     *)
(* twice).                                                                 *)
THEOREM OperationsTyped == OpsSpec => []OpsTypeOK
<1>1. OperationsInv => OpsTypeOK
  BY DEF OperationsInv
<1> QED
  BY <1>1, OperationsInvariant, PTL

(* withClient: an IMAP connection is open only while its operation runs or *)
(* logs out, so that no answer leaves one behind, however the operation    *)
(* ends.                                                                   *)
THEOREM ConnectionsClosed == OpsSpec => []NoSessionLeaks
<1>1. OperationsInv => NoSessionLeaks
  BY DEF OperationsInv
<1> QED
  BY <1>1, OperationsInvariant, PTL

(* assertWritable: no request changes anything in a read-only account,     *)
(* through either front.                                                   *)
THEOREM ReadOnlyAccountsKept == OpsSpec => []ReadOnlyUntouched
<1>1. OperationsInv => ReadOnlyUntouched
  BY DEF OperationsInv, ReadOnlyUntouched, Sound, Changes
<1> QED
  BY <1>1, OperationsInvariant, PTL

\* The codes of an answered request.
LEMMA Codes ==
  ASSUME OperationsInv, NEW c \in Callers, Answered(c)
  PROVE  LET q == req[c] IN
         /\ q.res \in Outcomes /\ q.op \in Ops
         /\ q.res = "false" => Checked(q)
         /\ Code(q) = "OK" <=> q.res = "value"
         /\ Code(q) = "NOT_FOUND" <=>
              \/ q.res \in {"false", "unknown", "noMailbox"}
              \/ q.front = "http" /\ q.res \in {"readOnly", "connection"} /\ q.acct \in MatchingIds
<1> DEFINE q == req[c]
<1>1. /\ q \in Requests /\ q.phase = "answered"
      /\ Asks(q) /\ Results(q)
  BY DEF OperationsInv, OpsTypeOK, Sound, Answered, At
<1> HIDE DEF q
<1>2. q.res \in Outcomes /\ q.op \in Ops /\ q.op \in McpOps /\ (q.front = "http" => q.op \in HttpOps)
      /\ q.front \in Fronts
  BY <1>1, OperationsAssumption DEF Asks, Results, Waiting, Requests
<1>3. q.res = "false" => Checked(q)
  BY <1>1, <1>2, RoutesAndTools, ResultsChecked DEF Results, Checked, Fronts, Finding
<1>4. Code(q) = IF q.front = "http" THEN HttpCode(q.res, q.acct) ELSE McpCode(q.res, q.acct)
  BY <1>3 DEF Code
<1>5. Code(q) = "OK" <=> q.res = "value"
  BY <1>2, <1>4 DEF Outcomes, HttpCode, McpCode, Matches, Class
<1>6. Code(q) = "NOT_FOUND" <=>
        \/ q.res \in {"false", "unknown", "noMailbox"}
        \/ q.front = "http" /\ q.res \in {"readOnly", "connection"} /\ q.acct \in MatchingIds
  BY <1>2, <1>4 DEF Outcomes, HttpCode, McpCode, Matches, Class, Fronts
<1> QED
  BY <1>2, <1>3, <1>5, <1>6 DEF q

(* What OK promises is so: the message is no longer where it was to be     *)
(* moved from, the draft is saved, the content was read and staged.        *)
THEOREM AnswersTrue == OpsSpec => []AnswerMatchesEffect
<1>1. ASSUME OperationsInv PROVE AnswerMatchesEffect
  <2> SUFFICES ASSUME NEW c \in Callers, Answered(c), Code(req[c]) = "OK"
               PROVE  LET q == req[c] IN
                      /\ q.op = "move_message" => ~store[q.acct].here
                      /\ q.op = "create_draft" => "APPEND" \in q.done
                      /\ q.op = "export_message" => "SOURCE" \in q.done
                      /\ q.op = "get_attachment" => "DOWNLOAD" \in q.done
                      /\ q.op \in Staging => c \in blobs
    BY DEF AnswerMatchesEffect
  <2>1. Results(req[c]) /\ Uploads(c) /\ req[c].phase = "answered"
    BY <1>1 DEF OperationsInv, Sound, Answered, At
  <2>2. req[c].res = "value"
    BY <1>1, Codes
  <2> QED BY <2>1, <2>2 DEF Results, Uploads, Gone
<1> QED
  BY <1>1, OperationsInvariant, PTL

(* A caller who asks for content is told NOT_FOUND, when neither account   *)
(* nor mailbox is to blame, only if the message is gone. The condition is  *)
(* that no account id reads like a message that was not found:             *)
(* isResourceNotFoundError matches on the text.                            *)
THEOREM NotFoundMeansGone ==
  ASSUME MatchingIds = {}
  PROVE  OpsSpec => []NotFoundIsTrue
<1>1. ASSUME OperationsInv PROVE NotFoundIsTrue
  <2> SUFFICES ASSUME NEW c \in Callers, Answered(c), NamesKnown(req[c]),
                      req[c].op # "move_message", Code(req[c]) = "NOT_FOUND"
               PROVE  ~store[req[c].acct].here
    BY DEF NotFoundIsTrue
  <2>1. req[c].res = "false"
    BY <1>1, Codes, OperationsAssumption DEF OperationsInv, Sound, Results, NamesKnown
  <2> QED BY <2>1, <1>1 DEF OperationsInv, Sound, Results, Gone
<1> QED
  BY <1>1, OperationsInvariant, PTL

(* Under the same condition HTTP and MCP give an outcome that both can have *)
(* the same code: errorHandler and mapError test text and classes in       *)
(* opposite orders.                                                        *)
THEOREM SameCodes ==
  ASSUME MatchingIds = {}
  PROVE  OpsSpec => []FrontsAgree
<1>1. ASSUME OperationsInv PROVE FrontsAgree
  <2> SUFFICES ASSUME NEW c \in Callers, Answered(c), req[c].op \in HttpOps
               PROVE  Code([req[c] EXCEPT !.front = "http"]) = Code([req[c] EXCEPT !.front = "mcp"])
    BY DEF FrontsAgree
  <2> DEFINE h == [req[c] EXCEPT !.front = "http"]
             m == [req[c] EXCEPT !.front = "mcp"]
  <2>1. /\ req[c] \in Requests /\ req[c].res \in Outcomes
        /\ req[c].res = "false" => req[c].op \in {"get_message", "move_message"}
    BY <1>1, Codes, RoutesAndTools DEF OperationsInv, OpsTypeOK, Sound, Results, Finding
  <2>2. /\ h.front = "http" /\ h.op = req[c].op /\ h.res = req[c].res /\ h.acct = req[c].acct
        /\ m.front = "mcp" /\ m.op = req[c].op /\ m.res = req[c].res /\ m.acct = req[c].acct
    BY <2>1 DEF Requests
  <2> HIDE DEF h, m
  <2>3. h.res = "false" => Checked(h) /\ Checked(m)
    BY <2>1, <2>2, ResultsChecked DEF Checked
  <2>4. Code(h) = HttpCode(h.res, h.acct) /\ Code(m) = McpCode(h.res, h.acct)
    BY <2>2, <2>3 DEF Code
  <2>5. HttpCode(h.res, h.acct) = McpCode(h.res, h.acct)
    BY <2>1, <2>2 DEF Outcomes, HttpCode, McpCode, Matches, Class
  <2> QED BY <2>4, <2>5 DEF h, m
<1> QED
  BY <1>1, OperationsInvariant, PTL

\* MetricTellsAnswer of one request.
Told(q) ==
  /\ Code(q) = "OK" <=> q.metric = "success" /\ q.staged # "error"
  /\ Code(q) = "NOT_FOUND" <=> q.metric = "not_found"
  /\ Code(q) = "READ_ONLY_ACCOUNT" <=> q.metric = "read_only"
  /\ Code(q) = "IMAP_CONNECTION_ERROR" <=> q.metric = "imap_connection_error"
  /\ Code(q) \in {"OBJECT_STORAGE_NOT_CONFIGURED", "VALIDATION_ERROR"} <=> q.metric = "none"
  /\ q.conn = "error" => Code(q) = "IMAP_CONNECTION_ERROR" /\ q.done = {}
  /\ q.staged = "ok" <=> Code(q) = "OK" /\ q.op \in Staging

(* Under the same condition the outcomes that the decorators record, each  *)
(* seeing a part of the request, together say what the caller is told.     *)
THEOREM MetricsTrue ==
  ASSUME MatchingIds = {}
  PROVE  OpsSpec => []MetricTellsAnswer
<1>1. ASSUME OperationsInv PROVE MetricTellsAnswer
  <2> USE DEF MetricTellsAnswer
  <2> TAKE c \in Callers
  <2> SUFFICES ASSUME Answered(c) PROVE Told(req[c])
    BY DEF Told
  <2> DEFINE q == req[c]
  <2>1. /\ q.phase = "answered" /\ q.res \in Outcomes /\ Records(q)
        /\ q.res = "false" => Checked(q)
    BY <1>1, Codes DEF OperationsInv, Sound, Answered, At
  <2> HIDE DEF q
  <2>2. Code(q) = IF Matches(q.res, q.acct) THEN "NOT_FOUND" ELSE Class[q.res]
    BY <2>1 DEF Code, HttpCode, McpCode, Matches, Class, Outcomes
  <2>3. Code(q) = IF q.res \in {"unknown", "noMailbox"} THEN "NOT_FOUND" ELSE Class[q.res]
    BY <2>2 DEF Matches
  <2>4. ASSUME q.staged = "error" PROVE Told(q)
    <3>1. q.metric = "success" /\ q.res = "failed" /\ q.conn # "error" /\ q.staged # "ok"
      BY <2>1, <2>4 DEF Records
    <3>2. Code(q) = "INTERNAL_ERROR"
      BY <2>3, <3>1 DEF Class
    <3> QED BY <2>4, <3>1, <3>2 DEF Told
  <2>5. ASSUME q.staged # "error" PROVE Told(q)
    <3>1. q.metric = Recorded(q.res)
      BY <2>1, <2>5 DEF Records
    <3>2. /\ q.conn = "error" => q.res = "connection" /\ q.done = {}
          /\ q.staged = "ok" <=> q.res = "value" /\ q.op \in Staging
      BY <2>1 DEF Records
    <3>3. \/ q.res = "value" /\ Code(q) = "OK" /\ q.metric = "success"
          \/ q.res \in {"false", "unknown", "noMailbox"} /\ Code(q) = "NOT_FOUND" /\ q.metric = "not_found"
          \/ q.res = "readOnly" /\ Code(q) = "READ_ONLY_ACCOUNT" /\ q.metric = "read_only"
          \/ q.res = "connection" /\ Code(q) = "IMAP_CONNECTION_ERROR"
               /\ q.metric = "imap_connection_error"
          \/ q.res = "invalid" /\ Code(q) = "VALIDATION_ERROR" /\ q.metric = "none"
          \/ q.res = "noStorage" /\ Code(q) = "OBJECT_STORAGE_NOT_CONFIGURED" /\ q.metric = "none"
          \/ q.res = "failed" /\ Code(q) = "INTERNAL_ERROR" /\ q.metric = "error"
      BY <2>1, <2>3, <3>1 DEF Outcomes, Class, Recorded, MetricOutcome
    <3> QED BY <2>5, <3>2, <3>3 DEF Told
  <2> QED BY <2>4, <2>5 DEF q
<1> QED
  BY <1>1, OperationsInvariant, PTL
=============================================================================
