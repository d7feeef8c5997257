---------------------------- MODULE MessagePaging ----------------------------
(***************************************************************************)
(* Reading a mailbox page by page with list_messages, as its description   *)
(* tells an agent to (src/mcp/tools/messages.ts, listMessages in           *)
(* src/services/mailboxService.ts): each call passes as sinceUid the       *)
(* highest uid the agent has seen.  Mail arrives and is removed between    *)
(* the calls.  A message is its uid.                                       *)
(***************************************************************************)
EXTENDS Naturals, FiniteSets, FiniteSetsExt

CONSTANTS
  MaxUid,   \* bound: messages that ever arrive
  Limits,   \* values of limit that agents pass
  MaxPages  \* bound: calls of list_messages

ASSUME PagingAssumption ==
  /\ MaxUid \in Nat
  /\ MaxPages \in Nat
  /\ Limits \subseteq Nat \ {0}

VARIABLES
  uids,    \* messages in the mailbox (external)
  uidNext, \* uid of the next message (external)
  seen,    \* messages the agent has been given (external)
  cursor,  \* its next sinceUid, 0 while it passes none (external)
  page,    \* the last answer: what was asked for and what was returned
  full,    \* some page so far was as long as its limit (history)
  pages    \* calls so far

mailVars == <<uids, uidNext>>
agentVars == <<seen, cursor, page, full, pages>>
pagingVars == <<mailVars, agentVars>>

PagingTypeOK ==
  /\ uids \in SUBSET (1..MaxUid)
  /\ uidNext \in 1..MaxUid + 1
  /\ seen \in SUBSET (1..MaxUid)
  /\ cursor \in 0..MaxUid
  /\ page \in [since : 0..MaxUid, limit : Limits, messages : SUBSET (1..MaxUid), box : SUBSET (1..MaxUid)]
  /\ full \in BOOLEAN
  /\ pages \in 0..MaxPages
  /\ Cardinality(page.messages) <= page.limit
  /\ cursor = 0 <=> seen = {}
  /\ \A u \in seen : u <= cursor

\* The box part of page is history: the mailbox at the time of the call.
PagingInit ==
  /\ uids = {}
  /\ uidNext = 1
  /\ seen = {}
  /\ cursor = 0
  /\ page \in [since : {0}, limit : Limits, messages : {{}}, box : {{}}]
  /\ full = FALSE
  /\ pages = 0

-----------------------------------------------------------------------------
\* UID FETCH since:* (external): from since on, and always the last message,
\* because "*" is the highest uid and a range has no direction.
Fetched(since) ==
  {u \in uids : u >= since} \cup {u \in uids : \A v \in uids : v <= u}

\* Mutant: the first messages of the range are kept.
Cut_Oldest(S, limit) == {u \in S : Cardinality({v \in S : v < u}) < limit}

\* all.slice(-limit), when there are more than limit; the server lists a
\* mailbox in the order of its uids.
Cut(S, limit) == {u \in S : Cardinality({v \in S : v > u}) < limit}

\* Mutant: the limit is not applied.
ListMessages_NoLimit(since, limit) == Fetched(since)

\* Mutant: one message less than the limit, the off-by-one of slice(1 - limit).
ListMessages_OneShort(since, limit) ==
  LET all == Fetched(since)
  IN IF Cardinality(all) > limit THEN Cut(all, limit - 1) ELSE all

\* listMessages, for an account that can be read.
ListMessages(since, limit) ==
  LET all == Fetched(since)
  IN IF Cardinality(all) > limit THEN Cut(all, limit) ELSE all

\* One call of list_messages by the agent.
ListPage(limit) ==
  /\ pages < MaxPages
  /\ LET got == ListMessages(cursor, limit)
     IN /\ page' = [since |-> cursor, limit |-> limit, messages |-> got, box |-> uids]
        /\ seen' = seen \cup got
        /\ cursor' = Max(got \cup {cursor})
        /\ full' = (full \/ Cardinality(got) = limit)
  /\ pages' = pages + 1
  /\ UNCHANGED mailVars

Arrive ==
  /\ uidNext <= MaxUid
  /\ uids' = uids \cup {uidNext}
  /\ uidNext' = uidNext + 1
  /\ UNCHANGED agentVars

Expunge(u) ==
  /\ uids' = uids \ {u}
  /\ UNCHANGED <<uidNext, agentVars>>

PagingNext ==
  \/ \E limit \in Limits : ListPage(limit)
  \/ Arrive
  \/ \E u \in uids : Expunge(u)

PagingSpec == PagingInit /\ [][PagingNext]_pagingVars

-----------------------------------------------------------------------------
(* Properties.                                                             *)

(* A page ends with the newest message, so that an agent always learns how *)
(* far the mailbox reaches.                                                *)
NewestIncluded == page.box # {} => Max(page.box) \in page.messages

(* An agent whose pages were all shorter than its limits has been given    *)
(* every message up to its cursor: this is what it can go by.              *)
ShortPagesMissNothing == ~full => \A u \in uids : u <= cursor => u \in seen

(* docs/mcp-tools.md: "Only return messages with a uid greater than this". *)
OnlyGreater == \A u \in page.messages : u > page.since

(* "Use sinceUid to page incrementally": what is below the cursor and      *)
(* still in the mailbox has been given to the agent.                       *)
NothingMissedByPaging == \A u \in uids : u <= cursor => u \in seen

=============================================================================
