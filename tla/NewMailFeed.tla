----------------------------- MODULE NewMailFeed -----------------------------
(***************************************************************************)
(* What AccountWatcher promises of one mailbox, without connections,       *)
(* commands and promise chains: a feed of newMail events.  The feed has a  *)
(* watermark while a connection lasts.  A report hands on a batch of       *)
(* arrivals that leaves out none below its highest, and raises the         *)
(* watermark to that one.                                                  *)
(*                                                                         *)
(* AccountWatcher implements this specification for an account with one    *)
(* mailbox (property ImplementsFeed); MailNotifications builds on it.      *)
(***************************************************************************)
EXTENDS Integers, FiniteSetsExt

CONSTANT MaxUid  \* bound: UIDs the server gives out

ASSUME FeedAssumption == MaxUid \in Nat

VARIABLES
  mail,      \* messages in the mailbox (external)
  uidNext,   \* its UIDNEXT (external)
  last,      \* the watermark: UIDs up to it are no news; Unknown while down
  reported   \* newMail events per message, up to 2

feedVars == <<mail, uidNext, last, reported>>

Uids == 1..MaxUid
Unknown == -1

FeedInit ==
  /\ mail = {}
  /\ uidNext = 1
  /\ last = Unknown
  /\ reported = [u \in Uids |-> 0]

Arrive ==
  /\ uidNext <= MaxUid
  /\ mail' = mail \cup {uidNext}
  /\ uidNext' = uidNext + 1
  /\ UNCHANGED <<last, reported>>

Expunge ==
  /\ \E u \in mail : mail' = mail \ {u}
  /\ UNCHANGED <<uidNext, last, reported>>

\* A connection opens the mailbox: what is there by now is no news.
Rebase ==
  /\ last = Unknown
  /\ last' = uidNext - 1
  /\ UNCHANGED <<mail, uidNext, reported>>

\* The connection is lost or closed, and its watermark with it.
Lose ==
  /\ last # Unknown
  /\ last' = Unknown
  /\ UNCHANGED <<mail, uidNext, reported>>

\* Mutant: the watermark stays where it was.
Report_KeepsMark(uids) ==
  /\ last # Unknown
  /\ \A u \in uids : last < u /\ u < uidNext
  /\ \A u \in mail : last < u /\ u <= Max(uids) => u \in uids
  /\ reported' = [u \in Uids |-> IF u \in uids THEN Min({2, reported[u] + 1}) ELSE reported[u]]
  /\ UNCHANGED <<mail, uidNext, last>>

\* One newMail event for each of these UIDs.
Report(uids) ==
  /\ last # Unknown
  /\ \A u \in uids : last < u /\ u < uidNext
  /\ \A u \in mail : last < u /\ u <= Max(uids) => u \in uids
  /\ last' = Max(uids)
  /\ reported' = [u \in Uids |-> IF u \in uids THEN Min({2, reported[u] + 1}) ELSE reported[u]]
  /\ UNCHANGED <<mail, uidNext>>

Batches == (SUBSET Uids) \ {{}}

FeedNext == Arrive \/ Expunge \/ Rebase \/ Lose \/ \E uids \in Batches : Report(uids)

FeedSpec == FeedInit /\ [][FeedNext]_feedVars

=============================================================================
