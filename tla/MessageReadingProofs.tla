------------------------ MODULE MessageReadingProofs ------------------------
(***************************************************************************)
(* Proofs about the operations that read messages.                         *)
(*                                                                         *)
(* MessagePaging, for any number of messages and pages and any limits: the *)
(* length of a page that is cut (CutSize) and its newest message come from *)
(* the ranks of the messages (UidRanks).                                   *)
(*                                                                         *)
(* MessageStructure, for every structure in which each leaf has a part id  *)
(* of its own, however deep and wide: Passed is the set of leaves a walk is*)
(* past, those before the place it is at.  A step between nodes leaves     *)
(* Passed as it is, the visit of a leaf adds that leaf, which comes after  *)
(* all of Passed, and at the end Passed is every leaf; StructureInv says   *)
(* what has been collected in terms of Passed.                             *)
(***************************************************************************)
EXTENDS MessagePaging, MessageStructure, UidRanks, SequenceTheorems

\* The inductive invariant: the properties, and that the server gives out uids in ascending
\* order, so that what arrives is above the cursor.
PagingInv ==
  /\ PagingTypeOK
  /\ NewestIncluded
  /\ ShortPagesMissNothing
  /\ \A u \in uids : u < uidNext
  /\ cursor < uidNext

-----------------------------------------------------------------------------
\* slice(-limit) of a longer list leaves exactly limit messages.
LEMMA CutSize ==
  ASSUME NEW S \in SUBSET Nat, IsFiniteSet(S), NEW limit \in Nat, Cardinality(S) > limit
  PROVE  Cardinality(Cut(S, limit)) = limit
<1> DEFINE T == Cut(S, limit)
           rank == [u \in T |-> Rank(S, u)]
<1>1. T \in SUBSET S /\ \A u \in S : u \in T <=> Rank(S, u) < limit
  BY DEF Cut, Rank, Above
<1>2. Cardinality(S) \in Nat
  BY FS_CardinalityType
<1>3. rank \in [T -> 0..limit - 1]
  <2>1. \A u \in S : Rank(S, u) \in 0..Cardinality(S) - 1
    BY RankDescends
  <2>2. ASSUME NEW u \in T
        PROVE  Rank(S, u) \in 0..limit - 1
    <3>1. u \in S /\ Rank(S, u) < limit
      BY <1>1
    <3>2. Rank(S, u) \in 0..Cardinality(S) - 1
      BY <2>1, <3>1
    <3> QED
      BY <1>2, <3>1, <3>2
  <2> QED
    BY <2>2
<1>4. rank \in Injection(T, 0..limit - 1)
  <2>1. ASSUME NEW x \in T, NEW y \in T, rank[x] = rank[y]
        PROVE  x = y
    <3>1. x \in S /\ y \in S /\ Rank(S, x) = Rank(S, y)
      BY <1>1, <2>1
    <3>2. \A u \in S : Rank(S, u) \in 0..Cardinality(S) - 1
      BY RankDescends
    <3>3. \A u, v \in S : u < v => Rank(S, v) < Rank(S, u)
      BY RankDescends
    <3>4. ~(x < y) /\ ~(y < x)
      BY <1>2, <3>1, <3>2, <3>3
    <3> QED
      BY <3>1, <3>4
  <2> QED
    BY <1>3, <2>1 DEF Injection, IsInjective
<1>5. ASSUME NEW r \in 0..limit - 1
      PROVE  \E u \in T : rank[u] = r
  <2>1. r \in 0..Cardinality(S) - 1
    BY <1>2
  <2>2. PICK u \in S : Rank(S, u) = r
    BY <2>1, RanksNumber
  <2> QED
    BY <1>1, <2>2
<1>6. rank \in Surjection(T, 0..limit - 1)
  BY <1>3, <1>5 DEF Surjection
<1>7. IsFiniteSet(0..limit - 1) /\ Cardinality(0..limit - 1) = limit
  <2>1. limit - 1 \in Int /\ 0 \in Int
    OBVIOUS
  <2>2. /\ IsFiniteSet(0..limit - 1)
        /\ Cardinality(0..limit - 1) = IF 0 > limit - 1 THEN 0 ELSE limit - 1 - 0 + 1
    BY <2>1, FS_Interval
  <2> QED
    BY <2>2
<1>8. Cardinality(T) = Cardinality(0..limit - 1)
  BY <1>4, <1>6, <1>7, FS_Injection
<1> QED
  BY <1>7, <1>8

\* What listMessages answers: messages of the mailbox, no more than the limit, all from
\* since on when they are fewer than the limit, and the newest one always.
LEMMA PageContents ==
  ASSUME NEW since \in Nat, NEW limit \in Nat \ {0}, uids \in SUBSET Nat, IsFiniteSet(uids)
  PROVE  LET got == ListMessages(since, limit)
         IN /\ got \in SUBSET uids
            /\ IsFiniteSet(got)
            /\ Cardinality(got) <= limit
            /\ Cardinality(got) # limit => \A u \in uids : u >= since => u \in got
            /\ uids # {} => Max(uids) \in got
<1> DEFINE all == Fetched(since)
           got == ListMessages(since, limit)
<1>1. all \in SUBSET uids /\ \A u \in uids : u >= since => u \in all
  BY DEF Fetched
<1>2. IsFiniteSet(all) /\ Cardinality(all) \in Nat /\ all \in SUBSET Nat
  BY <1>1, FS_Subset, FS_CardinalityType
<1>3. got = IF Cardinality(all) > limit THEN Cut(all, limit) ELSE all
  BY DEF ListMessages
<1>4. got \in SUBSET all
  BY <1>3 DEF Cut
<1>5. Cardinality(got) <= limit /\ (Cardinality(got) # limit => got = all)
  <2>1. CASE Cardinality(all) > limit
    BY <1>2, <1>3, <2>1, CutSize
  <2>2. CASE ~(Cardinality(all) > limit)
    BY <1>2, <1>3, <2>2
  <2> QED
    BY <2>1, <2>2
<1>6. ASSUME uids # {}
      PROVE  Max(uids) \in got
  <2> DEFINE top == Max(uids)
  <2>1. top \in uids /\ \A v \in uids : v <= top
    BY <1>6, HasMax
  <2>2. top \in all
    BY <2>1 DEF Fetched
  <2>3. {v \in all : v > top} = {}
    <3>1. ASSUME NEW v \in all
          PROVE  ~(v > top)
      <4>1. v \in Nat /\ top \in Nat /\ v <= top
        BY <1>1, <2>1
      <4> QED
        BY <4>1
    <3> QED
      BY <3>1
  <2>4. top \in Cut(all, limit)
    BY <2>2, <2>3, FS_EmptySet DEF Cut
  <2> QED
    BY <1>3, <2>2, <2>4
<1> QED
  BY <1>1, <1>2, <1>4, <1>5, <1>6, FS_Subset

-----------------------------------------------------------------------------
\* Before the first call.
LEMMA InitPaging == PagingInit => PagingInv
<1> SUFFICES ASSUME PagingInit PROVE PagingInv
  OBVIOUS
<1>1. /\ page = [since |-> 0, limit |-> page.limit, messages |-> {}, box |-> {}]
      /\ page.limit \in Limits
  BY DEF PagingInit
<1>2. Cardinality(page.messages) <= page.limit
  BY <1>1, FS_EmptySet, PagingAssumption
<1>3. page \in [since : 0..MaxUid, limit : Limits,
                messages : SUBSET (1..MaxUid), box : SUBSET (1..MaxUid)]
  BY <1>1, PagingAssumption DEF PagingInit
<1>4. PagingTypeOK
  <2>1. /\ uids \in SUBSET (1..MaxUid) /\ uidNext \in 1..MaxUid + 1
        /\ seen \in SUBSET (1..MaxUid) /\ cursor \in 0..MaxUid
        /\ full \in BOOLEAN /\ pages \in 0..MaxPages
    <3>1. MaxUid \in Nat /\ MaxPages \in Nat
      BY PagingAssumption
    <3>2. uids = {} /\ uidNext = 1 /\ seen = {} /\ cursor = 0 /\ pages = 0
      BY DEF PagingInit
    <3>3. full \in BOOLEAN
      BY DEF PagingInit
    <3>4. 1 \in 1..MaxUid + 1 /\ 0 \in 0..MaxUid /\ 0 \in 0..MaxPages
      BY <3>1
    <3> QED
      BY <3>2, <3>3, <3>4
  <2> QED
    BY <1>2, <1>3, <2>1 DEF PagingInit, PagingTypeOK
<1> QED
  BY <1>1, <1>4 DEF PagingInit, PagingInv, NewestIncluded, ShortPagesMissNothing

\* A call of list_messages keeps the invariant.
LEMMA ListPageKeeps ==
  ASSUME PagingInv, NEW limit \in Limits, ListPage(limit)
  PROVE  PagingInv'
<1> DEFINE got == ListMessages(cursor, limit)
<1>1. /\ cursor \in 0..MaxUid /\ uids \in SUBSET (1..MaxUid) /\ uidNext \in 1..MaxUid + 1
      /\ seen \in SUBSET (1..MaxUid) /\ full \in BOOLEAN /\ pages \in 0..MaxPages
      /\ cursor = 0 <=> seen = {}
      /\ \A u \in seen : u <= cursor
  BY DEF PagingInv, PagingTypeOK
<1>2. limit \in Nat \ {0} /\ MaxUid \in Nat /\ MaxPages \in Nat
  BY PagingAssumption
<1>3. IsFiniteSet(uids) /\ uids \in SUBSET Nat
  <2>1. IsFiniteSet(1..MaxUid)
    BY <1>2, FS_Interval
  <2>2. IsFiniteSet(uids)
    BY <1>1, <2>1, FS_Subset
  <2> QED
    BY <1>1, <1>2, <2>2
<1>4. /\ got \in SUBSET uids
      /\ IsFiniteSet(got)
      /\ Cardinality(got) <= limit
      /\ Cardinality(got) # limit => \A u \in uids : u >= cursor => u \in got
      /\ uids # {} => Max(uids) \in got
  BY <1>1, <1>2, <1>3, PageContents
<1>5. /\ page' = [since |-> cursor, limit |-> limit, messages |-> got, box |-> uids]
      /\ seen' = seen \cup got
      /\ cursor' = Max(got \cup {cursor})
      /\ full' = (full \/ Cardinality(got) = limit)
      /\ pages < MaxPages /\ pages' = pages + 1
      /\ uids' = uids /\ uidNext' = uidNext
  BY DEF ListPage, mailVars
<1> HIDE DEF got
<1>6. IsFiniteSet(got \cup {cursor}) /\ got \cup {cursor} \in SUBSET (0..MaxUid)
  BY <1>1, <1>2, <1>4, FS_AddElement
<1>7. cursor' \in got \cup {cursor} /\ \A u \in got \cup {cursor} : u <= cursor'
  <2>1. got \cup {cursor} \in SUBSET Nat
    BY <1>6
  <2>2. /\ Max(got \cup {cursor}) \in got \cup {cursor}
        /\ \A u \in got \cup {cursor} : Max(got \cup {cursor}) >= u
    BY <1>6, <2>1, HasMax
  <2> QED
    BY <1>5, <2>1, <2>2
<1>8. PagingTypeOK'
  <2>1. page' \in [since : 0..MaxUid, limit : Limits,
                   messages : SUBSET (1..MaxUid), box : SUBSET (1..MaxUid)]
    BY <1>1, <1>4, <1>5
  <2>2. Cardinality(page.messages)' <= page.limit'
    BY <1>4, <1>5
  <2>3. cursor' = 0 <=> seen' = {}
    BY <1>1, <1>2, <1>4, <1>5, <1>7
  <2>4. \A u \in seen' : u <= cursor'
    BY <1>1, <1>2, <1>4, <1>5, <1>6, <1>7
  <2> QED
    BY <1>1, <1>2, <1>4, <1>5, <1>6, <1>7, <2>1, <2>2, <2>3, <2>4 DEF PagingTypeOK
<1>9. NewestIncluded'
  BY <1>4, <1>5 DEF NewestIncluded
<1>10. ShortPagesMissNothing'
  <2> SUFFICES ASSUME ~full', NEW u \in uids, u <= cursor'
               PROVE  u \in seen'
    BY <1>5 DEF ShortPagesMissNothing
  <2>1. ~full /\ \A v \in uids : v >= cursor => v \in got
    BY <1>4, <1>5
  <2>2. CASE u >= cursor
    BY <1>5, <2>1, <2>2
  <2>3. CASE u < cursor
    <3>1. u \in seen
      BY <1>1, <1>3, <2>1, <2>3 DEF PagingInv, ShortPagesMissNothing
    <3> QED
      BY <1>5, <3>1
  <2> QED
    BY <1>1, <1>3, <2>2, <2>3
<1>11. (\A u \in uids : u < uidNext)' /\ (cursor < uidNext)'
  BY <1>4, <1>5, <1>7 DEF PagingInv
<1> QED
  BY <1>8, <1>9, <1>10, <1>11 DEF PagingInv

\* A message arrives above all uids and above the cursor.
LEMMA ArriveKeeps ==
  ASSUME PagingInv, Arrive
  PROVE  PagingInv'
<1>1. MaxUid \in Nat /\ uidNext \in 1..MaxUid + 1 /\ uidNext <= MaxUid
  BY PagingAssumption DEF PagingInv, PagingTypeOK, Arrive
<1>2. PagingTypeOK'
  BY <1>1 DEF PagingInv, PagingTypeOK, Arrive, agentVars
<1>3. NewestIncluded' /\ (cursor < uidNext)'
  BY <1>1 DEF PagingInv, PagingTypeOK, NewestIncluded, Arrive, agentVars
<1>4. ShortPagesMissNothing'
  BY <1>1 DEF PagingInv, PagingTypeOK, ShortPagesMissNothing, Arrive, agentVars
<1>5. (\A u \in uids : u < uidNext)'
  BY <1>1 DEF PagingInv, PagingTypeOK, Arrive
<1> QED
  BY <1>2, <1>3, <1>4, <1>5 DEF PagingInv

\* A message is removed.
LEMMA ExpungeKeeps ==
  ASSUME PagingInv, NEW u \in uids, Expunge(u)
  PROVE  PagingInv'
BY DEF PagingInv, PagingTypeOK, NewestIncluded, ShortPagesMissNothing, Expunge, agentVars

(* The invariant holds in every state.                                     *)
THEOREM PagingInvariant == PagingSpec => []PagingInv
<1>1. PagingInv /\ [PagingNext]_pagingVars => PagingInv'
  <2> SUFFICES ASSUME PagingInv, [PagingNext]_pagingVars PROVE PagingInv'
    OBVIOUS
  <2>1. CASE UNCHANGED pagingVars
    BY <2>1 DEF PagingInv, PagingTypeOK, NewestIncluded, ShortPagesMissNothing,
                pagingVars, mailVars, agentVars
  <2>2. CASE PagingNext
    BY <2>2, ListPageKeeps, ArriveKeeps, ExpungeKeeps DEF PagingNext
  <2> QED
    BY <2>1, <2>2
<1> QED
  BY <1>1, InitPaging, PTL DEF PagingSpec

(* The agent's cursor is the highest uid it has been given, and no page is *)
(* longer than its limit.                                                  *)
THEOREM PagingTyped == PagingSpec => []PagingTypeOK
<1>1. PagingInv => PagingTypeOK
  BY DEF PagingInv
<1> QED
  BY <1>1, PagingInvariant, PTL

(* Every page of a mailbox that is not empty ends with its newest message, *)
(* also when the cursor is past all uids (the range since:* then still     *)
(* holds the last one).                                                    *)
THEOREM NewestAlwaysShown == PagingSpec => []NewestIncluded
<1>1. PagingInv => NewestIncluded
  BY DEF PagingInv
<1> QED
  BY <1>1, PagingInvariant, PTL

(* An agent whose pages were all shorter than its limits has been given    *)
(* every message up to its cursor that is still there, whatever arrived    *)
(* and was removed between its calls.  (Behind a full page                 *)
(* NothingMissedByPaging fails.)                                           *)
THEOREM ShortPagesComplete == PagingSpec => []ShortPagesMissNothing
<1>1. PagingInv => ShortPagesMissNothing
  BY DEF PagingInv
<1> QED
  BY <1>1, PagingInvariant, PTL

-----------------------------------------------------------------------------
(* The places of a structure.                                              *)

\* l is p or in the structure below it.
Under(p, l) == Len(p) <= Len(l) /\ \A j \in 1..Len(p) : l[j] = p[j]

\* A place is a sequence of positive numbers, and its node has some number of children.
LEMMA Places ==
  ASSUME NEW tree, IsTree(tree), NEW p \in DOMAIN tree
  PROVE  /\ p \in Seq(Nat) /\ Len(p) \in Nat /\ DOMAIN p = 1..Len(p)
         /\ \A i \in 1..Len(p) : p[i] \in Nat /\ p[i] >= 1
         /\ tree[p].kids \in Nat
<1>1. p \in Seq(Nat \ {0}) /\ tree[p].kids \in Nat
  BY DEF IsTree
<1> QED
  BY <1>1

\* The places before p, by their numbers.
LEMMA BeforeIn ==
  ASSUME NEW p \in Seq(Nat), NEW q \in Seq(Nat)
  PROVE  Before(p, q) <=> \E i \in 1..Len(p) : /\ i <= Len(q) /\ p[i] < q[i]
                                               /\ \A j \in 1..(i - 1) : p[j] = q[j]
<1>1. DOMAIN p \cap DOMAIN q = {i \in 1..Len(p) : i <= Len(q)}
  OBVIOUS
<1> QED
  BY <1>1 DEF Before

\* Of two places at most one is before the other.
LEMMA Asymmetric ==
  ASSUME NEW p \in Seq(Nat), NEW q \in Seq(Nat), Before(p, q)
  PROVE  ~Before(q, p)
<1> SUFFICES ASSUME Before(q, p) PROVE FALSE
  OBVIOUS
<1>1. PICK i \in 1..Len(p) : i <= Len(q) /\ p[i] < q[i] /\ \A j \in 1..(i - 1) : p[j] = q[j]
  BY BeforeIn
<1>2. PICK k \in 1..Len(q) : k <= Len(p) /\ q[k] < p[k] /\ \A j \in 1..(k - 1) : q[j] = p[j]
  BY BeforeIn
<1>3. i \in 1..Len(q) /\ k \in 1..Len(p)
  BY <1>1, <1>2
<1>4. p[i] \in Nat /\ q[i] \in Nat /\ p[k] \in Nat /\ q[k] \in Nat
  BY <1>3, SMTT(30)
<1>5. CASE i < k
  BY <1>1, <1>2, <1>4, <1>5, SMTT(30)
<1>6. CASE k < i
  BY <1>1, <1>2, <1>4, <1>6
<1>7. CASE i = k
  BY <1>1, <1>2, <1>4, <1>7
<1> QED
  BY <1>5, <1>6, <1>7

\* The first child of p is a place, and no leaf lies between p and it.
LEMMA DownPassed ==
  ASSUME NEW tree, IsTree(tree), NEW p \in DOMAIN tree, tree[p].kids > 0, NEW l \in DOMAIN tree
  PROVE  /\ Append(p, 1) \in DOMAIN tree
         /\ Before(l, Append(p, 1)) <=> Before(l, p)
<1> DEFINE q == Append(p, 1)
<1>1. /\ p \in Seq(Nat) /\ l \in Seq(Nat) /\ tree[p].kids \in Nat
      /\ \A i \in 1..Len(l) : l[i] \in Nat /\ l[i] >= 1
  BY Places
<1>2. q \in DOMAIN tree
  BY <1>1 DEF IsTree
<1>3. /\ q \in Seq(Nat) /\ Len(q) = Len(p) + 1 /\ q[Len(p) + 1] = 1
      /\ \A i \in 1..Len(p) : q[i] = p[i]
  BY <1>1
<1> HIDE DEF q
<1>4. ASSUME Before(l, q) PROVE Before(l, p)
  <2>1. PICK i \in 1..Len(l) : i <= Len(q) /\ l[i] < q[i] /\ \A j \in 1..(i - 1) : l[j] = q[j]
    BY <1>1, <1>3, <1>4, BeforeIn
  <2>2. i <= Len(p)
    BY <1>1, <1>3, <2>1
  <2>3. l[i] < p[i] /\ \A j \in 1..(i - 1) : l[j] = p[j]
    BY <1>1, <1>3, <2>1, <2>2, SMTT(30)
  <2> QED
    BY <1>1, <2>2, <2>3, BeforeIn
<1>5. ASSUME Before(l, p) PROVE Before(l, q)
  <2>1. PICK i \in 1..Len(l) : i <= Len(p) /\ l[i] < p[i] /\ \A j \in 1..(i - 1) : l[j] = p[j]
    BY <1>1, <1>5, BeforeIn
  <2>2. i <= Len(q) /\ l[i] < q[i] /\ \A j \in 1..(i - 1) : l[j] = q[j]
    BY <1>1, <1>3, <2>1, SMTT(30)
  <2> QED
    BY <1>1, <1>3, <2>2, BeforeIn
<1> QED
  BY <1>2, <1>4, <1>5 DEF q

\* Below a leaf there is nothing but the leaf.
LEMMA LeafPassed ==
  ASSUME NEW tree, IsTree(tree), NEW p \in Leaves(tree), NEW l \in DOMAIN tree
  PROVE  Under(p, l) <=> l = p
<1>1. /\ p \in Seq(Nat) /\ l \in Seq(Nat) /\ p \in DOMAIN tree /\ tree[p].kids = 0
      /\ \A i \in 1..Len(l) : l[i] \in Nat /\ l[i] >= 1
  BY Places DEF Leaves
<1>2. ASSUME Under(p, l) PROVE l = p
  <2>1. Len(p) <= Len(l) /\ \A j \in 1..Len(p) : l[j] = p[j]
    BY <1>2 DEF Under
  <2>2. CASE Len(l) = Len(p)
    BY <1>1, <2>1, <2>2
  <2>3. CASE Len(l) > Len(p)
    <3> DEFINE n == Len(p) + 1
    <3>1. n \in DOMAIN l /\ n - 1 = Len(p) /\ l[n] \in Nat /\ l[n] >= 1
      BY <1>1, <2>3
    <3>2. SubSeq(l, 1, n - 1) = p
      BY <1>1, <2>1, <3>1
    <3>3. l[n] <= tree[SubSeq(l, 1, n - 1)].kids
      BY <3>1 DEF IsTree
    <3> HIDE DEF n
    <3>4. l[n] <= 0
      BY <1>1, <3>2, <3>3
    <3> QED
      BY <3>1, <3>4
  <2> QED
    BY <1>1, <2>1, <2>2, <2>3
<1>3. Under(p, p)
  BY <1>1 DEF Under
<1> QED
  BY <1>2, <1>3

\* The parent of p, and which of its children p is.
LEMMA Parent ==
  ASSUME NEW tree, IsTree(tree), NEW p \in DOMAIN tree, p # <<>>
  PROVE  /\ Front(p) \in DOMAIN tree /\ Front(p) \in Seq(Nat)
         /\ Len(p) >= 1 /\ Len(Front(p)) = Len(p) - 1
         /\ Last(p) = p[Len(p)] /\ Last(p) \in 1..tree[Front(p)].kids
         /\ \A i \in 1..(Len(p) - 1) : Front(p)[i] = p[i]
<1>1. /\ p \in Seq(Nat) /\ Len(p) \in Nat /\ \A i \in 1..Len(p) : p[i] \in Nat /\ p[i] >= 1
  BY Places
<1>2. Len(p) >= 1
  BY <1>1
<1>3. Len(p) \in DOMAIN p
  BY <1>1, <1>2
<1>4. Front(p) \in DOMAIN tree /\ p[Len(p)] <= tree[Front(p)].kids
  BY <1>3 DEF IsTree, Front
<1>5. /\ Front(p) \in Seq(Nat) /\ Len(Front(p)) = Len(p) - 1
      /\ \A i \in 1..(Len(p) - 1) : Front(p)[i] = p[i]
  <2> DEFINE n == Len(p) - 1
  <2>1. n \in Int /\ n >= 0 /\ \A i \in 1..n : p[i] \in Nat
    BY <1>1, <1>2
  <2> HIDE DEF n
  <2>2. /\ SubSeq(p, 1, n) \in Seq(Nat)
        /\ Len(SubSeq(p, 1, n)) = IF 1 <= n THEN n - 1 + 1 ELSE 0
        /\ \A i \in 1..(n - 1 + 1) : SubSeq(p, 1, n)[i] = p[1 + i - 1]
    BY <2>1, SubSeqProperties
  <2>3. SubSeq(p, 1, n) \in Seq(Nat) /\ Len(SubSeq(p, 1, n)) = n
        /\ \A i \in 1..n : SubSeq(p, 1, n)[i] = p[i]
    BY <2>1, <2>2
  <2> QED
    BY <2>3 DEF Front, n
<1>6. tree[Front(p)].kids \in Nat
  BY <1>4, Places
<1> QED
  BY <1>1, <1>2, <1>4, <1>5, <1>6 DEF Last

\* Before the next child of the same parent comes what is before p, and what is below p.
LEMMA NextPassed ==
  ASSUME NEW tree, IsTree(tree), NEW p \in DOMAIN tree, p # <<>>,
         Last(p) < tree[Front(p)].kids, NEW l \in DOMAIN tree
  PROVE  /\ Append(Front(p), Last(p) + 1) \in DOMAIN tree
         /\ Before(l, Append(Front(p), Last(p) + 1)) <=> Before(l, p) \/ Under(p, l)
<1> DEFINE q == Append(Front(p), Last(p) + 1)
           n == Len(p)
<1>1. /\ p \in Seq(Nat) /\ l \in Seq(Nat) /\ \A i \in 1..Len(l) : l[i] \in Nat
      /\ Front(p) \in DOMAIN tree /\ tree[Front(p)].kids \in Nat
  BY Places, Parent
<1>2. /\ Front(p) \in Seq(Nat) /\ n \in Nat /\ n >= 1 /\ Len(Front(p)) = n - 1
      /\ Last(p) = p[n] /\ p[n] \in Nat /\ Last(p) >= 1
      /\ \A i \in 1..(n - 1) : Front(p)[i] = p[i]
  BY <1>1, Parent
<1>3. q \in DOMAIN tree
  <2>1. Last(p) + 1 \in 1..tree[Front(p)].kids
    BY <1>1, <1>2
  <2> QED
    BY <1>1, <2>1 DEF IsTree
<1>4. q \in Seq(Nat) /\ Len(q) = n /\ q[n] = p[n] + 1 /\ \A i \in 1..(n - 1) : q[i] = p[i]
  BY <1>2
<1> HIDE DEF q, n
<1>5. ASSUME Before(l, q) PROVE Before(l, p) \/ Under(p, l)
  <2>1. PICK i \in 1..Len(l) : i <= n /\ l[i] < q[i] /\ \A j \in 1..(i - 1) : l[j] = q[j]
    BY <1>1, <1>4, <1>5, BeforeIn
  <2>2. \A j \in 1..(i - 1) : l[j] = p[j]
    BY <1>1, <1>2, <1>4, <2>1
  <2>3. CASE l[i] < p[i]
    <3>1. i <= Len(p)
      BY <2>1 DEF n
    <3> QED
      BY <1>1, <2>2, <2>3, <3>1, BeforeIn
  <2>4. CASE ~(l[i] < p[i])
    <3>1. i = n
      <4>1. i < n => q[i] = p[i]
        BY <1>2, <1>4, <2>1
      <4> QED
        BY <1>2, <2>1, <2>4, <4>1
    <3>2. l[n] = p[n]
      BY <1>1, <1>2, <1>4, <2>1, <2>4, <3>1, SMTT(30)
    <3>3. n <= Len(l) /\ \A j \in 1..n : l[j] = p[j]
      BY <1>1, <1>2, <2>1, <2>2, <3>1, <3>2, SMTT(30)
    <3> QED
      BY <3>3 DEF Under, n
  <2> QED
    BY <2>3, <2>4
<1>6. ASSUME Before(l, p) PROVE Before(l, q)
  <2>1. PICK i \in 1..Len(l) : i <= n /\ l[i] < p[i] /\ \A j \in 1..(i - 1) : l[j] = p[j]
    BY <1>1, <1>6, BeforeIn DEF n
  <2>2. \A j \in 1..(i - 1) : l[j] = q[j]
    BY <1>2, <1>4, <2>1
  <2>3. l[i] < q[i]
    <3>1. CASE i = n
      <4>1. l[n] \in Nat /\ l[n] < p[n] /\ q[n] = p[n] + 1 /\ p[n] \in Nat
        BY <1>1, <1>2, <1>4, <2>1, <3>1
      <4> QED
        BY <3>1, <4>1
    <3>2. CASE i < n
      <4>1. q[i] = p[i]
        BY <1>2, <1>4, <2>1, <3>2
      <4> QED
        BY <2>1, <4>1
    <3> QED
      BY <1>2, <2>1, <3>1, <3>2
  <2> QED
    BY <1>1, <1>4, <2>1, <2>2, <2>3, BeforeIn
<1>7. ASSUME Under(p, l) PROVE Before(l, q)
  <2>1. n \in 1..Len(l) /\ \A j \in 1..n : l[j] = p[j]
    BY <1>1, <1>2, <1>7 DEF Under, n
  <2>2. l[n] = p[n] /\ l[n] < q[n]
    BY <1>2, <1>4, <2>1
  <2>3. \A j \in 1..(n - 1) : l[j] = q[j]
    BY <1>2, <1>4, <2>1
  <2> QED
    <3>1. \E i \in 1..Len(l) : i <= Len(q) /\ l[i] < q[i] /\ \A j \in 1..(i - 1) : l[j] = q[j]
      BY <1>2, <1>4, <2>1, <2>2, <2>3, SMTT(30)
    <3> QED
      BY <1>1, <1>4, <3>1, BeforeIn
<1> QED
  BY <1>3, <1>5, <1>6, <1>7 DEF q

\* Behind the last child of a node nothing of that node is left: what is before the node or
\* below it is before that child or below it.
LEMMA LastPassed ==
  ASSUME NEW tree, IsTree(tree), NEW p \in DOMAIN tree, p # <<>>,
         Last(p) = tree[Front(p)].kids, NEW l \in Leaves(tree)
  PROVE  Before(l, Front(p)) \/ Under(Front(p), l) <=> Before(l, p) \/ Under(p, l)
<1> DEFINE f == Front(p)
           n == Len(p)
<1>1. /\ p \in Seq(Nat) /\ l \in Seq(Nat) /\ \A i \in 1..Len(l) : l[i] \in Nat
      /\ l \in DOMAIN tree /\ tree[l].kids = 0
  BY Places DEF Leaves
<1>2. /\ f \in Seq(Nat) /\ n \in Nat /\ n >= 1 /\ Len(f) = n - 1
      /\ p[n] = tree[f].kids /\ p[n] \in Nat /\ p[n] >= 1
      /\ \A i \in 1..(n - 1) : f[i] = p[i]
  BY <1>1, Parent
<1> HIDE DEF f, n
<1>3. ASSUME Before(l, f) PROVE Before(l, p)
  <2>1. PICK i \in 1..Len(l) : i <= n - 1 /\ l[i] < f[i] /\ \A j \in 1..(i - 1) : l[j] = f[j]
    BY <1>1, <1>2, <1>3, BeforeIn
  <2>2. i <= n /\ l[i] < p[i] /\ \A j \in 1..(i - 1) : l[j] = p[j]
    BY <1>2, <2>1
  <2> QED
    BY <1>1, <2>2, BeforeIn DEF n
<1>4. ASSUME Under(f, l) PROVE Before(l, p) \/ Under(p, l)
  <2>1. n - 1 <= Len(l) /\ \A j \in 1..(n - 1) : l[j] = p[j] /\ l[j] = f[j]
    BY <1>2, <1>4 DEF Under
  <2>2. Len(l) # n - 1
    <3> SUFFICES ASSUME Len(l) = n - 1 PROVE FALSE
      OBVIOUS
    <3>1. l = f
      BY <1>1, <1>2, <2>1
    <3> QED
      <4>1. tree[f].kids = 0
        BY <1>1, <3>1
      <4> QED
        BY <1>2, <4>1
  <2>3. n \in 1..Len(l)
    <3>1. Len(l) \in Nat /\ n \in Nat /\ n >= 1 /\ n - 1 <= Len(l)
      BY <1>1, <1>2, <2>1
    <3> QED
      BY <2>2, <3>1
  <2>4. l[n] <= p[n]
    <3>1. SubSeq(l, 1, n - 1) = f
      BY <1>1, <1>2, <2>1, <2>3
    <3>2. n \in DOMAIN l
      BY <1>1, <2>3
    <3>3. l[n] <= tree[SubSeq(l, 1, n - 1)].kids
      BY <1>1, <3>2 DEF IsTree
    <3> QED
      BY <1>2, <3>1, <3>3
  <2>5. CASE l[n] = p[n]
    <3>1. \A j \in 1..n : l[j] = p[j]
      BY <1>2, <2>1, <2>5
    <3> QED
      BY <1>1, <2>3, <3>1 DEF Under, n
  <2>6. CASE l[n] < p[n]
    <3>1. n <= Len(p) /\ \A j \in 1..(n - 1) : l[j] = p[j]
      BY <1>2, <2>1 DEF n
    <3> QED
      BY <1>1, <2>3, <2>6, <3>1, BeforeIn
  <2> QED
    BY <1>1, <1>2, <2>3, <2>4, <2>5, <2>6, SMTT(30)
<1>5. ASSUME Before(l, p) PROVE Before(l, f) \/ Under(f, l)
  <2>1. PICK i \in 1..Len(l) : i <= n /\ l[i] < p[i] /\ \A j \in 1..(i - 1) : l[j] = p[j]
    BY <1>1, <1>5, BeforeIn DEF n
  <2>2. CASE i = n
    BY <1>1, <1>2, <2>1, <2>2 DEF Under
  <2>3. CASE i < n
    <3>1. i <= Len(f) /\ l[i] < f[i] /\ \A j \in 1..(i - 1) : l[j] = f[j]
      BY <1>2, <2>1, <2>3
    <3> QED
      BY <1>1, <1>2, <3>1, BeforeIn
  <2> QED
    BY <1>2, <2>1, <2>2, <2>3
<1>6. ASSUME Under(p, l) PROVE Under(f, l)
  BY <1>1, <1>2, <1>6 DEF Under, n
<1> QED
  BY <1>3, <1>4, <1>5, <1>6 DEF f

-----------------------------------------------------------------------------
\* The leaves the walk is past.
Passed ==
  {l \in Leaves(bodyStructure) : Before(l, walk.at) \/ (walk.back /\ Under(walk.at, l))}

\* Where a walk can be.
WalkOk ==
  /\ bodyStructure \in Structures \cup {NoStructure}
  /\ walk \in [task : {"none", "text", "attachments", "part"}, at : Seq(Nat), back : BOOLEAN]
  /\ walk.task # "none" =>
       bodyStructure \in Structures /\ walk.at \in DOMAIN bodyStructure

\* A walk is in a tree of the messages, at one of its places.
LEMMA IsStructure ==
  ASSUME WalkOk, walk.task # "none"
  PROVE  IsTree(bodyStructure) /\ PartsNumbered(bodyStructure) /\ walk.at \in DOMAIN bodyStructure
         /\ bodyStructure # NoStructure
<1>1. bodyStructure \in Structures /\ walk.at \in DOMAIN bodyStructure
  BY DEF WalkOk
<1>2. DOMAIN NoStructure = {}
  BY DEF NoStructure
<1> QED
  BY <1>1, <1>2, StructureAssumption

\* The steps between nodes pass no leaf,
LEMMA MovePasses ==
  ASSUME WalkOk, FirstChild \/ NextChild \/ ChildrenDone
  PROVE  WalkOk' /\ walk'.task = walk.task /\ Passed' = Passed
<1> DEFINE T == bodyStructure
           p == walk.at
<1>1. /\ walk.task # "none" /\ bodyStructure' = T
      /\ walk \in [task : {"none", "text", "attachments", "part"}, at : Seq(Nat), back : BOOLEAN]
  BY DEF WalkOk, FirstChild, NextChild, ChildrenDone
<1>2. T \in Structures /\ IsTree(T) /\ p \in DOMAIN T
  BY <1>1, IsStructure DEF WalkOk
<1>3. p \in Seq(Nat) /\ \A l \in Leaves(T) : l \in DOMAIN T
  BY <1>2, Places DEF Leaves
<1>4. CASE FirstChild
  <2> DEFINE q == Append(p, 1)
  <2>1. T[p].kids > 0 /\ ~walk.back /\ walk' = [walk EXCEPT !.at = q]
    BY <1>4 DEF FirstChild, Here
  <2>2. q \in DOMAIN T /\ \A l \in Leaves(T) : Before(l, q) <=> Before(l, p)
    BY <1>2, <1>3, <2>1, DownPassed
  <2>3. q \in Seq(Nat)
    BY <1>2, <2>2, Places
  <2> HIDE DEF q
  <2>4. walk'.at = q /\ ~walk'.back /\ walk'.task = walk.task
    BY <1>1, <2>1
  <2>5. WalkOk'
    BY <1>1, <1>2, <2>1, <2>2, <2>3, <2>4 DEF WalkOk
  <2> QED
    BY <1>1, <2>1, <2>2, <2>4, <2>5 DEF Passed
<1>5. CASE NextChild
  <2> DEFINE q == Append(Front(p), Last(p) + 1)
  <2>1. /\ walk.back /\ p # <<>> /\ Last(p) < T[Front(p)].kids
        /\ walk' = [walk EXCEPT !.at = q, !.back = FALSE]
    BY <1>5 DEF NextChild
  <2>2. q \in DOMAIN T /\ \A l \in Leaves(T) : Before(l, q) <=> Before(l, p) \/ Under(p, l)
    BY <1>2, <1>3, <2>1, NextPassed
  <2>3. q \in Seq(Nat)
    BY <1>2, <2>2, Places
  <2> HIDE DEF q
  <2>4. walk'.at = q /\ ~walk'.back /\ walk'.task = walk.task
    BY <1>1, <2>1
  <2>5. WalkOk'
    BY <1>1, <1>2, <2>1, <2>2, <2>3, <2>4 DEF WalkOk
  <2> QED
    BY <1>1, <2>1, <2>2, <2>4, <2>5 DEF Passed
<1>6. CASE ChildrenDone
  <2>1. /\ walk.back /\ p # <<>> /\ Last(p) = T[Front(p)].kids
        /\ walk' = [walk EXCEPT !.at = Front(p)]
    BY <1>6 DEF ChildrenDone
  <2>2. Front(p) \in DOMAIN T /\ Front(p) \in Seq(Nat)
    BY <1>2, <2>1, Parent
  <2>3. \A l \in Leaves(T) : Before(l, Front(p)) \/ Under(Front(p), l) <=> Before(l, p) \/ Under(p, l)
    BY <1>2, <2>1, LastPassed
  <2>4. walk'.at = Front(p) /\ walk'.back /\ walk'.task = walk.task
    BY <1>1, <2>1
  <2>5. WalkOk'
    BY <1>1, <1>2, <2>1, <2>2, <2>4 DEF WalkOk
  <2> QED
    BY <1>1, <2>1, <2>3, <2>4, <2>5 DEF Passed
<1> QED
  BY <1>4, <1>5, <1>6

\* the return from a leaf passes that one, which comes after all that were passed,
LEMMA LeafPasses ==
  ASSUME WalkOk, NEW task \in {"text", "attachments", "part"}, AtLeaf(task), Return,
         bodyStructure' = bodyStructure
  PROVE  /\ WalkOk' /\ walk'.task = task
         /\ walk.at \in Leaves(bodyStructure) /\ walk.at \notin Passed
         /\ Passed' = Passed \cup {walk.at}
         /\ \A l \in Passed : ~Before(walk.at, l)
<1> DEFINE T == bodyStructure
           p == walk.at
<1>1. /\ walk.task = task /\ ~walk.back /\ T[p].kids = 0
      /\ walk \in [task : {"none", "text", "attachments", "part"}, at : Seq(Nat), back : BOOLEAN]
      /\ walk' = [walk EXCEPT !.back = TRUE]
  BY DEF WalkOk, AtLeaf, Here, Return
<1>2. T \in Structures /\ IsTree(T) /\ p \in DOMAIN T /\ p \in Leaves(T)
  BY <1>1, IsStructure DEF WalkOk, Leaves
<1>3. walk'.at = p /\ walk'.back /\ walk'.task = task
  BY <1>1
<1>4. WalkOk'
  BY <1>1, <1>2, <1>3 DEF WalkOk
<1>5. p \in Seq(Nat) /\ \A l \in Leaves(T) : l \in DOMAIN T /\ l \in Seq(Nat)
  BY <1>2, Places DEF Leaves
<1>6. \A l \in Leaves(T) : Under(p, l) <=> l = p
  BY <1>2, <1>5, LeafPassed
<1>7. ~Before(p, p) /\ \A l \in Leaves(T) : Before(l, p) => ~Before(p, l)
  BY <1>5, Asymmetric
<1>8. Passed = {l \in Leaves(T) : Before(l, p)}
  BY <1>1 DEF Passed
<1>9. Passed' = {l \in Leaves(T) : Before(l, p) \/ l = p}
  BY <1>3, <1>6 DEF Passed
<1> QED
  BY <1>2, <1>3, <1>4, <1>7, <1>8, <1>9

\* a walk begins with none passed,
LEMMA StartPasses ==
  ASSUME bodyStructure \in Structures, NEW task \in {"text", "attachments", "part"},
         Start(task), bodyStructure' = bodyStructure
  PROVE  WalkOk' /\ walk'.task = task /\ Passed' = {} /\ acc' = <<>>
<1>1. walk' = [task |-> task, at |-> <<>>, back |-> FALSE] /\ acc' = <<>>
  BY DEF Start, NoWalk
<1>2. IsTree(bodyStructure)
  BY StructureAssumption
<1>3. <<>> \in DOMAIN bodyStructure /\ <<>> \in Seq(Nat)
  BY <1>2 DEF IsTree
<1>4. \A l \in Leaves(bodyStructure) : ~Before(l, <<>>)
  BY DEF Before
<1> QED
  BY <1>1, <1>3, <1>4 DEF WalkOk, Passed

\* and ends with all of them passed.
LEMMA EndPasses ==
  ASSUME WalkOk, NEW task \in {"text", "attachments", "part"}, Returned(task)
  PROVE  Passed = Leaves(bodyStructure)
<1>1. IsTree(bodyStructure) /\ walk.back /\ walk.at = <<>>
  BY IsStructure DEF Returned
<1>2. ASSUME NEW l \in Leaves(bodyStructure) PROVE Under(<<>>, l)
  <2>1. l \in Seq(Nat)
    BY <1>1, Places DEF Leaves
  <2> QED
    BY <2>1 DEF Under
<1> QED
  BY <1>1, <1>2 DEF Passed

-----------------------------------------------------------------------------
\* What a sequence holds.
Held(list) == {list[i] : i \in DOMAIN list}

\* The text leaves among D, in their order.
TextsOf(list, D) ==
  /\ list \in Seq(DOMAIN bodyStructure)
  /\ Held(list) = {p \in D : IsText(p)}
  /\ \A i, j \in DOMAIN list : i < j => ~Before(list[j], list[i])

\* p is what the body should be.
Preferred(p) ==
  LET text == {q \in Leaves(bodyStructure) : IsText(q)}
      plain == {q \in text : bodyStructure[q].type = "text/plain"}
      best == IF plain # {} THEN plain ELSE text
  IN  IF best = {} THEN p = NoPlace
      ELSE p \in best /\ \A q \in best : ~Before(q, p)

\* An entry for each attachment among D.
EntriesOf(list, D) ==
  /\ list \in Seq({Entry(bodyStructure[p]) : p \in Leaves(bodyStructure)})
  /\ Held(list) = {Entry(bodyStructure[p]) : p \in {q \in D : IsAttachment(q)}}
  /\ \A i, j \in DOMAIN list : list[i].partId = list[j].partId => i = j

\* While the text leaves are collected, acc holds those that were passed,
InText == walk.task = "text" => ~detail.given /\ TextsOf(acc, Passed)

\* in the second walk, once the body is known, an entry for each attachment passed;
InAttachments ==
  walk.task = "attachments" =>
    /\ ~detail.given /\ Preferred(textPart) /\ EntriesOf(acc, Passed)
    /\ length \in Nat /\ (textPart = NoPlace => length = 0)

\* get_attachment searches as long as no leaf that was passed has the id asked for.
InPart ==
  walk.task = "part" =>
    detail.given /\ file = NoPlace /\ \A p \in Passed : ~HasPart(p, asked)

\* What get_message has answered: the preferred text, an entry for each attachment of the
\* message, and whether the body was cut.
Answered ==
  IF detail.given
  THEN IF bodyStructure = NoStructure
       THEN detail.attachments = <<>>
       ELSE /\ Preferred(textPart) /\ detail.body = textPart
            /\ EntriesOf(detail.attachments, Leaves(bodyStructure))
            /\ detail.truncated <=> detail.shown < length
  ELSE asked = NoPart /\ detail.attachments = <<>>

\* What get_attachment has found: a leaf with the id asked for, nothing only if there is
\* none.
Found ==
  walk.task = "none" /\ asked # NoPart /\ bodyStructure # NoStructure =>
    IF file = NoPlace THEN \A p \in Leaves(bodyStructure) : ~HasPart(p, asked)
    ELSE file \in Leaves(bodyStructure) /\ HasPart(file, asked)

\* The inductive invariant.
StructureInv == WalkOk /\ InText /\ InAttachments /\ InPart /\ Answered /\ Found

\* A text leaf that comes after those listed goes to the end of the list.
LEMMA TextAdded ==
  ASSUME NEW D \in SUBSET Leaves(bodyStructure), NEW list, TextsOf(list, D),
         NEW p \in Leaves(bodyStructure), \A l \in D : ~Before(p, l)
  PROVE  TextsOf(IF IsText(p) THEN Append(list, p) ELSE list, D \cup {p})
<1>1. CASE ~IsText(p)
  BY <1>1 DEF TextsOf
<1>2. CASE IsText(p)
  <2> DEFINE longer == Append(list, p)
  <2>1. list \in Seq(DOMAIN bodyStructure) /\ p \in DOMAIN bodyStructure
    BY DEF TextsOf, Leaves
  <2>2. /\ longer \in Seq(DOMAIN bodyStructure) /\ DOMAIN longer = 1..(Len(list) + 1)
        /\ longer[Len(list) + 1] = p /\ \A i \in 1..Len(list) : longer[i] = list[i]
        /\ DOMAIN list = 1..Len(list) /\ Len(list) \in Nat
    BY <2>1
  <2> HIDE DEF longer
  <2>3. Held(longer) = Held(list) \cup {p}
    BY <2>2 DEF Held
  <2>4. Held(longer) = {q \in D \cup {p} : IsText(q)}
    BY <1>2, <2>3 DEF TextsOf
  <2>5. ASSUME NEW i \in DOMAIN longer, NEW j \in DOMAIN longer, i < j
        PROVE  ~Before(longer[j], longer[i])
    <3>1. i \in DOMAIN list /\ longer[i] = list[i] /\ list[i] \in D
      BY <2>2, <2>5 DEF TextsOf, Held
    <3>2. CASE j = Len(list) + 1
      BY <2>2, <3>1, <3>2
    <3>3. CASE j # Len(list) + 1
      <4>1. j \in DOMAIN list /\ longer[j] = list[j]
        BY <2>2, <3>3
      <4> QED
        BY <2>5, <3>1, <4>1 DEF TextsOf
    <3> QED
      BY <3>2, <3>3
  <2>6. TextsOf(longer, D \cup {p})
    BY <2>2, <2>4, <2>5 DEF TextsOf
  <2> QED
    BY <1>2, <2>6 DEF longer
<1> QED
  BY <1>1, <1>2

\* An attachment not passed before has a part id that is not in the list.
LEMMA EntryAdded ==
  ASSUME PartsNumbered(bodyStructure), NEW D \in SUBSET Leaves(bodyStructure),
         NEW list, EntriesOf(list, D),
         NEW p \in Leaves(bodyStructure), p \notin D
  PROVE  EntriesOf(IF IsAttachment(p) THEN Append(list, Entry(bodyStructure[p])) ELSE list,
                   D \cup {p})
<1>1. CASE ~IsAttachment(p)
  BY <1>1 DEF EntriesOf
<1>2. CASE IsAttachment(p)
  <2> DEFINE e == Entry(bodyStructure[p])
             longer == Append(list, e)
             All == {Entry(bodyStructure[q]) : q \in Leaves(bodyStructure)}
  <2>1. list \in Seq(All) /\ e \in All
    BY DEF EntriesOf
  <2>2. ASSUME NEW i \in DOMAIN list PROVE list[i].partId # e.partId
    <3>1. PICK q \in D : list[i] = Entry(bodyStructure[q])
      BY DEF EntriesOf, Held
    <3>2. PartId(bodyStructure[q]) # PartId(bodyStructure[p])
      BY DEF PartsNumbered
    <3> QED
      BY <3>1, <3>2 DEF Entry
  <2> HIDE DEF e, All
  <2>3. /\ longer \in Seq(All) /\ DOMAIN longer = 1..(Len(list) + 1)
        /\ longer[Len(list) + 1] = e /\ \A i \in 1..Len(list) : longer[i] = list[i]
        /\ DOMAIN list = 1..Len(list) /\ Len(list) \in Nat
    BY <2>1
  <2> HIDE DEF longer
  <2>4. Held(longer) = Held(list) \cup {e}
    BY <2>3 DEF Held
  <2>5. Held(longer) = {Entry(bodyStructure[q]) : q \in {x \in D \cup {p} : IsAttachment(x)}}
    BY <1>2, <2>4 DEF EntriesOf, e
  <2>6. ASSUME NEW i \in DOMAIN longer, NEW j \in DOMAIN longer,
               longer[i].partId = longer[j].partId
        PROVE  i = j
    <3>1. CASE i \in DOMAIN list /\ j \in DOMAIN list
      BY <2>3, <2>6, <3>1 DEF EntriesOf
    <3>2. CASE i \notin DOMAIN list \/ j \notin DOMAIN list
      BY <2>2, <2>3, <2>6, <3>2
    <3> QED
      BY <3>1, <3>2
  <2>7. EntriesOf(longer, D \cup {p})
    BY <2>3, <2>5, <2>6 DEF EntriesOf, All
  <2> QED
    BY <1>2, <2>7 DEF longer, e
<1> QED
  BY <1>1, <1>2

\* The first index of a set of them.
LEMMA Smallest ==
  ASSUME NEW n \in Nat, NEW S \in SUBSET (1..n), S # {}
  PROVE  Min(S) \in S /\ \A i \in S : Min(S) <= i
<1> DEFINE R == {n - i : i \in S}
<1>1. R \in SUBSET (0..n) /\ R # {}
  <2>1. \A i \in S : n - i \in 0..n
    OBVIOUS
  <2> QED
    BY <2>1
<1> HIDE DEF R
<1>2. IsFiniteSet(R) /\ R \in SUBSET Nat
  <2>1. IsFiniteSet(0..n)
    BY FS_Interval
  <2>2. IsFiniteSet(R)
    BY <1>1, <2>1, FS_Subset
  <2>3. \A r \in R : r \in 0..n
    BY <1>1
  <2> QED
    BY <2>2, <2>3
<1>3. Max(R) \in R /\ \A r \in R : Max(R) >= r
  BY <1>1, <1>2, HasMax
<1>4. PICK m \in S : Max(R) = n - m
  BY <1>3 DEF R
<1>5. \A i \in S : m <= i
  <2>1. \A i \in S : n - m >= n - i
    BY <1>3, <1>4 DEF R
  <2> QED
    BY <2>1
<1> QED
  BY <1>5 DEF Min

\* The first plain leaf of the text leaves in order, or else the first of them, is the
\* preferred one.
LEMMA TextPreferred ==
  ASSUME TextsOf(acc, Leaves(bodyStructure)), IsTree(bodyStructure)
  PROVE  Preferred(findPreferredTextPart(acc))
<1> DEFINE text == {q \in Leaves(bodyStructure) : IsText(q)}
           plain == {q \in text : bodyStructure[q].type = "text/plain"}
           hits == {i \in DOMAIN acc : bodyStructure[acc[i]].type = "text/plain"}
<1>1. /\ Held(acc) = text /\ DOMAIN acc = 1..Len(acc) /\ Len(acc) \in Nat
      /\ acc \in Seq(DOMAIN bodyStructure)
      /\ \A i, j \in DOMAIN acc : i < j => ~Before(acc[j], acc[i])
  BY DEF TextsOf
<1>2. \A i \in DOMAIN acc : acc[i] \in text /\ ~Before(acc[i], acc[i])
  <2> SUFFICES ASSUME NEW i \in DOMAIN acc
               PROVE  acc[i] \in text /\ ~Before(acc[i], acc[i])
    OBVIOUS
  <2>1. acc[i] \in text
    BY <1>1 DEF Held
  <2>2. acc[i] \in Seq(Nat)
    BY <2>1, Places DEF Leaves
  <2> QED
    BY <2>1, <2>2, Asymmetric
<1>3. \A q \in text : \E i \in DOMAIN acc : q = acc[i]
  BY <1>1 DEF Held
<1>4. CASE hits # {}
  <2> DEFINE m == Min(hits)
  <2>1. m \in hits /\ \A i \in hits : m <= i
    BY <1>1, <1>4, Smallest
  <2>2. findPreferredTextPart(acc) = acc[m]
    BY <1>4 DEF findPreferredTextPart
  <2> HIDE DEF m
  <2>3. acc[m] \in plain
    BY <1>2, <2>1
  <2>4. ASSUME NEW q \in plain PROVE ~Before(q, acc[m])
    <3>1. PICK i \in DOMAIN acc : q = acc[i]
      BY <1>3
    <3>2. i \in hits
      BY <3>1
    <3>3. i = m \/ m < i
      BY <1>1, <2>1, <3>2
    <3> QED
      BY <1>1, <1>2, <2>1, <3>1, <3>3
  <2> QED
    BY <2>2, <2>3, <2>4 DEF Preferred
<1>5. CASE hits = {}
  <2>1. plain = {}
    BY <1>3, <1>5
  <2>2. CASE acc = <<>>
    <3>1. text = {}
      BY <1>3, <2>2
    <3>2. findPreferredTextPart(acc) = NoPlace
      BY <1>5, <2>2 DEF findPreferredTextPart
    <3> QED
      BY <2>1, <3>1, <3>2 DEF Preferred
  <2>3. CASE acc # <<>>
    <3>1. findPreferredTextPart(acc) = acc[1] /\ 1 \in DOMAIN acc
      BY <1>1, <1>5, <2>3 DEF findPreferredTextPart
    <3>2. ASSUME NEW q \in text PROVE ~Before(q, acc[1])
      <4>1. PICK i \in DOMAIN acc : q = acc[i]
        BY <1>3
      <4>2. i = 1 \/ 1 < i
        BY <1>1
      <4> QED
        BY <1>1, <1>2, <3>1, <4>1, <4>2
    <3> QED
      BY <1>2, <2>1, <3>1, <3>2 DEF Preferred
  <2> QED
    BY <2>2, <2>3
<1> QED
  BY <1>4, <1>5

\* The steps between nodes keep what is known,
LEMMA MoveStep ==
  ASSUME StructureInv, FirstChild \/ NextChild \/ ChildrenDone
  PROVE  StructureInv'
<1>1. /\ UNCHANGED <<bodyStructure, length, acc, textPart, detail, asked, file>>
      /\ walk.task # "none"
  BY DEF FirstChild, NextChild, ChildrenDone
<1>2. WalkOk' /\ walk'.task = walk.task /\ Passed' = Passed
  BY MovePasses DEF StructureInv
<1>3. InText'
  BY <1>1, <1>2 DEF StructureInv, InText, TextsOf, IsText
<1>4. InAttachments'
  BY <1>1, <1>2 DEF StructureInv, InAttachments, Preferred, IsText, EntriesOf, IsAttachment
<1>5. InPart'
  BY <1>1, <1>2 DEF StructureInv, InPart, HasPart
<1>6. Answered'
  BY <1>1 DEF StructureInv, Answered, Preferred, IsText, EntriesOf, IsAttachment
<1> QED
  BY <1>1, <1>2, <1>3, <1>4, <1>5, <1>6 DEF StructureInv, Found

\* and so do the visits to leaves: of collectTextLeaves,
LEMMA TextStep == ASSUME StructureInv, TextLeaf PROVE StructureInv'
<1>1. /\ UNCHANGED <<bodyStructure, length, textPart, detail, asked, file>>
      /\ AtLeaf("text") /\ Return /\ walk.task = "text"
      /\ acc' = IF IsText(walk.at) THEN Append(acc, walk.at) ELSE acc
  BY DEF TextLeaf, AtLeaf
<1>2. /\ WalkOk' /\ walk'.task = "text" /\ Passed' = Passed \cup {walk.at}
      /\ walk.at \in Leaves(bodyStructure) /\ \A l \in Passed : ~Before(walk.at, l)
  BY <1>1, LeafPasses DEF StructureInv
<1>3. ~detail.given /\ TextsOf(acc, Passed) /\ Passed \in SUBSET Leaves(bodyStructure)
  BY <1>1 DEF StructureInv, InText, Passed
<1>4. TextsOf(acc', Passed')
  BY <1>1, <1>2, <1>3, TextAdded
<1>5. InText'
  BY <1>1, <1>3, <1>4 DEF InText, TextsOf, IsText
<1>6. Answered'
  BY <1>1 DEF StructureInv, Answered, Preferred, IsText, EntriesOf, IsAttachment
<1> QED
  BY <1>2, <1>5, <1>6 DEF StructureInv, InAttachments, InPart, Found

\* of collectAttachments,
LEMMA AttachmentStep == ASSUME StructureInv, AttachmentLeaf PROVE StructureInv'
<1>1. /\ UNCHANGED <<bodyStructure, length, textPart, detail, asked, file>>
      /\ AtLeaf("attachments") /\ Return /\ walk.task = "attachments"
      /\ acc' = IF IsAttachment(walk.at) THEN Append(acc, Entry(bodyStructure[walk.at])) ELSE acc
  BY DEF AttachmentLeaf, AtLeaf, Here
<1>2. /\ WalkOk' /\ walk'.task = "attachments" /\ Passed' = Passed \cup {walk.at}
      /\ walk.at \in Leaves(bodyStructure) /\ walk.at \notin Passed
  BY <1>1, LeafPasses DEF StructureInv
<1>3. /\ ~detail.given /\ Preferred(textPart) /\ EntriesOf(acc, Passed)
      /\ length \in Nat /\ (textPart = NoPlace => length = 0)
      /\ Passed \in SUBSET Leaves(bodyStructure) /\ PartsNumbered(bodyStructure)
  BY <1>1, IsStructure DEF StructureInv, InAttachments, Passed
<1>4. EntriesOf(acc', Passed')
  BY <1>1, <1>2, <1>3, EntryAdded
<1>5. InAttachments'
  BY <1>1, <1>3, <1>4, SMTT(30) DEF InAttachments, Preferred, IsText, EntriesOf, IsAttachment
<1>6. Answered'
  BY <1>1 DEF StructureInv, Answered, Preferred, IsText, EntriesOf, IsAttachment
<1> QED
  BY <1>2, <1>5, <1>6 DEF StructureInv, InText, InPart, Found

\* and of findNodeByPart, which stops at a leaf that has the id.
LEMMA PartStep == ASSUME StructureInv, PartLeaf PROVE StructureInv'
<1>1. /\ UNCHANGED <<bodyStructure, length, acc, textPart, detail, asked>>
      /\ AtLeaf("part") /\ walk.task = "part"
  BY DEF PartLeaf, AtLeaf
<1>2. Answered'
  BY <1>1 DEF StructureInv, Answered, Preferred, IsText, EntriesOf, IsAttachment
<1>3. detail.given /\ file = NoPlace /\ \A p \in Passed : ~HasPart(p, asked)
  BY <1>1 DEF StructureInv, InPart
<1>4. CASE HasPart(walk.at, asked)
  <2>1. walk' = NoWalk /\ file' = walk.at
    BY <1>4 DEF PartLeaf
  <2>2. walk.at \in Leaves(bodyStructure)
    BY <1>1, IsStructure DEF StructureInv, AtLeaf, Here, Leaves
  <2>3. walk.at # NoPlace
    <3>1. walk.at \in Seq(Nat) /\ \A i \in 1..Len(walk.at) : walk.at[i] >= 1
      BY <1>1, IsStructure, Places DEF StructureInv
    <3> QED
      BY <3>1, SMTT(30) DEF NoPlace
  <2>4. Found'
    BY <1>1, <1>4, <2>1, <2>2, <2>3 DEF Found, HasPart
  <2> QED
    BY <1>1, <1>2, <2>1, <2>4 DEF StructureInv, WalkOk, NoWalk, InText, InAttachments, InPart
<1>5. CASE ~HasPart(walk.at, asked)
  <2>1. Return /\ UNCHANGED file
    BY <1>5 DEF PartLeaf
  <2>2. WalkOk' /\ walk'.task = "part" /\ Passed' = Passed \cup {walk.at}
    BY <1>1, <2>1, LeafPasses DEF StructureInv
  <2>3. InPart'
    BY <1>1, <1>3, <1>5, <2>1, <2>2 DEF InPart, HasPart
  <2> QED
    BY <1>2, <2>2, <2>3 DEF StructureInv, InText, InAttachments, Found
<1> QED
  BY <1>4, <1>5

\* An answer says that it holds back part of the body if and only if it does.
LEMMA AnswerSays ==
  ASSUME NEW body, NEW shown \in Nat, NEW list, Answer(body, shown, list)
  PROVE  /\ detail'.given /\ detail'.body = body /\ detail'.attachments = list
         /\ detail'.truncated <=> detail'.shown < shown
<1> DEFINE message == [body |-> body, shown |-> shown, truncated |-> FALSE,
                       attachments |-> list, given |-> TRUE]
<1>1. detail' \in {formatMessageBody(message), formatMessageDetails(message)}
  BY DEF Answer
<1>2. BodyCap \in Nat
  BY StructureAssumption
<1>3. \/ detail' = message
      \/ shown > BodyCap /\ detail' = [message EXCEPT !.shown = BodyCap, !.truncated = TRUE]
  BY <1>1 DEF formatMessageBody, formatMessageDetails, Truncated
<1>4. CASE detail' = message
  BY <1>4
<1>5. CASE shown > BodyCap /\ detail' = [message EXCEPT !.shown = BodyCap, !.truncated = TRUE]
  BY <1>2, <1>5
<1> QED
  BY <1>3, <1>4, <1>5

\* The calls of the two operations keep it,
LEMMA GetMessageStep == ASSUME StructureInv, GetMessage PROVE StructureInv'
<1>1. /\ walk.task = "none" /\ ~detail.given
      /\ UNCHANGED <<bodyStructure, length, textPart, asked, file>>
      /\ asked = NoPart /\ detail.attachments = <<>>
      /\ bodyStructure \in Structures \cup {NoStructure}
  BY DEF GetMessage, StructureInv, Answered, WalkOk
<1>2. CASE bodyStructure = NoStructure
  <2>1. Answer(NoPlace, 0, <<>>) /\ UNCHANGED <<walk, acc>>
    BY <1>2 DEF GetMessage
  <2>2. detail'.given /\ detail'.attachments = <<>>
    BY <2>1, AnswerSays
  <2>3. Answered'
    BY <1>1, <1>2, <2>2 DEF Answered
  <2>4. WalkOk' /\ InText' /\ InAttachments' /\ InPart' /\ Found'
    BY <1>1, <1>2, <2>1 DEF StructureInv, WalkOk, InText, InAttachments, InPart, Found
  <2> QED
    BY <2>3, <2>4 DEF StructureInv
<1>3. CASE bodyStructure # NoStructure
  <2>1. Start("text") /\ UNCHANGED detail
    BY <1>3 DEF GetMessage
  <2>2. WalkOk' /\ walk'.task = "text" /\ Passed' = {} /\ acc' = <<>>
    BY <1>1, <1>3, <2>1, StartPasses
  <2>3. InText'
    BY <1>1, <2>1, <2>2 DEF InText, TextsOf, Held
  <2>4. Answered'
    BY <1>1, <2>1 DEF Answered
  <2> QED
    BY <2>2, <2>3, <2>4 DEF StructureInv, InAttachments, InPart, Found
<1> QED
  BY <1>2, <1>3

\* whichever id is asked for,
LEMMA GetAttachmentStep ==
  ASSUME StructureInv, NEW partId, GetAttachment(partId)
  PROVE  StructureInv'
<1>1. /\ walk.task = "none" /\ detail.given /\ file' = NoPlace
      /\ UNCHANGED <<bodyStructure, length, textPart, detail>>
      /\ bodyStructure \in Structures \cup {NoStructure}
  BY DEF GetAttachment, StructureInv, WalkOk
<1>2. Answered'
  BY <1>1 DEF StructureInv, Answered, Preferred, IsText, EntriesOf, IsAttachment
<1>3. CASE bodyStructure = NoStructure
  <2>1. UNCHANGED walk
    BY <1>3 DEF GetAttachment
  <2> QED
    BY <1>1, <1>2, <1>3, <2>1 DEF StructureInv, WalkOk, InText, InAttachments, InPart, Found
<1>4. CASE bodyStructure # NoStructure
  <2>1. Start("part")
    BY <1>4 DEF GetAttachment
  <2>2. WalkOk' /\ walk'.task = "part" /\ Passed' = {}
    BY <1>1, <1>4, <2>1, StartPasses
  <2> QED
    BY <1>1, <1>2, <2>2 DEF StructureInv, InText, InAttachments, InPart, Found
<1> QED
  BY <1>3, <1>4

\* and so do the ends of their walks: where the body is chosen,
LEMMA TextFoundStep == ASSUME StructureInv, TextFound PROVE StructureInv'
<1>1. /\ Returned("text") /\ walk.task = "text" /\ textPart' = findPreferredTextPart(acc)
      /\ length' \in (IF textPart' = NoPlace THEN {0} ELSE 0..MaxLength)
      /\ Start("attachments") /\ UNCHANGED <<bodyStructure, detail, asked, file>>
  BY DEF TextFound, Returned
<1>2. /\ IsTree(bodyStructure) /\ bodyStructure \in Structures
      /\ ~detail.given /\ TextsOf(acc, Leaves(bodyStructure))
  BY <1>1, IsStructure, EndPasses DEF StructureInv, WalkOk, InText
<1>3. Preferred(textPart')
  BY <1>1, <1>2, TextPreferred
<1>4. WalkOk' /\ walk'.task = "attachments" /\ Passed' = {} /\ acc' = <<>>
  BY <1>1, <1>2, StartPasses
<1>5. Preferred(textPart)'
  BY <1>1, <1>3 DEF Preferred, IsText
<1>6. EntriesOf(acc, Passed)'
  BY <1>4 DEF EntriesOf, Held
<1>7. length' \in Nat /\ (textPart' = NoPlace => length' = 0)
  BY <1>1, StructureAssumption
<1>8. InAttachments'
  BY <1>1, <1>2, <1>5, <1>6, <1>7 DEF InAttachments
<1>9. Answered'
  BY <1>1, <1>2 DEF StructureInv, Answered
<1> QED
  BY <1>4, <1>8, <1>9 DEF StructureInv, InText, InPart, Found

\* where get_message answers,
LEMMA CollectedStep == ASSUME StructureInv, AttachmentsCollected PROVE StructureInv'
<1>1. /\ Returned("attachments") /\ walk.task = "attachments" /\ Answer(textPart, length, acc)
      /\ walk' = NoWalk /\ UNCHANGED <<bodyStructure, length, acc, textPart, asked, file>>
  BY DEF AttachmentsCollected, Returned
<1>2. /\ Preferred(textPart) /\ EntriesOf(acc, Leaves(bodyStructure)) /\ length \in Nat
      /\ ~detail.given /\ bodyStructure # NoStructure /\ (textPart = NoPlace => length = 0)
  BY <1>1, IsStructure, EndPasses DEF StructureInv, InAttachments
<1>3. asked = NoPart
  BY <1>2 DEF StructureInv, Answered
<1>4. /\ detail'.given /\ detail'.body = textPart /\ detail'.attachments = acc
      /\ detail'.truncated <=> detail'.shown < length
  BY <1>1, <1>2, AnswerSays
<1>5. Preferred(textPart)' /\ EntriesOf(acc, Leaves(bodyStructure))'
  BY <1>1, <1>2 DEF Preferred, IsText, EntriesOf, IsAttachment
<1>6. Answered'
  BY <1>1, <1>2, <1>4, <1>5 DEF Answered, EntriesOf
<1> QED
  BY <1>1, <1>3, <1>6 DEF StructureInv, WalkOk, NoWalk, InText, InAttachments, InPart, Found

\* and where no leaf has had the id.
LEMMA NotFoundStep == ASSUME StructureInv, PartNotFound PROVE StructureInv'
<1>1. /\ Returned("part") /\ walk.task = "part" /\ walk' = NoWalk
      /\ UNCHANGED <<bodyStructure, length, acc, textPart, detail, asked, file>>
  BY DEF PartNotFound, Returned
<1>2. file = NoPlace /\ \A p \in Leaves(bodyStructure) : ~HasPart(p, asked)
  BY <1>1, EndPasses DEF StructureInv, InPart
<1>3. Answered'
  BY <1>1 DEF StructureInv, Answered, Preferred, IsText, EntriesOf, IsAttachment
<1>4. Found'
  BY <1>1, <1>2 DEF Found, HasPart
<1> QED
  BY <1>1, <1>3, <1>4 DEF StructureInv, WalkOk, NoWalk, InText, InAttachments, InPart

\* StructureInv holds in every state.
LEMMA StructureInvariant == StructureSpec => []StructureInv
<1>1. StructureInit => StructureInv
  <2> SUFFICES ASSUME StructureInit PROVE StructureInv
    OBVIOUS
  <2>1. /\ bodyStructure \in Structures \cup {NoStructure} /\ walk = NoWalk
        /\ asked = NoPart /\ detail = NoAnswer
    BY DEF StructureInit
  <2>2. ~detail.given /\ detail.attachments = <<>>
    BY <2>1 DEF NoAnswer
  <2> QED
    BY <2>1, <2>2 DEF StructureInv, WalkOk, NoWalk, InText, InAttachments, InPart, Answered, Found
<1>2. StructureInv /\ [StructureNext]_structureVars => StructureInv'
  <2> SUFFICES ASSUME StructureInv, [StructureNext]_structureVars PROVE StructureInv'
    OBVIOUS
  <2>1. CASE UNCHANGED structureVars
    BY <2>1 DEF structureVars, StructureInv, WalkOk, Passed, InText, TextsOf, IsText, InAttachments,
           Preferred, EntriesOf, IsAttachment, InPart, HasPart, Answered, Found
  <2>2. CASE StructureNext
    BY <2>2, MoveStep, TextStep, AttachmentStep, PartStep, GetMessageStep, TextFoundStep,
       CollectedStep, GetAttachmentStep, NotFoundStep DEF StructureNext
  <2> QED
    BY <2>1, <2>2
<1> QED
  BY <1>1, <1>2, PTL DEF StructureSpec

(* Whatever the structure of a message, every part id get_message has      *)
(* listed leads get_attachment (findNodeByPart) back to the part it was    *)
(* listed for.                                                             *)
THEOREM ListedPartIsFound == StructureSpec => []ListedIsFound
<1>1. StructureInv => ListedIsFound
  <2> SUFFICES ASSUME StructureInv, NEW a \in Listed, walk.task = "none", asked = a.partId
               PROVE  file # NoPlace /\ a = Entry(bodyStructure[file])
    BY DEF ListedIsFound
  <2>1. detail.given /\ bodyStructure # NoStructure
    BY DEF StructureInv, Answered, Listed, ToSet
  <2>2. PICK p \in Leaves(bodyStructure) : a = Entry(bodyStructure[p])
    BY <2>1 DEF StructureInv, Answered, Listed, ToSet, EntriesOf, Held
  <2>3. HasPart(p, asked) /\ asked # NoPart
    BY <2>2 DEF HasPart, Entry, PartId, NoPart
  <2>4. file \in Leaves(bodyStructure) /\ HasPart(file, asked) /\ file # NoPlace
    BY <2>1, <2>3 DEF StructureInv, Found
  <2>5. PartsNumbered(bodyStructure)
    BY <2>1, StructureAssumption DEF StructureInv, WalkOk
  <2>6. file = p
    BY <2>3, <2>4, <2>5 DEF HasPart, PartsNumbered
  <2> QED
    BY <2>2, <2>4, <2>6
<1> QED
  BY <1>1, StructureInvariant, PTL

(* Whatever the structure, the body is the first plain-text part that is   *)
(* not an attachment, the first text part if there is no plain one, and    *)
(* none only if there is no text (findPreferredTextPart).                  *)
THEOREM BodyPreferred == StructureSpec => []BodyIsPreferredText
<1>1. StructureInv => BodyIsPreferredText
  <2> SUFFICES ASSUME StructureInv, detail.given, bodyStructure # NoStructure
               PROVE  BodyIsPreferredText
    BY DEF BodyIsPreferredText
  <2>1. Preferred(detail.body)
    BY DEF StructureInv, Answered
  <2>2. NoPlace \notin Leaves(bodyStructure)
    <3>1. IsTree(bodyStructure)
      BY StructureAssumption DEF StructureInv, WalkOk
    <3> SUFFICES ASSUME NoPlace \in DOMAIN bodyStructure PROVE FALSE
      BY DEF Leaves
    <3>2. 1 \in 1..Len(NoPlace) /\ NoPlace[1] = 0
      BY DEF NoPlace
    <3> QED
      BY <3>1, <3>2, Places
  <2> QED
    BY <2>1, <2>2 DEF Preferred, BodyIsPreferredText
<1> QED
  BY <1>1, StructureInvariant, PTL

(* Whatever the structure, each attached or named part is the body or      *)
(* listed once (collectAttachments), and an answer holds back part of the  *)
(* body if and only if it says so.                                         *)
THEOREM AllWithinReach == StructureSpec => []NothingOutOfReach
<1>1. StructureInv => NothingOutOfReach
  <2> SUFFICES ASSUME StructureInv, detail.given, bodyStructure # NoStructure
               PROVE  NothingOutOfReach
    BY DEF NothingOutOfReach
  <2> DEFINE parts == {p \in Leaves(bodyStructure) :
                         bodyStructure[p].disposition = "attachment" \/ bodyStructure[p].filename}
             list == detail.attachments
  <2>1. /\ Preferred(textPart) /\ detail.body = textPart
        /\ EntriesOf(list, Leaves(bodyStructure))
        /\ detail.truncated <=> detail.shown < length
    BY DEF StructureInv, Answered
  <2>2. {q \in Leaves(bodyStructure) : IsAttachment(q)} = parts \ {detail.body}
    BY <2>1 DEF IsAttachment
  <2>3. Held(list) = {Entry(bodyStructure[p]) : p \in parts \ {detail.body}}
    BY <2>1, <2>2 DEF EntriesOf
  <2>4. {list[i].partId : i \in DOMAIN list} =
          {PartId(bodyStructure[p]) : p \in parts \ {detail.body}}
    <3>1. \A p \in parts : Entry(bodyStructure[p]).partId = PartId(bodyStructure[p])
      BY DEF Entry
    <3>2. \A i \in DOMAIN list :
            \E p \in parts \ {detail.body} : list[i] = Entry(bodyStructure[p])
      BY <2>3 DEF Held
    <3>3. \A p \in parts \ {detail.body} :
            \E i \in DOMAIN list : list[i] = Entry(bodyStructure[p])
      BY <2>3 DEF Held
    <3> HIDE DEF parts, list
    <3>4. \A i \in DOMAIN list :
            \E p \in parts \ {detail.body} : list[i].partId = PartId(bodyStructure[p])
      BY <3>1, <3>2
    <3>5. \A p \in parts \ {detail.body} :
            \E i \in DOMAIN list : list[i].partId = PartId(bodyStructure[p])
      BY <3>1, <3>3
    <3> QED
      BY <3>4, <3>5
  <2>5. \A i, j \in DOMAIN list : list[i].partId = list[j].partId => i = j
    BY <2>1 DEF EntriesOf
  <2>6. detail.body # NoPlace => detail.body \in Leaves(bodyStructure)
    BY <2>1 DEF Preferred
  <2> QED
    BY <2>1, <2>4, <2>5, <2>6 DEF NothingOutOfReach
<1> QED
  BY <1>1, StructureInvariant, PTL
=============================================================================
