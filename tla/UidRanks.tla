----------------------------- MODULE UidRanks -----------------------------
(***************************************************************************)
(* The rank of a message among the messages of a mailbox: how many have a  *)
(* higher uid.  Ranks number a finite set of uids from 0 upward without a  *)
(* gap (RanksNumber).  From this follow, without induction, that a mailbox *)
(* has a highest message (HasMax), how long a page is that is cut          *)
(* (MessagePagingProofs) and that uids can be put in ascending order       *)
(* (MailNotificationsProofs).                                              *)
(***************************************************************************)
EXTENDS Naturals, FiniteSets, FiniteSetsExt, FiniteSetTheorems, TLAPS

\* The messages above u,
Above(S, u) == {v \in S : v > u}

\* and how many they are.
Rank(S, u) == Cardinality(Above(S, u))

-----------------------------------------------------------------------------
\* A higher message has a lower rank.
LEMMA RankDescends ==
  ASSUME NEW S \in SUBSET Nat, IsFiniteSet(S)
  PROVE  /\ \A x \in S : Rank(S, x) \in 0..Cardinality(S) - 1
         /\ \A x, y \in S : x < y => Rank(S, y) < Rank(S, x)
<1>1. Cardinality(S) \in Nat
  BY FS_CardinalityType
<1>2. ASSUME NEW x \in S
      PROVE  /\ IsFiniteSet(Above(S, x))
             /\ Rank(S, x) \in Nat
             /\ Rank(S, x) < Cardinality(S)
  <2>1. Above(S, x) \in SUBSET S /\ x \notin Above(S, x)
    BY DEF Above
  <2>2. IsFiniteSet(Above(S, x)) /\ Rank(S, x) \in Nat
    BY <2>1, FS_Subset, FS_CardinalityType DEF Rank
  <2>3. Rank(S, x) <= Cardinality(S) /\ (Cardinality(S) = Rank(S, x) => S = Above(S, x))
    BY <2>1, FS_Subset DEF Rank
  <2> QED
    BY <1>1, <2>1, <2>2, <2>3
<1>3. ASSUME NEW x \in S, NEW y \in S, x < y
      PROVE  Rank(S, y) < Rank(S, x)
  <2>1. Above(S, y) \in SUBSET Above(S, x)
    <3>1. x \in Nat /\ y \in Nat /\ \A v \in S : v \in Nat
      OBVIOUS
    <3>2. \A v \in S : v > y => v > x
      BY <1>3, <3>1
    <3> QED
      BY <3>2 DEF Above
  <2>2. y \in Above(S, x) /\ y \notin Above(S, y)
    BY <1>3 DEF Above
  <2>3. Rank(S, y) <= Rank(S, x) /\ (Rank(S, x) = Rank(S, y) => Above(S, x) = Above(S, y))
    BY <1>2, <2>1, FS_Subset DEF Rank
  <2> QED
    BY <1>2, <2>2, <2>3
<1> QED
  BY <1>1, <1>2, <1>3

\* The ranks of a finite mailbox are 0, 1, ... up to its length, each taken once.
LEMMA RanksNumber ==
  ASSUME NEW S \in SUBSET Nat, IsFiniteSet(S)
  PROVE  /\ [u \in S |-> Rank(S, u)] \in Injection(S, 0..Cardinality(S) - 1)
         /\ \A r \in 0..Cardinality(S) - 1 : \E u \in S : Rank(S, u) = r
<1> DEFINE n == Cardinality(S)
           rank == [u \in S |-> Rank(S, u)]
<1>1. n \in Nat
  BY FS_CardinalityType
<1>2. rank \in [S -> 0..n - 1]
  BY RankDescends
<1>3. ASSUME NEW x \in S, NEW y \in S, rank[x] = rank[y]
      PROVE  x = y
  <2>1. Rank(S, x) = Rank(S, y) /\ Rank(S, x) \in Int
    BY <1>3, RankDescends
  <2>2. ~(x < y) /\ ~(y < x)
    BY <2>1, RankDescends
  <2> QED
    BY <2>2
<1>4. rank \in Injection(S, 0..n - 1)
  BY <1>2, <1>3 DEF Injection, IsInjective
<1>5. IsFiniteSet(0..n - 1) /\ Cardinality(0..n - 1) = n
  <2>1. n - 1 \in Int /\ 0 \in Int
    BY <1>1
  <2>2. IsFiniteSet(0..n - 1) /\ Cardinality(0..n - 1) = IF 0 > n - 1 THEN 0 ELSE n - 1 - 0 + 1
    BY <2>1, FS_Interval
  <2> QED
    BY <1>1, <2>2
<1>6. rank \in Surjection(S, 0..n - 1)
  BY <1>4, <1>5, FS_Injection
<1> QED
  BY <1>4, <1>6 DEF Surjection

\* The message of rank 0 is the highest one: Max, a CHOOSE, finds it.
LEMMA HasMax ==
  ASSUME NEW S \in SUBSET Nat, IsFiniteSet(S), S # {}
  PROVE  /\ Max(S) \in S
         /\ \A y \in S : Max(S) >= y
         /\ Above(S, Max(S)) = {}
<1>1. Cardinality(S) \in Nat /\ Cardinality(S) # 0
  BY FS_CardinalityType, FS_EmptySet
<1>2. PICK x \in S : Rank(S, x) = 0
  <2>1. 0 \in 0..Cardinality(S) - 1
    BY <1>1
  <2> QED
    BY <2>1, RanksNumber
<1>3. Above(S, x) \in SUBSET S
  BY DEF Above
<1>4. Above(S, x) = {}
  BY <1>2, <1>3, FS_Subset, FS_EmptySet DEF Rank
<1>5. \A y \in S : x >= y
  BY <1>4 DEF Above
<1>6. Max(S) \in S /\ \A y \in S : Max(S) >= y
  BY <1>5 DEF Max
<1>7. ~ \E y \in S : y > Max(S)
  <2> SUFFICES ASSUME NEW y \in S
               PROVE  ~(y > Max(S))
    OBVIOUS
  <2>1. y \in Nat /\ Max(S) \in Nat /\ Max(S) >= y
    BY <1>6
  <2> QED
    BY <2>1
<1> QED
  BY <1>6, <1>7 DEF Above

=============================================================================
