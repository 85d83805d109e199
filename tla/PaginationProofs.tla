--------------------------- MODULE PaginationProofs ---------------------------
(***************************************************************************)
(* Reading a page from the ends of the lists gives the page of the whole   *)
(* history, for any number of peers, messages and clock readings.          *)
(*                                                                         *)
(* A message's place in a sorted set is told by how many of the set come   *)
(* before it (Rank), and its distance from the end by how many come after  *)
(* it.  The newest messages of an ordered list have fewer successors than  *)
(* the ones get_messages leaves out (LeftOut), so both sorted sequences    *)
(* have the same end (SameEnd), and a page is cut from that end.           *)
(***************************************************************************)
EXTENDS Pagination, FiniteSetTheorems, TLAPS

\* A finite set of messages in which an id identifies its message
Distinct(S) ==
    /\ S \subseteq Message
    /\ IsFiniteSet(S)
    /\ \A m, n \in S : m.id = n.id => m = n

Before(S, m) == {n \in S : Earlier(n, m)}
After(S, m)  == {n \in S : Earlier(m, n)}

-----------------------------------------------------------------------------
(* The comparison of sort_by.                                              *)

LEMMA Irreflexive == ASSUME NEW m \in Message PROVE ~Earlier(m, m)
<1>1. m.created_at \in Nat /\ m.id \in Nat
  BY PaginationAssumption DEF Message
<1> QED
  BY <1>1 DEF Earlier

LEMMA Transitive ==
    ASSUME NEW k \in Message, NEW m \in Message, NEW n \in Message,
           Earlier(k, m), Earlier(m, n)
    PROVE  Earlier(k, n)
<1>1. /\ k.created_at \in Nat /\ m.created_at \in Nat /\ n.created_at \in Nat
      /\ k.id \in Nat /\ m.id \in Nat /\ n.id \in Nat
  BY PaginationAssumption DEF Message
<1> QED
  BY <1>1 DEF Earlier

LEMMA Total ==
    ASSUME NEW S, Distinct(S), NEW m \in S, NEW n \in S, m # n
    PROVE  Earlier(m, n) \/ Earlier(n, m)
<1>1. m \in Message /\ n \in Message /\ m.id # n.id
  BY DEF Distinct
<1>2. /\ m.created_at \in Nat /\ n.created_at \in Nat
      /\ m.id \in Nat /\ n.id \in Nat
  BY <1>1, PaginationAssumption DEF Message
<1> QED
  BY <1>1, <1>2 DEF Earlier

LEMMA SubsetDistinct ==
    ASSUME NEW S, Distinct(S), NEW T \in SUBSET S
    PROVE  Distinct(T)
<1>1. IsFiniteSet(T)
  BY FS_Subset DEF Distinct
<1> QED
  BY <1>1 DEF Distinct

-----------------------------------------------------------------------------
(* Rank: counting what comes before and after a message.                   *)

LEMMA Counts ==
    ASSUME NEW S, Distinct(S), NEW m \in S
    PROVE  /\ IsFiniteSet(Before(S, m)) /\ IsFiniteSet(After(S, m))
           /\ Cardinality(S) \in Nat
           /\ Cardinality(Before(S, m)) \in Nat
           /\ Cardinality(After(S, m)) \in Nat
           /\ Cardinality(S) = Cardinality(Before(S, m)) + 1 + Cardinality(After(S, m))
<1> DEFINE B == Before(S, m)
           A == After(S, m)
<1>1. IsFiniteSet(S) /\ m \in Message /\ S \subseteq Message
  BY DEF Distinct
<1>2. B \in SUBSET S /\ A \in SUBSET S
  BY DEF Before, After
<1>3. IsFiniteSet(B) /\ IsFiniteSet(A)
  BY <1>1, <1>2, FS_Subset
<1>4. Cardinality(S) \in Nat /\ Cardinality(B) \in Nat /\ Cardinality(A) \in Nat
  BY <1>1, <1>3, FS_CardinalityType
<1>5. m \notin B /\ m \notin A
  BY <1>1, Irreflexive DEF Before, After
<1>6. B \cap A = {}
  <2> SUFFICES ASSUME NEW n \in S, Earlier(n, m), Earlier(m, n) PROVE FALSE
    BY DEF Before, After
  <2> QED
    BY <1>1, Irreflexive, Transitive
<1>7. S = (B \cup {m}) \cup A
  BY Total DEF Before, After
<1>8. IsFiniteSet(B \cup {m}) /\ Cardinality(B \cup {m}) = Cardinality(B) + 1
  BY <1>3, <1>5, FS_AddElement
<1>9. (B \cup {m}) \cap A = {}
  BY <1>5, <1>6
<1>10. Cardinality((B \cup {m}) \cup A)
         = Cardinality(B \cup {m}) + Cardinality(A) - Cardinality((B \cup {m}) \cap A)
  BY <1>3, <1>8, FS_Union
<1>11. Cardinality((B \cup {m}) \cap A) = 0
  BY <1>9, FS_EmptySet
<1> HIDE DEF B, A
<1>12. Cardinality(S) = Cardinality(B) + 1 + Cardinality(A)
  BY <1>4, <1>7, <1>8, <1>10, <1>11
<1> QED
  BY <1>3, <1>4, <1>12 DEF B, A

LEMMA EarlierHasFewerBefore ==
    ASSUME NEW S, Distinct(S), NEW m \in S, NEW n \in S, Earlier(m, n)
    PROVE  Cardinality(Before(S, m)) < Cardinality(Before(S, n))
<1>1. m \in Message /\ n \in Message /\ S \subseteq Message
  BY DEF Distinct
<1>2. Before(S, m) \in SUBSET Before(S, n)
  BY <1>1, Transitive DEF Before
<1>3. m \in Before(S, n) /\ m \notin Before(S, m)
  BY <1>1, Irreflexive DEF Before
<1>4. /\ Cardinality(Before(S, m)) <= Cardinality(Before(S, n))
      /\ Cardinality(Before(S, n)) = Cardinality(Before(S, m)) => Before(S, n) = Before(S, m)
  BY <1>2, Counts, FS_Subset
<1>5. Cardinality(Before(S, m)) \in Nat /\ Cardinality(Before(S, n)) \in Nat
  BY Counts
<1> QED
  BY <1>3, <1>4, <1>5

LEMMA EarlierHasMoreAfter ==
    ASSUME NEW S, Distinct(S), NEW m \in S, NEW n \in S, Earlier(m, n)
    PROVE  Cardinality(After(S, n)) < Cardinality(After(S, m))
<1>1. Cardinality(Before(S, m)) < Cardinality(Before(S, n))
  BY EarlierHasFewerBefore
<1> QED
  BY <1>1, Counts

\* The ranks of a set's messages are the positions of its sorted sequence.
LEMMA Rank ==
    ASSUME NEW S, Distinct(S), NEW i \in 1..Cardinality(S)
    PROVE  \E m \in S : Cardinality(Before(S, m)) = i - 1
<1> DEFINE N    == Cardinality(S)
           rank == [m \in S |-> Cardinality(Before(S, m)) + 1]
<1>1. IsFiniteSet(S) /\ N \in Nat
  BY FS_CardinalityType DEF Distinct
<1>2. ASSUME NEW m \in S PROVE rank[m] \in 1..N
  BY Counts
<1>3. ASSUME NEW m \in S, NEW n \in S, m # n PROVE rank[m] # rank[n]
  <2>1. Earlier(m, n) \/ Earlier(n, m)
    BY <1>3, Total
  <2>2. Cardinality(Before(S, m)) \in Nat /\ Cardinality(Before(S, n)) \in Nat
    BY Counts
  <2>3. CASE Earlier(m, n)
    BY <2>2, <2>3, EarlierHasFewerBefore
  <2>4. CASE Earlier(n, m)
    BY <2>2, <2>4, EarlierHasFewerBefore
  <2> QED
    BY <2>1, <2>3, <2>4
<1>4. rank \in Injection(S, 1..N)
  BY <1>2, <1>3 DEF Injection, IsInjective
<1>5. IsFiniteSet(1..N) /\ Cardinality(1..N) = N
  BY <1>1, FS_Interval
<1>6. rank \in Surjection(S, 1..N)
  BY <1>4, <1>5, FS_Injection
<1>7. PICK m \in S : rank[m] = i
  BY <1>6 DEF Surjection
<1>8. Cardinality(Before(S, m)) \in Nat /\ Cardinality(Before(S, m)) + 1 = i
  BY <1>7, Counts
<1> QED
  BY <1>8

\* Position and rank in the sequence sort_by returns
LEMMA SortByRank ==
    ASSUME NEW S, Distinct(S)
    PROVE  /\ Cardinality(S) \in Nat
           /\ sort_by(S) \in Seq(S)
           /\ Len(sort_by(S)) = Cardinality(S)
           /\ \A i \in 1..Cardinality(S) :
                /\ sort_by(S)[i] \in S
                /\ Cardinality(Before(S, sort_by(S)[i])) = i - 1
           /\ \A m \in S : sort_by(S)[Cardinality(Before(S, m)) + 1] = m
<1> DEFINE N == Cardinality(S)
           s == sort_by(S)
<1>1. N \in Nat
  BY FS_CardinalityType DEF Distinct
<1>2. ASSUME NEW i \in 1..N PROVE s[i] \in S /\ Cardinality(Before(S, s[i])) = i - 1
  <2>1. s[i] = CHOOSE m \in S : Cardinality(Before(S, m)) = i - 1
    BY DEF sort_by, Before
  <2> QED
    BY <2>1, Rank
<1>3. s = [i \in 1..N |-> s[i]]
  <2> DEFINE at(i) == CHOOSE m \in S : Cardinality({n \in S : Earlier(n, m)}) = i - 1
  <2>1. s = [i \in 1..N |-> at(i)]
    BY DEF sort_by
  <2> HIDE DEF at, s, N
  <2> QED
    BY <2>1
<1>4. s \in Seq(S) /\ Len(s) = N
  <2> HIDE DEF s, N
  <2> QED
    BY <1>1, <1>2, <1>3
<1>5. ASSUME NEW m \in S PROVE s[Cardinality(Before(S, m)) + 1] = m
  <2> DEFINE i == Cardinality(Before(S, m)) + 1
  <2>1. i \in 1..N /\ i - 1 = Cardinality(Before(S, m))
    BY Counts
  <2>2. s[i] \in S /\ Cardinality(Before(S, s[i])) = Cardinality(Before(S, m))
    BY <1>2, <2>1
  <2>3. ~Earlier(s[i], m) /\ ~Earlier(m, s[i])
    BY <2>2, EarlierHasFewerBefore, Counts
  <2> QED
    BY <2>2, <2>3, Total
<1> QED
  BY <1>1, <1>2, <1>4, <1>5

\* sort_by returns every message of the set once and in order.
LEMMA SortByOrders ==
    ASSUME NEW S, Distinct(S)
    PROVE  /\ Range(sort_by(S)) = S
           /\ \A i, j \in DOMAIN sort_by(S) :
                i < j => Earlier(sort_by(S)[i], sort_by(S)[j])
<1> DEFINE N == Cardinality(S)
           s == sort_by(S)
<1>1. N \in Nat /\ DOMAIN s = 1..N
  BY SortByRank DEF sort_by
<1>2. ASSUME NEW m \in S PROVE \E i \in DOMAIN s : s[i] = m
  <2>1. Cardinality(Before(S, m)) + 1 \in 1..N
    BY Counts
  <2> QED
    BY <1>1, <2>1, SortByRank
<1>3. \A i \in DOMAIN s : s[i] \in S /\ Cardinality(Before(S, s[i])) = i - 1
  BY <1>1, SortByRank
<1> HIDE DEF s, N
<1>4. Range(s) = S
  BY <1>2, <1>3 DEF Range
<1>5. ASSUME NEW i \in DOMAIN s, NEW j \in DOMAIN s, i < j PROVE Earlier(s[i], s[j])
  <2>1. s[i] \in S /\ s[j] \in S /\ i \in Int /\ j \in Int
    BY <1>1, <1>3
  <2>2. Cardinality(Before(S, s[i])) = i - 1 /\ Cardinality(Before(S, s[j])) = j - 1
    BY <1>3
  <2>3. s[i] # s[j]
    BY <1>5, <2>1, <2>2
  <2>4. ~Earlier(s[j], s[i])
    <3> SUFFICES ASSUME Earlier(s[j], s[i]) PROVE FALSE
      OBVIOUS
    <3>1. Cardinality(Before(S, s[j])) < Cardinality(Before(S, s[i]))
      BY <2>1, EarlierHasFewerBefore
    <3> QED
      BY <1>5, <2>1, <2>2, <3>1
  <2> QED
    BY <2>1, <2>3, <2>4, Total
<1> QED
  BY <1>4, <1>5 DEF s

-----------------------------------------------------------------------------
(* Two sorted sequences with the same end.                                 *)

\* A subset that holds every message with fewer than d successors sorts to a
\* sequence with the same last d messages.
LEMMA SameEnd ==
    ASSUME NEW A, Distinct(A), NEW C \in SUBSET A, NEW d \in Nat,
           \A m \in A \ C : Cardinality(After(A, m)) >= d,
           NEW k \in Nat, k < d, k < Cardinality(A)
    PROVE  /\ k < Cardinality(C)
           /\ sort_by(C)[Cardinality(C) - k] = sort_by(A)[Cardinality(A) - k]
<1> DEFINE n == Cardinality(A)
           c == Cardinality(C)
           x == sort_by(A)[n - k]
<1>1. Distinct(C)
  BY SubsetDistinct
<1>2. n \in Nat /\ c \in Nat /\ n - k \in 1..n
  BY <1>1, FS_CardinalityType DEF Distinct
<1>3. x \in A /\ Cardinality(Before(A, x)) = n - k - 1
  BY <1>2, SortByRank
<1>4. Cardinality(After(A, x)) = k
  BY <1>2, <1>3, Counts
<1>5. x \in C
  BY <1>3, <1>4
<1>6. After(A, x) = After(C, x)
  <2> SUFFICES ASSUME NEW y \in A, Earlier(x, y) PROVE y \in C
    BY DEF After
  <2>1. Cardinality(After(A, y)) < k /\ Cardinality(After(A, y)) \in Nat
    BY <1>3, <1>4, EarlierHasMoreAfter, Counts
  <2> QED
    BY <2>1
<1>7. Cardinality(Before(C, x)) \in Nat /\ c = Cardinality(Before(C, x)) + 1 + k
  BY <1>1, <1>4, <1>5, <1>6, Counts
<1>8. sort_by(C)[Cardinality(Before(C, x)) + 1] = x
  BY <1>1, <1>5, SortByRank
<1>9. Cardinality(Before(C, x)) + 1 = c - k /\ k < c
  BY <1>2, <1>7
<1> QED
  BY <1>8, <1>9

\* The page cut from such a sequence is the page of the whole
LEMMA SamePage ==
    ASSUME NEW A, Distinct(A), NEW C \in SUBSET A,
           NEW offset \in Nat, NEW limit \in Nat,
           \A m \in A \ C : Cardinality(After(A, m)) >= offset + limit
    PROVE  Slice(sort_by(C), offset, limit) = Slice(sort_by(A), offset, limit)
<1> DEFINE n == Cardinality(A)
           c == Cardinality(C)
           d == offset + limit
           h == sort_by(A)
           g == sort_by(C)
<1>1. Distinct(C) /\ n \in Nat /\ c \in Nat /\ d \in Nat
  BY SubsetDistinct, FS_CardinalityType DEF Distinct
<1>2. h \in Seq(A) /\ Len(h) = n /\ g \in Seq(C) /\ Len(g) = c
  BY <1>1, SortByRank
<1>3. CASE n <= d
  <2>1. ASSUME NEW m \in A PROVE m \in C
    <3>1. Cardinality(After(A, m)) < d
      BY <1>1, <1>3, Counts
    <3>2. Cardinality(After(A, m)) \in Nat
      BY Counts
    <3> QED
      BY <1>1, <3>1, <3>2
  <2> QED
    BY <2>1
<1>4. CASE d < n
  <2>1. ASSUME NEW k \in Nat, k < d PROVE k < c /\ g[c - k] = h[n - k]
    BY <1>1, <1>4, <2>1, SameEnd
  <2>2. d <= c
    <3>1. CASE d = 0
      BY <1>1, <3>1
    <3>2. CASE d > 0
      <4>1. d - 1 < c
        BY <1>1, <2>1, <3>2
      <4> QED
        BY <1>1, <4>1
    <3> QED
      BY <1>1, <3>1, <3>2
  <2>3. /\ saturating_sub(n, offset) = n - offset
        /\ saturating_sub(n - offset, limit) = n - d
        /\ saturating_sub(c, offset) = c - offset
        /\ saturating_sub(c - offset, limit) = c - d
    <3> HIDE DEF n, c
    <3> QED
      BY <1>1, <1>4, <2>2 DEF saturating_sub
  <2> HIDE DEF n, c, h, g
  <2>4. /\ Slice(h, offset, limit) = SubSeq(h, n - d + 1, n - offset)
        /\ Slice(g, offset, limit) = SubSeq(g, c - d + 1, c - offset)
    BY <1>2, <2>3 DEF Slice
  <2>5. /\ SubSeq(h, n - d + 1, n - offset) = [i \in 1..limit |-> h[n - d + i]]
        /\ SubSeq(g, c - d + 1, c - offset) = [i \in 1..limit |-> g[c - d + i]]
    <3>1. (n - offset) - (n - d + 1) + 1 = limit /\ (c - offset) - (c - d + 1) + 1 = limit
      BY <1>1
    <3> QED
      BY <1>1, <1>2, <1>4, <2>2, <3>1
  <2>6. ASSUME NEW i \in 1..limit PROVE h[n - d + i] = g[c - d + i]
    <3>1. d - i \in Nat /\ d - i < d /\ n - (d - i) = n - d + i /\ c - (d - i) = c - d + i
      BY <1>1
    <3> HIDE DEF d
    <3> QED
      BY <2>1, <3>1
  <2> QED
    BY <2>4, <2>5, <2>6 DEF h, g
<1> QED
  BY <1>1, <1>3, <1>4

-----------------------------------------------------------------------------
(* The lists.                                                              *)

\* The lists hold finitely many messages, and an id is at one place of one list.
IInv ==
    /\ lists \in [Peer -> Seq(Message)]
    /\ IsFiniteSet(AllMessages)
    /\ \A p, q \in Peer : \A i \in DOMAIN lists[p], j \in DOMAIN lists[q] :
          lists[p][i].id = lists[q][j].id => p = q /\ i = j

LEMMA InitIInv == Init => IInv
<1> SUFFICES ASSUME Init PROVE IInv
  OBVIOUS
<1>1. \A p \in Peer : lists[p] = <<>>
  BY DEF Init
<1>2. AllMessages = {}
  BY <1>1 DEF AllMessages, Range
<1>3. lists \in [Peer -> Seq(Message)]
  BY DEF Init
<1> QED
  BY <1>1, <1>2, <1>3, FS_EmptySet DEF IInv

LEMMA StepIInv == IInv /\ [Next]_lists => IInv'
<1> SUFFICES ASSUME IInv, [Next]_lists PROVE IInv'
  OBVIOUS
<1>1. CASE UNCHANGED lists
  BY <1>1 DEF IInv, AllMessages
<1>2. ASSUME NEW p \in Peer, NEW m \in Message, add_message(p, m) PROVE IInv'
  <2>1. lists \in [Peer -> Seq(Message)]
    BY DEF IInv
  <2>2. lists' \in [Peer -> Seq(Message)]
    BY <1>2, <2>1 DEF add_message
  <2>3. /\ lists'[p] = Append(lists[p], m)
        /\ \A q \in Peer : q # p => lists'[q] = lists[q]
    BY <1>2, <2>1 DEF add_message
  <2>4. /\ DOMAIN lists'[p] = DOMAIN lists[p] \cup {Len(lists[p]) + 1}
        /\ lists'[p][Len(lists[p]) + 1] = m
        /\ \A i \in DOMAIN lists[p] : lists'[p][i] = lists[p][i]
        /\ Len(lists[p]) + 1 \notin DOMAIN lists[p]
    <3> DEFINE s == lists[p]
    <3>1. s \in Seq(Message)
      BY <2>1
    <3> HIDE DEF s
    <3>2. /\ DOMAIN Append(s, m) = DOMAIN s \cup {Len(s) + 1}
          /\ Append(s, m)[Len(s) + 1] = m
          /\ \A i \in DOMAIN s : Append(s, m)[i] = s[i]
          /\ Len(s) + 1 \notin DOMAIN s
      BY <3>1
    <3> QED
      BY <2>3, <3>2 DEF s
  <2>5. Range(lists[p])' = Range(lists[p]) \cup {m}
    BY <2>4 DEF Range
  <2>6. AllMessages' = AllMessages \cup {m}
    BY <2>3, <2>5 DEF AllMessages
  <2>7. IsFiniteSet(AllMessages')
    BY <2>6, FS_AddElement DEF IInv
  <2>8. ASSUME NEW q \in Peer, NEW i \in DOMAIN lists[q] PROVE lists[q][i].id # m.id
    <3>1. lists[q][i] \in AllMessages
      BY DEF AllMessages, Range
    <3> QED
      BY <1>2, <3>1 DEF add_message
  <2>9. ASSUME NEW q \in Peer, NEW i \in DOMAIN lists'[q]
        PROVE  \/ i \in DOMAIN lists[q] /\ lists'[q][i] = lists[q][i]
               \/ q = p /\ i = Len(lists[p]) + 1 /\ lists'[q][i] = m
    BY <2>3, <2>4
  <2>10. ASSUME NEW q \in Peer, NEW r \in Peer,
                NEW i \in DOMAIN lists'[q], NEW j \in DOMAIN lists'[r],
                lists'[q][i].id = lists'[r][j].id
         PROVE  q = r /\ i = j
    <3>1. CASE i \in DOMAIN lists[q] /\ lists'[q][i] = lists[q][i]
      <4>1. j \in DOMAIN lists[r] /\ lists'[r][j] = lists[r][j]
        BY <2>8, <2>9, <2>10, <3>1
      <4> QED
        BY <2>10, <3>1, <4>1 DEF IInv
    <3>2. CASE q = p /\ i = Len(lists[p]) + 1 /\ lists'[q][i] = m
      BY <2>8, <2>9, <2>10, <3>2
    <3> QED
      BY <2>9, <3>1, <3>2
  <2> QED
    BY <2>2, <2>7, <2>10 DEF IInv
<1> QED
  BY <1>1, <1>2 DEF Next

LEMMA Invariant == Spec => []IInv
BY InitIInv, StepIInv, PTL DEF Spec

LEMMA AllDistinct == ASSUME IInv PROVE Distinct(AllMessages)
<1>1. ASSUME NEW m \in AllMessages
      PROVE  \E p \in Peer : \E i \in DOMAIN lists[p] : lists[p][i] = m
  BY DEF AllMessages, Range
<1>2. AllMessages \subseteq Message
  <2> SUFFICES ASSUME NEW p \in Peer, NEW i \in DOMAIN lists[p] PROVE lists[p][i] \in Message
    BY <1>1
  <2>1. lists[p] \in Seq(Message)
    BY DEF IInv
  <2> QED
    BY <2>1
<1>3. ASSUME NEW m \in AllMessages, NEW n \in AllMessages, m.id = n.id PROVE m = n
  <2>1. PICK p \in Peer : \E i \in DOMAIN lists[p] : lists[p][i] = m
    BY <1>1
  <2>2. PICK i \in DOMAIN lists[p] : lists[p][i] = m
    BY <2>1
  <2>3. PICK q \in Peer : \E j \in DOMAIN lists[q] : lists[q][j] = n
    BY <1>1
  <2>4. PICK j \in DOMAIN lists[q] : lists[q][j] = n
    BY <2>3
  <2> QED
    BY <1>3, <2>2, <2>4 DEF IInv
<1> QED
  BY <1>2, <1>3 DEF Distinct, IInv

\* What Candidates(depth) reads of one list, as indices
LEMMA Candidate ==
    ASSUME IInv, NEW depth \in Nat
    PROVE  /\ Candidates(depth) \subseteq AllMessages
           /\ \A p \in Peer, i \in Nat :
                i \in DOMAIN lists[p] /\ i + depth > Len(lists[p])
                    => lists[p][i] \in Candidates(depth)
<1>1. ASSUME NEW p \in Peer
      PROVE  lists[p] \in Seq(Message) /\ Len(lists[p]) \in Nat /\ DOMAIN lists[p] = 1..Len(lists[p])
  BY DEF IInv
<1>2. Candidates(depth) \subseteq AllMessages
  <2> SUFFICES ASSUME NEW p \in Peer,
                      NEW i \in saturating_sub(Len(lists[p]), depth) + 1..Len(lists[p])
               PROVE  lists[p][i] \in Range(lists[p])
    BY DEF Candidates, AllMessages
  <2>1. i \in DOMAIN lists[p]
    BY <1>1 DEF saturating_sub
  <2> QED
    BY <2>1 DEF Range
<1>3. ASSUME NEW p \in Peer, NEW i \in Nat, i \in DOMAIN lists[p], i + depth > Len(lists[p])
      PROVE  lists[p][i] \in Candidates(depth)
  <2>1. i \in saturating_sub(Len(lists[p]), depth) + 1..Len(lists[p])
    BY <1>1, <1>3 DEF saturating_sub
  <2> QED
    BY <2>1 DEF Candidates
<1> QED
  BY <1>2, <1>3

\* In an ordered list at least `depth` messages follow one that is not read.
LEMMA LeftOut ==
    ASSUME IInv, ListsAreOrdered, NEW depth \in Nat,
           NEW m \in AllMessages \ Candidates(depth)
    PROVE  Cardinality(After(AllMessages, m)) >= depth
<1>1. PICK p \in Peer : \E i \in DOMAIN lists[p] : lists[p][i] = m
  BY DEF AllMessages, Range
<1>2. PICK i \in DOMAIN lists[p] : lists[p][i] = m
  BY <1>1
<1>3. lists[p] \in Seq(Message) /\ Len(lists[p]) \in Nat /\ DOMAIN lists[p] = 1..Len(lists[p])
  BY DEF IInv
<1>4. i \in Nat /\ i + depth <= Len(lists[p])
  BY <1>2, <1>3, Candidate
<1> DEFINE f == [k \in 1..depth |-> lists[p][i + k]]
           L == After(AllMessages, m)
<1>5. ASSUME NEW k \in 1..depth PROVE i + k \in DOMAIN lists[p] /\ i + k > i
  BY <1>3, <1>4
<1>6. ASSUME NEW k \in 1..depth PROVE f[k] \in L
  <2>1. lists[p][i + k] \in AllMessages
    BY <1>5 DEF AllMessages, Range
  <2>2. Earlier(m, lists[p][i + k])
    BY <1>2, <1>5 DEF ListsAreOrdered
  <2> QED
    BY <2>1, <2>2 DEF After
<1>7. ASSUME NEW k \in 1..depth, NEW l \in 1..depth, f[k] = f[l] PROVE k = l
  <2>1. i + k = i + l
    BY <1>5, <1>7 DEF IInv
  <2> QED
    BY <1>4, <2>1
<1>8. f \in Injection(1..depth, L)
  BY <1>6, <1>7 DEF Injection, IsInjective
<1>9. IsFiniteSet(L) /\ Cardinality(L) \in Nat
  BY AllDistinct, Counts
<1>10. Cardinality(1..depth) <= Cardinality(L)
  BY <1>8, <1>9, FS_Injection
<1>11. Cardinality(1..depth) = depth
  BY FS_Interval
<1> QED
  BY <1>9, <1>10, <1>11

\* No list is longer than the history.
LEMMA ListFits ==
    ASSUME IInv, NEW p \in Peer
    PROVE  Len(lists[p]) <= Cardinality(AllMessages)
<1> DEFINE s == lists[p]
<1>1. s \in Seq(Message) /\ Len(s) \in Nat /\ DOMAIN s = 1..Len(s)
  BY DEF IInv
<1>2. ASSUME NEW i \in 1..Len(s), NEW j \in 1..Len(s), s[i] = s[j] PROVE i = j
  BY <1>1, <1>2 DEF IInv
<1>3. ASSUME NEW i \in 1..Len(s) PROVE s[i] \in AllMessages
  BY <1>1 DEF AllMessages, Range
<1>4. s \in [1..Len(s) -> AllMessages]
  <2> HIDE DEF s
  <2> QED
    BY <1>1, <1>3
<1>5. s \in Injection(1..Len(s), AllMessages)
  BY <1>2, <1>4 DEF Injection, IsInjective
<1>6. Cardinality(1..Len(s)) <= Cardinality(AllMessages)
  BY <1>5, FS_Injection DEF IInv
<1>7. Cardinality(1..Len(s)) = Len(s)
  <2> HIDE DEF s
  <2>1. Len(s) \in Nat /\ Len(s) \in Int /\ 1 \in Int
    BY <1>1
  <2>2. Cardinality(1..Len(s)) = IF 1 > Len(s) THEN 0 ELSE Len(s) - 1 + 1
    BY <2>1, FS_Interval
  <2> QED
    BY <2>1, <2>2
<1> QED
  BY <1>6, <1>7

-----------------------------------------------------------------------------
LEMMA NoWrap ==
    ASSUME NEW a \in Nat, a <= UsizeMax
    PROVE  a % (UsizeMax + 1) = a
BY PaginationAssumption

\* As long as every list is in the order of the sort, get_messages, which reads
\* the last offset + limit entries of every list, returns the page of the whole
\* history (persistence.rs:192-231).
THEOREM PagesAreRight == Spec => []PagesOfOrderedLists
<1>1. IInv => PagesOfOrderedLists
  <2> SUFFICES ASSUME IInv, ListsAreOrdered,
                      NEW offset \in 0..Len(History) + 1, NEW limit \in 0..Len(History) + 1,
                      offset + limit <= UsizeMax
               PROVE  get_messages(offset, limit) = Slice(History, offset, limit)
    BY DEF PagesOfOrderedLists, PagesAreTheHistory
  <2>1. Distinct(AllMessages)
    BY AllDistinct
  <2>2. offset \in Nat /\ limit \in Nat /\ offset + limit \in Nat
    OBVIOUS
  <2>3. get_messages(offset, limit) = Slice(sort_by(Candidates(offset + limit)), offset, limit)
    BY <2>2, NoWrap DEF get_messages
  <2>4. Candidates(offset + limit) \in SUBSET AllMessages
    BY <2>2, Candidate
  <2>5. \A m \in AllMessages \ Candidates(offset + limit) :
           Cardinality(After(AllMessages, m)) >= offset + limit
    BY <2>2, LeftOut
  <2> QED
    BY <2>1, <2>2, <2>3, <2>4, <2>5, SamePage DEF History
<1> QED
  BY <1>1, Invariant, PTL

\* get_all_messages returns every message once and in order, whatever the clocks
\* show, as long as the messages fit a vector: one of usize::MAX entries cannot
\* be allocated (persistence.rs:182-185).
THEOREM AllOfTheHistory ==
    Spec => [](Cardinality(AllMessages) < UsizeMax => AllIsTheHistory)
<1>1. IInv => (Cardinality(AllMessages) < UsizeMax => AllIsTheHistory)
  <2> SUFFICES ASSUME IInv, Cardinality(AllMessages) < UsizeMax
               PROVE  get_messages(0, UsizeMax - 1) = History
    BY DEF AllIsTheHistory, get_all_messages
  <2> DEFINE d == UsizeMax - 1
  <2>1. Distinct(AllMessages) /\ Cardinality(AllMessages) \in Nat
    BY AllDistinct, FS_CardinalityType DEF Distinct
  <2>2. d \in Nat /\ d <= UsizeMax /\ Cardinality(AllMessages) <= d
    BY <2>1, PaginationAssumption
  <2>3. Candidates(d) = AllMessages
    <3> SUFFICES ASSUME NEW p \in Peer, NEW i \in DOMAIN lists[p]
                 PROVE  lists[p][i] \in Candidates(d)
      BY <2>2, Candidate DEF AllMessages, Range
    <3>1. Len(lists[p]) \in Nat /\ DOMAIN lists[p] = 1..Len(lists[p])
      BY DEF IInv
    <3>2. i \in Nat /\ i + d > Len(lists[p])
      BY <2>1, <2>2, <3>1, ListFits
    <3> QED
      BY <2>2, <3>2, Candidate
  <2>4. (0 + d) % (UsizeMax + 1) = d
    BY <2>2, NoWrap
  <2>5. get_messages(0, d) = Slice(History, 0, d)
    BY <2>3, <2>4 DEF get_messages, History
  <2>6. History \in Seq(AllMessages) /\ Len(History) <= d /\ Len(History) \in Nat
    BY <2>1, <2>2, SortByRank DEF History
  <2>7. Slice(History, 0, d) = SubSeq(History, 1, Len(History))
    BY <2>2, <2>6 DEF Slice, saturating_sub
  <2>8. SubSeq(History, 1, Len(History)) = History
    <3> HIDE DEF d
    <3> QED
      BY <2>6
  <2> QED
    BY <2>5, <2>7, <2>8
<1> QED
  BY <1>1, Invariant, PTL
==============================================================================
