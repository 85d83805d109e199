------------------------------ MODULE Pagination ------------------------------
(***************************************************************************)
(* `ChatRepository::get_messages` (src/persistence.rs): reading a page of  *)
(* a chat whose messages are kept in one list per peer.  The lists grow by *)
(* add_message, here or at the peer; a message is its creation time and    *)
(* its random identifier.                                                  *)
(***************************************************************************)
EXTENDS Integers, Sequences, FiniteSets, Functions

CONSTANTS
    Peer,
    MsgId,      \* identifiers, compared as UUID strings are
    Time,       \* readings of the wall clock
    UsizeMax    \* usize::MAX

ASSUME PaginationAssumption ==
    MsgId \subseteq Nat /\ Time \subseteq Nat /\ UsizeMax \in Nat \ {0}

Message == [created_at : Time, id : MsgId]

VARIABLE lists  \* [Peer -> the list object under the peer's key]

-----------------------------------------------------------------------------
saturating_sub(a, b) == IF a > b THEN a - b ELSE 0

\* The comparison of sort_by: created_at, then id
Earlier(a, b) ==
    \/ a.created_at < b.created_at
    \/ a.created_at = b.created_at /\ a.id < b.id

\* sort_by: at position i the message that i - 1 of the others precede.  Ids
\* differ, so the comparison orders any two messages.
sort_by(msgs) ==
    [i \in 1..Cardinality(msgs) |->
        CHOOSE m \in msgs : Cardinality({n \in msgs : Earlier(n, m)}) = i - 1]

AllMessages == UNION {Range(lists[p]) : p \in Peer}

\* A plausible slip: a plain subtraction, which wraps for a list shorter than
\* the depth.
Candidates_wrapping(depth) ==
    UNION {{lists[p][i] : i \in ((Len(lists[p]) - depth) % (UsizeMax + 1)) + 1..Len(lists[p])}
           : p \in Peer}

\* The newest `depth` entries of every list
Candidates(depth) ==
    UNION {{lists[p][i] : i \in saturating_sub(Len(lists[p]), depth) + 1..Len(lists[p])}
           : p \in Peer}

\* The page of an ordered history: skip `offset` from the end, take `limit`
Slice(msgs, offset, limit) ==
    LET end   == saturating_sub(Len(msgs), offset)
        start == saturating_sub(end, limit)
    IN  SubSeq(msgs, start + 1, end)

\* A plausible slip: the depth does not count the messages to skip.
get_messages_shallow(offset, limit) ==
    Slice(sort_by(Candidates(limit)), offset, limit)

get_messages(offset, limit) ==
    LET fetch_depth == (offset + limit) % (UsizeMax + 1)
    IN  Slice(sort_by(Candidates(fetch_depth)), offset, limit)

get_all_messages == get_messages(0, UsizeMax - 1)

-----------------------------------------------------------------------------
Init == lists = [p \in Peer |-> <<>>]

\* add_message: the peer's next message, with a fresh id and the time its
\* clock shows.
add_message(p, m) ==
    /\ \A n \in AllMessages : n.id # m.id
    /\ lists' = [lists EXCEPT ![p] = Append(@, m)]

Next == \E p \in Peer, m \in Message : add_message(p, m)

Spec == Init /\ [][Next]_lists

-----------------------------------------------------------------------------
(* Properties.                                                             *)

History == sort_by(AllMessages)

\* "`offset`: How many messages to skip from the END (most recent).  `limit`:
\* How many messages to return": every page is that slice of the whole history,
\* although get_messages reads only the ends of the lists.
PagesAreTheHistory ==
    \A offset, limit \in 0..Len(History) + 1 :
        offset + limit <= UsizeMax =>
            get_messages(offset, limit) = Slice(History, offset, limit)

\* Every list is in the order of the sort, as when a peer's clock advances
\* between two of its messages.
ListsAreOrdered ==
    \A p \in Peer : \A i, j \in DOMAIN lists[p] :
        i < j => Earlier(lists[p][i], lists[p][j])

\* While the lists are ordered, every page is right, also when the clocks of the
\* peers disagree (get_messages reads offset + limit entries of every list).
PagesOfOrderedLists == ListsAreOrdered => PagesAreTheHistory

\* get_all_messages returns every message once and in order, whatever the
\* clocks of the peers show.
AllIsTheHistory == get_all_messages = History
==============================================================================
