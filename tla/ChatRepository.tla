---------------------------- MODULE ChatRepository ----------------------------
(***************************************************************************)
(* One `ChatRepository` (src/persistence.rs), its two SQLite tables, and a *)
(* remote replica it synchronises with.  An automerge document is the set  *)
(* of changes applied to it; `heads` stand for everything below them, so   *)
(* `last_saved_heads` is a set of changes too.  The ChatManager calls one  *)
(* method at a time; each `.await` on the database may fail, and the       *)
(* process may crash there.                                                *)
(***************************************************************************)
EXTENDS Integers, Sequences

CONSTANTS
    Change,          \* identities of changes, ordered as automerge orders op ids
    CHAT_LOGS_LIMIT,
    MaxRows          \* bound on the rows of chat_log

ASSUME RepositoryAssumption ==
    /\ Change \subseteq Nat
    /\ CHAT_LOGS_LIMIT \in Nat /\ MaxRows \in Nat

NoList == -1

VARIABLES
    snapshot,        \* chats.document
    has_row,         \* whether the chats table has a row for this chat
    chat_log,        \* the data of the chat_log rows, in the order of their ids
    doc,             \* inner.doc
    last_saved,      \* the changes covered by inner.last_saved_heads
    reset_doc_state, \* the manager's flag
    pc,              \* the method the manager is inside of, and where
    pending,         \* the message add_message is about to acknowledge
    remote,          \* the changes of the remote replica
    past,            \* [Change -> the changes it depends on]
    list,            \* [Change -> the list object the message is in], named by
                     \* the change that created it
    created,         \* changes made so far, here or remotely
    acked,           \* messages for which add_message returned Ok
    refused          \* messages for which it returned an error

vars == <<snapshot, has_row, chat_log, doc, last_saved, reset_doc_state, pc, pending,
          remote, past, list, created, acked, refused>>

db_vars     == <<snapshot, has_row, chat_log>>
change_vars == <<past, list, created>>

-----------------------------------------------------------------------------
Logged    == UNION {chat_log[i] : i \in 1..Len(chat_log)}
Persisted == snapshot \cup Logged

\* automerge applies a change once everything it depends on is there.
Applied(S) == {c \in S : past[c] \subseteq S}

\* What Automerge::load and load_incremental make of the tables.
Loadable == Applied(Persisted)

Init ==
    /\ snapshot = {} /\ has_row = FALSE /\ chat_log = <<>>
    /\ doc = {} /\ last_saved = {}
    /\ reset_doc_state = FALSE
    /\ pc = "down"
    /\ pending = {}
    /\ remote = {}
    /\ past = [c \in Change |-> {}]
    /\ list = [c \in Change |-> NoList]
    /\ created = {}
    /\ acked = {} /\ refused = {}

-----------------------------------------------------------------------------
(* get_persisted_doc_state.                                                *)

\* No row yet: a document with only ChatInit, inserted as the snapshot.
get_persisted_doc_state_creates(c) ==
    /\ ~has_row
    /\ c \in Change \ created
    /\ created' = created \cup {c}
    /\ past' = [past EXCEPT ![c] = {}]
    /\ has_row' = TRUE
    /\ snapshot' = {c}
    /\ doc' = {c}
    /\ last_saved' = {c}
    /\ UNCHANGED <<chat_log, list>>

\* A plausible slip: the log is cleared although the new snapshot was not written.
get_persisted_doc_state_drops_log ==
    /\ has_row
    /\ doc' = Loadable
    /\ last_saved' = Loadable
    /\ chat_log' = IF Len(chat_log) > CHAT_LOGS_LIMIT THEN <<>> ELSE chat_log
    /\ UNCHANGED <<snapshot, has_row, change_vars>>

\* Load the snapshot and the log.  A log longer than the limit is folded into
\* the snapshot, both in one transaction.
get_persisted_doc_state_loads ==
    /\ has_row
    /\ doc' = Loadable
    /\ last_saved' = Loadable
    /\ \/ /\ Len(chat_log) > CHAT_LOGS_LIMIT
          /\ snapshot' = Loadable
          /\ chat_log' = <<>>
       \/ /\ Len(chat_log) <= CHAT_LOGS_LIMIT
          /\ UNCHANGED <<snapshot, chat_log>>
    /\ UNCHANGED <<has_row, change_vars>>

get_persisted_doc_state ==
    \/ get_persisted_doc_state_loads
    \/ \E c \in Change : get_persisted_doc_state_creates(c)

\* ChatRepository::new; a failure leaves the chat closed, to be opened again.
new ==
    /\ pc = "down"
    /\ get_persisted_doc_state
    /\ pc' = "idle"
    /\ reset_doc_state' = FALSE
    /\ UNCHANGED <<pending, remote, acked, refused>>

-----------------------------------------------------------------------------
(* The message lists.                                                      *)

\* The list objects under this endpoint's key.
Lists(S) == {list[c] : c \in S} \ {NoList}

\* Root::get_peer_list: of several list objects under one key, `get` returns
\* the one with the highest op id.
get_peer_list(S, l) == l \in Lists(S) /\ \A m \in Lists(S) : m <= l

\* A plausible slip: every message starts a list.
ensure_peer_list_always_new(c, l) == l = c

\* Root::ensure_peer_list: the list a message made by change c goes to.
ensure_peer_list(c, l) ==
    \/ Lists(doc) = {} /\ l = c
    \/ get_peer_list(doc, l)

\* generate_sync_message and send_message: what leaves the process is some
\* causally closed part of the document, or nothing.
generate_sync_message ==
    \E S \in SUBSET doc' :
        /\ \A c \in S : past'[c] \subseteq S
        /\ remote' = remote \cup S

-----------------------------------------------------------------------------
(* persist_chat, shared by add_message and receive_sync_message.           *)

\* Nothing new to save, or one new row; only then do the saved heads advance.
persist_chat ==
    \/ /\ doc = last_saved
       /\ UNCHANGED <<chat_log, last_saved>>
    \/ /\ doc # last_saved
       /\ Len(chat_log) < MaxRows
       /\ chat_log' = Append(chat_log, doc \ last_saved)
       /\ last_saved' = doc

-----------------------------------------------------------------------------
(* add_message.                                                            *)

\* A plausible slip: the sync message is made before the change is on disk.
add_message_sends_first(c) ==
    /\ pc = "idle"
    /\ c \in Change \ created
    /\ created' = created \cup {c}
    /\ past' = [past EXCEPT ![c] = doc]
    /\ \E l \in Change : ensure_peer_list(c, l) /\ list' = [list EXCEPT ![c] = l]
    /\ doc' = doc \cup {c}
    /\ pending' = {c}
    /\ pc' = "adding"
    /\ generate_sync_message
    /\ UNCHANGED <<db_vars, last_saved, reset_doc_state, acked, refused>>

\* The transaction that appends the message, up to the await in persist_chat.
add_message(c) ==
    /\ pc = "idle"
    /\ c \in Change \ created
    /\ created' = created \cup {c}
    /\ past' = [past EXCEPT ![c] = doc]
    /\ \E l \in Change : ensure_peer_list(c, l) /\ list' = [list EXCEPT ![c] = l]
    /\ doc' = doc \cup {c}
    /\ pending' = {c}
    /\ pc' = "adding"
    /\ UNCHANGED <<db_vars, last_saved, reset_doc_state, remote, acked, refused>>

\* The row is written; the caller has not been answered.
add_message_persisted ==
    /\ pc = "adding"
    /\ persist_chat
    /\ pc' = "added"
    /\ UNCHANGED <<snapshot, has_row, doc, reset_doc_state, pending, remote, change_vars,
                   acked, refused>>

add_message_returns ==
    /\ pc = "added"
    /\ acked' = acked \cup pending
    /\ pending' = {}
    /\ pc' = "idle"
    /\ UNCHANGED <<db_vars, doc, last_saved, reset_doc_state, change_vars, refused>>
    /\ generate_sync_message

\* A plausible slip: the error of persist_chat is logged and not returned.
add_message_fails_silently ==
    /\ pc = "adding"
    /\ pc' = "added"
    /\ UNCHANGED <<db_vars, doc, last_saved, reset_doc_state, pending, remote, change_vars,
                   acked, refused>>

\* A plausible slip: the caller is not answered.
add_message_fails_unanswered ==
    /\ pc = "adding"
    /\ pc' = "idle"
    /\ UNCHANGED <<db_vars, doc, last_saved, reset_doc_state, pending, remote, change_vars,
                   acked, refused>>

\* A plausible slip: the saved heads advance before the row is written.
add_message_fails_after_heads ==
    /\ pc = "adding"
    /\ last_saved' = doc
    /\ refused' = refused \cup pending
    /\ pending' = {}
    /\ pc' = "idle"
    /\ UNCHANGED <<db_vars, doc, reset_doc_state, remote, change_vars, acked>>

\* The caller gets the error; the change stays in the document.
add_message_fails ==
    /\ pc = "adding"
    /\ refused' = refused \cup pending
    /\ pending' = {}
    /\ pc' = "idle"
    /\ UNCHANGED <<db_vars, doc, last_saved, reset_doc_state, remote, change_vars, acked>>

-----------------------------------------------------------------------------
(* receive_sync_message, and what handle_incomming_message does around it. *)

\* The changes of a sync message are applied, up to the await in persist_chat.
receive_sync_message(S) ==
    /\ pc = "idle"
    /\ S \subseteq remote
    /\ \A c \in S : past[c] \subseteq doc \cup S
    /\ doc' = doc \cup S
    /\ pc' = "receiving"
    /\ UNCHANGED <<db_vars, last_saved, reset_doc_state, pending, remote, change_vars, acked, refused>>

receive_persisted ==
    /\ pc = "receiving"
    /\ persist_chat
    /\ pc' = "received"
    /\ UNCHANGED <<snapshot, has_row, doc, reset_doc_state, pending, remote, change_vars,
                   acked, refused>>

receive_returns ==
    /\ pc = "received"
    /\ reset_doc_state' = FALSE
    /\ pc' = "idle"
    /\ UNCHANGED <<db_vars, doc, last_saved, pending, change_vars, acked, refused>>
    /\ generate_sync_message

\* Sync(None): the peer has nothing more.
receive_none ==
    /\ pc = "idle"
    /\ reset_doc_state' = FALSE
    /\ UNCHANGED <<db_vars, doc, last_saved, pc, pending, change_vars, acked, refused>>
    /\ generate_sync_message

\* Applying, persisting or extracting the messages fails.  The first failure
\* goes on to a reset, the next one in a row is only logged.
receive_fails ==
    /\ pc \in {"idle", "receiving", "received"}
    /\ pc' = IF reset_doc_state THEN "idle" ELSE "resetting"
    /\ UNCHANGED <<db_vars, doc, last_saved, reset_doc_state, pending, remote, change_vars,
                   acked, refused>>

reset_doc_state_to_persisted ==
    /\ pc = "resetting"
    /\ get_persisted_doc_state
    /\ reset_doc_state' = TRUE
    /\ pc' = "idle"
    /\ UNCHANGED <<pending, acked, refused>>
    /\ generate_sync_message

reset_fails ==
    /\ pc = "resetting"
    /\ pc' = "idle"
    /\ UNCHANGED <<db_vars, doc, last_saved, reset_doc_state, pending, remote, change_vars,
                   acked, refused>>

-----------------------------------------------------------------------------
\* The manager's tick, and a new connection: send what the peer may lack.
sync ==
    /\ pc = "idle"
    /\ UNCHANGED <<db_vars, doc, last_saved, reset_doc_state, pc, pending, change_vars, acked, refused>>
    /\ generate_sync_message

\* The process stops, by a crash or a shutdown: only the tables are left.
stop ==
    /\ pc # "down"
    /\ pc' = "down"
    /\ doc' = {} /\ last_saved' = {}
    /\ pending' = {}
    /\ reset_doc_state' = FALSE
    /\ UNCHANGED <<db_vars, remote, change_vars, acked, refused>>

\* The remote replica makes a change of its own, in a list of its own.
remote_change(c) ==
    /\ c \in Change \ created
    /\ created' = created \cup {c}
    /\ past' = [past EXCEPT ![c] = remote]
    /\ remote' = remote \cup {c}
    /\ UNCHANGED <<db_vars, doc, last_saved, reset_doc_state, pc, pending, list, acked, refused>>

Next ==
    \/ new
    \/ \E c \in Change : add_message(c) \/ remote_change(c)
    \/ add_message_persisted \/ add_message_returns \/ add_message_fails
    \/ \E S \in SUBSET remote : receive_sync_message(S)
    \/ receive_persisted \/ receive_returns \/ receive_none \/ receive_fails
    \/ reset_doc_state_to_persisted \/ reset_fails
    \/ sync \/ stop

Spec == Init /\ [][Next]_vars

-----------------------------------------------------------------------------
(* Properties.                                                             *)

\* The types of the tables, the repository and the replicas; a caller waits
\* exactly while add_message is under way.
TypeOK ==
    /\ snapshot \in SUBSET Change /\ has_row \in BOOLEAN
    /\ chat_log \in Seq(SUBSET Change)
    /\ doc \in SUBSET Change /\ last_saved \in SUBSET Change
    /\ reset_doc_state \in BOOLEAN
    /\ pc \in {"down", "idle", "adding", "added", "receiving", "received", "resetting"}
    /\ pending \in SUBSET Change
    /\ pending # {} <=> pc \in {"adding", "added"}
    /\ remote \in SUBSET Change
    /\ past \in [Change -> SUBSET Change]
    /\ list \in [Change -> Change \cup {NoList}]
    /\ created \in SUBSET Change
    /\ acked \in SUBSET Change /\ refused \in SUBSET Change

\* A message for which add_message returned Ok is found by every later load,
\* whatever fails and wherever the process stops (add_message, persist_chat).
AckedIsDurable == acked \subseteq Loadable

\* Every change in the tables has the changes it depends on in the tables, so
\* that a load applies all of them: no row is written relative to saved heads
\* that are not on disk (persist_chat advances them after the INSERT).
TablesAreClosed == Loadable = Persisted

\* The repository implements the durable chat: what a load finds never shrinks,
\* through compaction, failures and restarts, and only what a load finds is
\* acknowledged (get_persisted_doc_state, add_message).
Durable == INSTANCE DurableChat WITH history <- Loadable
ImplementsDurableChat == Durable!Spec

\* Nothing this endpoint wrote leaves it before it is on disk, except a message
\* whose sender was told that it failed (add_message persists, then makes the
\* sync message): a restart never knows less of its own list than the peer does.
SentIsDurable == {c \in remote : list[c] # NoList} \subseteq Persisted \cup refused

\* As long as no add_message failed, every acknowledged message of a running
\* repository is in the list that get_messages reads: neither a restart nor a
\* reset starts a second list that hides the first (ensure_peer_list).
AckedIsVisible ==
    (pc # "down" /\ refused = {}) =>
        \A c \in acked : c \in doc /\ get_peer_list(doc, list[c])

\* The log is truncated when it exceeds the limit: it never holds more than the
\* row that takes it over CHAT_LOGS_LIMIT (the module documentation of
\* src/persistence.rs).
LogIsTruncated == Len(chat_log) <= CHAT_LOGS_LIMIT + 1

==============================================================================
