----------------------------- MODULE ChatManager -----------------------------
(***************************************************************************)
(* The actor of a ChatManager (src/manager.rs): its select loop, the two   *)
(* watch channels it follows (connection state and sync status), the sync  *)
(* state of the repository, and what it pushes to the UI.                  *)
(*                                                                         *)
(* The connection is its published state, which other tasks change at any  *)
(* moment; publishing Connected again is a new transport or a rotated id.  *)
(* A branch of the biased select may win although one above it became      *)
(* ready after it was polled, so no branch excludes another here.          *)
(***************************************************************************)
EXTENDS Naturals

CONSTANTS
    Msg,         \* messages of the remote peer
    MaxChanges   \* bound: changes of the connection state

ASSUME ManagerAssumption == MaxChanges \in Nat

VARIABLES
    pc,              \* where the actor is
    reply,           \* a caller waits for the result of the send under way
    cancelled,
    conn,            \* the published ChatConnectionState
    conn_seen,       \* conn_state_rx has seen it
    changes,         \* how often it was published
    report,          \* a task is about to report the current transport as dead
    synced,          \* the published sync status
    sync_seen,       \* sync_status_rx has seen it
    fresh,           \* sync_state was reset since conn was published
    out,             \* the message being sent is from a sync state fresh for conn
    greeted,         \* such a message was handed to the current transport
    msg_receiver,    \* a receiver has subscribed
    ui_conn, ui_sync,  \* what the receiver, if any, was told last
    doc, disk,       \* remote messages in the document and in the tables
    batch,           \* those that the message being received adds
    owed, shown,     \* those that arrived with a receiver set; those pushed to it
    reset_doc_state,
    gave_up          \* a received message failed and the document kept it

conn_vars == <<conn, conn_seen, changes, report>>
sync_vars == <<synced, sync_seen, fresh, out, greeted>>
ui_vars   == <<msg_receiver, ui_conn, ui_sync>>
doc_vars  == <<doc, disk, batch, owed, shown, reset_doc_state, gave_up>>
vars == <<pc, reply, cancelled, conn_vars, sync_vars, ui_vars, doc_vars>>

ConnState == {"Disconnected", "Reconnecting", "Connected"}

\* The repository may hold messages of earlier sessions; the connection is new
\* or was made from an accepted handle.
Init ==
    /\ pc = "start" /\ reply = FALSE /\ cancelled = FALSE
    /\ conn \in {"Disconnected", "Connected"}
    /\ conn_seen = TRUE /\ changes = 0 /\ report = FALSE
    /\ synced = FALSE /\ sync_seen = TRUE
    /\ fresh = FALSE /\ out = FALSE /\ greeted = FALSE
    /\ msg_receiver = FALSE /\ ui_conn = "Disconnected" /\ ui_sync = FALSE
    /\ disk \in SUBSET Msg /\ doc = disk /\ batch = {}
    /\ owed = {} /\ shown = {} /\ reset_doc_state = FALSE /\ gave_up = FALSE

-----------------------------------------------------------------------------
(* The connection's tasks.                                                 *)

\* A plausible slip: a report is not tied to the id of its transport.
Publish_keeps_report(s) ==
    /\ conn' = s
    /\ conn_seen' = FALSE
    /\ fresh' = FALSE /\ out' = FALSE /\ greeted' = FALSE
    /\ UNCHANGED <<report, synced, sync_seen>>

\* A new value for the watch: nothing is fresh for it yet, and a report on the
\* transport before it no longer matches.
Publish(s) ==
    /\ conn' = s
    /\ conn_seen' = FALSE
    /\ report' = FALSE
    /\ fresh' = FALSE /\ out' = FALSE /\ greeted' = FALSE
    /\ UNCHANGED <<synced, sync_seen>>

\* reconnect, update_handle (a switch or a rotation; also from the actor itself,
\* with PassAcceptedConnHandle), a failed dial, a lost transport.
connection_changes(s) ==
    /\ changes < MaxChanges
    /\ \/ conn = "Disconnected" /\ s \in {"Reconnecting", "Connected"}
       \/ conn = "Reconnecting" /\ s \in {"Disconnected", "Connected"}
       \/ conn = "Connected" /\ s \in {"Disconnected", "Connected"}
    /\ changes' = changes + 1
    /\ Publish(s)
    /\ UNCHANGED <<pc, reply, cancelled, ui_vars, doc_vars>>

\* set_state_disconnected_if_id_matches, spawned by a failed send or receive.
report_disconnected ==
    /\ report
    /\ Publish("Disconnected")
    /\ UNCHANGED <<pc, reply, cancelled, changes, ui_vars, doc_vars>>

cancel ==
    /\ cancelled' = TRUE
    /\ UNCHANGED <<pc, reply, conn_vars, sync_vars, ui_vars, doc_vars>>

-----------------------------------------------------------------------------
(* ChatRepository::generate_sync_message and the send that follows it.     *)

\* is_synced is published if it changed.  Whether there is something to send
\* is automerge's answer.
generate_sync_message(is_synced, is_fresh) ==
    /\ synced' = is_synced
    /\ sync_seen' = (sync_seen /\ synced = is_synced)
    /\ fresh' = is_fresh
    /\ UNCHANGED greeted

\* handle_outgoing_sync_message: conn.send_message waits for room.
StartSending(answer) ==
    /\ pc' = "sending"
    /\ reply' = answer
    /\ out' = fresh'

\* A caller that gave up makes the handler fail, and the actor ends.
Return == IF reply THEN {"select", "ending"} ELSE {"select"}

\* The message is handed to the transport, or there is none.
send_message_done ==
    /\ pc = "sending"
    /\ greeted' = (greeted \/ (out /\ conn = "Connected"))
    /\ out' = FALSE
    /\ pc' \in Return /\ reply' = FALSE
    /\ UNCHANGED <<cancelled, conn_vars, synced, sync_seen, fresh, ui_vars, doc_vars>>

\* The channel of the transport is closed; the failure is reported by id.
send_message_failed ==
    /\ pc = "sending" /\ conn = "Connected"
    /\ report' = TRUE
    /\ out' = FALSE
    /\ pc' \in Return /\ reply' = FALSE
    /\ UNCHANGED <<cancelled, conn, conn_seen, changes, synced, sync_seen, fresh, greeted,
                   ui_vars, doc_vars>>

-----------------------------------------------------------------------------
(* The branches of run().                                                  *)

ShowConn(s) == ui_conn' = IF msg_receiver THEN s ELSE ui_conn

\* A plausible slip: a state change does not reset the sync state.
handle_connection_state_change_keeps_sync ==
    /\ conn_seen' = TRUE
    /\ ShowConn(conn)
    /\ \/ /\ conn = "Connected"
          /\ \E is_synced \in BOOLEAN : generate_sync_message(is_synced, fresh)
          /\ StartSending(FALSE)
       \/ /\ conn # "Connected"
          /\ pc' = "select"
          /\ UNCHANGED <<reply, sync_vars>>
    /\ UNCHANGED <<cancelled, conn, changes, report, msg_receiver, ui_sync, doc_vars>>

\* The value is marked as seen and pushed; on a connection the sync starts
\* anew: reset_sync_state, then a message.
handle_connection_state_change ==
    /\ conn_seen' = TRUE
    /\ ShowConn(conn)
    /\ \/ /\ conn = "Connected"
          /\ \E is_synced \in BOOLEAN : generate_sync_message(is_synced, TRUE)
          /\ StartSending(FALSE)
       \/ /\ conn # "Connected"
          /\ pc' = "select"
          /\ UNCHANGED <<reply, sync_vars>>
    /\ UNCHANGED <<cancelled, conn, changes, report, msg_receiver, ui_sync, doc_vars>>

run_start ==
    /\ pc = "start"
    /\ handle_connection_state_change

conn_state_changed ==
    /\ pc = "select" /\ ~conn_seen
    /\ handle_connection_state_change

\* A plausible slip: the UI is only told that the sync is complete.
sync_status_changed_if_synced ==
    /\ pc = "select" /\ ~sync_seen
    /\ sync_seen' = TRUE
    /\ ui_sync' = (ui_sync \/ (msg_receiver /\ synced))
    /\ UNCHANGED <<pc, reply, cancelled, conn_vars, synced, fresh, out, greeted,
                   msg_receiver, ui_conn, doc_vars>>

sync_status_changed ==
    /\ pc = "select" /\ ~sync_seen
    /\ sync_seen' = TRUE
    /\ ui_sync' = IF msg_receiver THEN synced ELSE ui_sync
    /\ UNCHANGED <<pc, reply, cancelled, conn_vars, synced, fresh, out, greeted,
                   msg_receiver, ui_conn, doc_vars>>

\* A plausible slip: the tick marks the connection state as seen.
tick_marks_seen ==
    /\ pc = "select"
    /\ conn_seen' = TRUE
    /\ \/ /\ conn = "Connected"
          /\ \E is_synced \in BOOLEAN : generate_sync_message(is_synced, fresh)
          /\ StartSending(FALSE)
       \/ /\ conn # "Connected"
          /\ UNCHANGED <<pc, reply, sync_vars>>
    /\ UNCHANGED <<cancelled, conn, changes, report, ui_vars, doc_vars>>

\* The periodic sync.  The state is borrowed without marking it as seen.  A
\* Disconnected chat calls reconnect, whose task changes the state later.
tick ==
    /\ pc = "select"
    /\ conn = "Connected"
    /\ \E is_synced \in BOOLEAN : generate_sync_message(is_synced, fresh)
    /\ StartSending(FALSE)
    /\ UNCHANGED <<cancelled, conn_vars, ui_vars, doc_vars>>

\* A plausible slip: a subscription marks both values as seen.
handle_subscription_marks_seen ==
    /\ pc = "select"
    /\ msg_receiver' = TRUE
    /\ ui_sync' = synced /\ ui_conn' = conn
    /\ conn_seen' = TRUE /\ sync_seen' = TRUE
    /\ UNCHANGED <<pc, reply, cancelled, conn, changes, report, synced, fresh, out, greeted,
                   doc_vars>>

\* A new receiver is told both current values, which stay unseen if they are.
handle_subscription ==
    /\ pc = "select"
    /\ msg_receiver' = TRUE
    /\ ui_sync' = synced /\ ui_conn' = conn
    /\ UNCHANGED <<pc, reply, cancelled, conn_vars, sync_vars, doc_vars>>

\* InMessage::Single: the document changes, then the row is written.
handle_outgoing_message ==
    /\ pc = "select"
    /\ pc' = "adding"
    /\ UNCHANGED <<reply, cancelled, conn_vars, sync_vars, ui_vars, doc_vars>>

\* A row holds all unsaved changes, received ones included.
add_message_done ==
    /\ pc = "adding"
    /\ disk' = doc
    /\ \E is_synced \in BOOLEAN : generate_sync_message(is_synced, fresh)
    /\ StartSending(TRUE)
    /\ UNCHANGED <<cancelled, conn_vars, ui_vars, doc, batch, owed, shown, reset_doc_state,
                   gave_up>>

\* The error is the answer.  InMessage::All ends alike, and so does a closed
\* channel, in_rx or subscribe_rx: the handler fails, with nothing changed.
add_message_failed ==
    /\ pc = "adding"
    /\ pc' \in {"select", "ending"}
    /\ UNCHANGED <<reply, cancelled, conn_vars, sync_vars, ui_vars, doc_vars>>

\* conn.receive yields None: the transport is gone, and reported.
receive_none ==
    /\ pc = "select" /\ conn = "Connected"
    /\ report' = TRUE
    /\ UNCHANGED <<pc, reply, cancelled, conn, conn_seen, changes, sync_vars, ui_vars, doc_vars>>

\* handle_incomming_message, receive_sync_message(Some): the document takes
\* new messages, then they are written.  Undecodable bytes change nothing.
receive(new) ==
    /\ pc = "select" /\ conn = "Connected"
    /\ new \cap doc = {}
    /\ doc' = doc \cup new /\ batch' = new
    /\ owed' = IF msg_receiver THEN owed \cup new ELSE owed
    /\ pc' = "receiving"
    /\ UNCHANGED <<reply, cancelled, conn_vars, sync_vars, ui_vars, disk, shown, reset_doc_state,
                   gave_up>>

\* The row is written and the batch pushed; there is always an answer.
receive_done ==
    /\ pc = "receiving"
    /\ disk' = doc /\ batch' = {}
    /\ shown' = IF msg_receiver THEN shown \cup batch ELSE shown
    /\ reset_doc_state' = FALSE
    /\ \E is_synced \in BOOLEAN : generate_sync_message(is_synced, fresh)
    /\ StartSending(FALSE)
    /\ UNCHANGED <<cancelled, conn_vars, ui_vars, doc, owed, gave_up>>

\* receive_sync_message(None): answered only if there is something to send.
receive_empty ==
    /\ pc = "select" /\ conn = "Connected"
    /\ reset_doc_state' = FALSE
    /\ \/ generate_sync_message(FALSE, fresh) /\ StartSending(FALSE)
       \/ generate_sync_message(TRUE, fresh) /\ UNCHANGED <<pc, reply, out>>
    /\ UNCHANGED <<cancelled, conn_vars, ui_vars, doc, disk, batch, owed, shown, gave_up>>

\* The INSERT failed.  The first failure in a row leads to a reset from the
\* tables.
receive_failed ==
    /\ pc = "receiving"
    /\ batch' = {}
    /\ pc' = IF reset_doc_state THEN "select" ELSE "resetting"
    /\ gave_up' = (gave_up \/ reset_doc_state)
    /\ UNCHANGED <<reply, cancelled, conn_vars, sync_vars, ui_vars, doc, disk, owed, shown,
                   reset_doc_state>>

\* The row is written, but extract_new_messages_from_patches fails.
extract_failed ==
    /\ pc = "receiving"
    /\ disk' = doc /\ batch' = {}
    /\ pc' = IF reset_doc_state THEN "select" ELSE "resetting"
    /\ gave_up' = (gave_up \/ reset_doc_state \/ batch # {})
    /\ UNCHANGED <<reply, cancelled, conn_vars, sync_vars, ui_vars, doc, owed, shown,
                   reset_doc_state>>

\* A plausible slip: only the sync state is reset.
reset_doc_state_to_persisted_keeps_doc ==
    /\ pc = "resetting"
    /\ reset_doc_state' = TRUE
    /\ \E is_synced \in BOOLEAN : generate_sync_message(is_synced, TRUE)
    /\ StartSending(FALSE)
    /\ UNCHANGED <<cancelled, conn_vars, ui_vars, doc, disk, batch, owed, shown, gave_up>>

\* The document is loaded from the tables and the sync starts anew.
reset_doc_state_to_persisted ==
    /\ pc = "resetting"
    /\ doc' = disk
    /\ reset_doc_state' = TRUE
    /\ \E is_synced \in BOOLEAN : generate_sync_message(is_synced, TRUE)
    /\ StartSending(FALSE)
    /\ UNCHANGED <<cancelled, conn_vars, ui_vars, disk, batch, owed, shown, gave_up>>

reset_failed ==
    /\ pc = "resetting"
    /\ gave_up' = TRUE
    /\ pc' = "select"
    /\ UNCHANGED <<reply, cancelled, conn_vars, sync_vars, ui_vars, doc, disk, batch, owed, shown,
                   reset_doc_state>>

\* A plausible slip: the token is only polled while connected.
close_if_connected ==
    /\ pc = "ending" \/ (pc = "select" /\ cancelled /\ conn = "Connected")
    /\ pc' = "ended"
    /\ Publish("Disconnected")
    /\ UNCHANGED <<reply, cancelled, changes, ui_vars, doc_vars>>

\* The token is cancelled, or a handler failed: the connection is closed.
close ==
    /\ pc = "ending" \/ (pc = "select" /\ cancelled)
    /\ pc' = "ended"
    /\ Publish("Disconnected")
    /\ UNCHANGED <<reply, cancelled, changes, ui_vars, doc_vars>>

-----------------------------------------------------------------------------
\* The steps that a handler takes by itself once it has started.
handler ==
    \/ run_start
    \/ send_message_done \/ send_message_failed
    \/ add_message_done \/ add_message_failed
    \/ receive_done \/ receive_failed \/ extract_failed
    \/ reset_doc_state_to_persisted \/ reset_failed

Next ==
    \/ \E s \in ConnState : connection_changes(s)
    \/ report_disconnected \/ cancel
    \/ handler \/ close
    \/ conn_state_changed \/ sync_status_changed \/ tick
    \/ handle_subscription \/ handle_outgoing_message
    \/ receive_none \/ receive_empty
    \/ \E new \in SUBSET Msg : receive(new)

Spec == Init /\ [][Next]_vars

\* A handler ends: the database answers, and a send finds room or its
\* transport closes.  The select is biased: only the token, a tick every five
\* seconds and the sync status come before a connection state, so each of
\* these branches wins whenever its event keeps coming back.
Fairness ==
    /\ WF_vars(handler) /\ WF_vars(report_disconnected)
    /\ SF_vars(close) /\ SF_vars(conn_state_changed) /\ SF_vars(sync_status_changed)

FairSpec == Spec /\ Fairness

-----------------------------------------------------------------------------
\* The variables have their types, and pending work exists only where a
\* handler left it (batch while receiving, an answer while sending).
TypeOK ==
    /\ pc \in {"start", "select", "sending", "adding", "receiving", "resetting", "ending", "ended"}
    /\ reply \in BOOLEAN /\ (reply => pc = "sending")
    /\ cancelled \in BOOLEAN
    /\ conn \in ConnState /\ conn_seen \in BOOLEAN /\ changes \in 0..MaxChanges
    /\ report \in BOOLEAN /\ (report => conn = "Connected")
    /\ synced \in BOOLEAN /\ sync_seen \in BOOLEAN
    /\ fresh \in BOOLEAN /\ greeted \in BOOLEAN
    /\ out \in BOOLEAN /\ (out => pc = "sending")
    /\ msg_receiver \in BOOLEAN
    /\ ui_conn \in ConnState /\ ui_sync \in BOOLEAN
    /\ doc \in SUBSET Msg /\ disk \in SUBSET doc
    /\ batch \in SUBSET doc /\ (batch # {} => pc = "receiving")
    /\ owed \in SUBSET Msg /\ shown \in SUBSET Msg
    /\ reset_doc_state \in BOOLEAN /\ gave_up \in BOOLEAN

\* Once a receiver has subscribed, a watch value that the actor counts as seen
\* is the one the UI was told last ("UI Reactivity", manager.rs:13): no branch
\* consumes a change without passing it on.
UiIsCurrent ==
    (msg_receiver /\ pc # "start") =>
        /\ conn_seen => ui_conn = conn
        /\ sync_seen => ui_sync = synced

\* Whenever the actor waits in its select and has seen that it is connected,
\* the sync state was reset for this very transport (or rotated id) and a
\* message generated from it was handed to the transport, or the transport is
\* being reported as dead.  So what the previous transport lost is sent again,
\* although ticks, received messages and local sends may use the new transport
\* before the change is handled.
SeenTransportIsGreeted ==
    (pc = "select" /\ conn = "Connected" /\ conn_seen) => fresh /\ (greeted \/ report)

\* A message that arrives while a receiver is set is pushed to it or leaves
\* the document again, to be received later.  Only when two receives in a row
\* fail, the reset after a failure fails, or a stored message cannot be read
\* back, can one stay unseen.
OnlyFailuresHide ==
    (pc = "select" /\ ~gave_up) => doc \cap owed \subseteq shown

\* The UI learns the connection state and the sync status, or the manager ends.
UiCatchesUp ==
    /\ msg_receiver /\ ui_conn # conn ~> ui_conn = conn \/ pc = "ended"
    /\ msg_receiver /\ ui_sync # synced ~> ui_sync = synced \/ pc = "ended"

\* A transport that is published is greeted with a fresh sync message, unless
\* it goes away or the manager ends.
TransportsAreGreeted ==
    conn = "Connected" ~> greeted \/ conn # "Connected" \/ pc = "ended"

\* A cancelled manager ends and closes its connection.
CancelledManagerEnds == cancelled ~> pc = "ended"
==============================================================================
