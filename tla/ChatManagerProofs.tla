-------------------------- MODULE ChatManagerProofs --------------------------
(***************************************************************************)
(* Safety of the ChatManager actor for any messages and any number of      *)
(* connection changes: the UI is current, a transport that was seen was    *)
(* greeted, and only repeated failures hide a message.                     *)
(***************************************************************************)
EXTENDS ChatManager, TLAPS

-----------------------------------------------------------------------------
(* The inductive invariant.                                                *)

\* What the UI was told is current; before the loop nobody has subscribed.
Ui ==
    /\ pc = "start" => ~msg_receiver
    /\ UiIsCurrent

\* A seen transport is greeted already, or by the send under way.
Greeting ==
    (pc # "start" /\ conn = "Connected" /\ conn_seen) =>
        fresh /\ (greeted \/ report \/ (pc = "sending" /\ out))

\* What the receiver has not been shown is in the batch being received, or only
\* in memory and about to be dropped by the reset.
Hiding ==
    /\ ~msg_receiver => owed = {}
    /\ ~gave_up => /\ disk \cap owed \subseteq shown
                   /\ pc # "resetting" => doc \cap owed \subseteq shown \cup batch

IInv == TypeOK /\ Ui /\ Greeting /\ Hiding

\* What Publish does, as facts about Boolean values.
LEMMA Published ==
    ASSUME TypeOK, NEW s, Publish(s)
    PROVE  /\ conn' = s
           /\ conn_seen' \in BOOLEAN /\ ~conn_seen' /\ report' \in BOOLEAN /\ ~report'
           /\ fresh' \in BOOLEAN /\ ~fresh' /\ out' \in BOOLEAN /\ ~out'
           /\ greeted' \in BOOLEAN /\ ~greeted'
           /\ synced' \in BOOLEAN /\ sync_seen' \in BOOLEAN
           /\ UNCHANGED <<synced, sync_seen>>
  BY Zenon DEF TypeOK, Publish

\* What generate_sync_message does.
LEMMA Generated ==
    ASSUME TypeOK, NEW is_synced \in BOOLEAN, NEW is_fresh \in BOOLEAN,
           generate_sync_message(is_synced, is_fresh)
    PROVE  /\ synced' \in BOOLEAN /\ sync_seen' \in BOOLEAN
           /\ sync_seen' => sync_seen /\ synced' = synced
           /\ fresh' \in BOOLEAN /\ (fresh' <=> is_fresh)
           /\ greeted' \in BOOLEAN /\ greeted' = greeted
  BY Zenon DEF TypeOK, generate_sync_message

\* What it does together with the start of the send.
LEMMA Sends ==
    ASSUME TypeOK, NEW is_fresh \in BOOLEAN, NEW answer \in BOOLEAN,
           \E is_synced \in BOOLEAN : generate_sync_message(is_synced, is_fresh),
           StartSending(answer)
    PROVE  /\ synced' \in BOOLEAN /\ sync_seen' \in BOOLEAN
           /\ sync_seen' => sync_seen /\ synced' = synced
           /\ fresh' \in BOOLEAN /\ (fresh' <=> is_fresh)
           /\ greeted' \in BOOLEAN /\ greeted' = greeted
           /\ pc' = "sending" /\ reply' \in BOOLEAN
           /\ out' \in BOOLEAN /\ (out' <=> is_fresh)
<1>1. PICK is_synced \in BOOLEAN : generate_sync_message(is_synced, is_fresh)
  OBVIOUS
<1>2. fresh' \in BOOLEAN /\ (fresh' <=> is_fresh)
  BY <1>1, Generated
<1>3. pc' = "sending" /\ reply' \in BOOLEAN /\ out' \in BOOLEAN /\ (out' <=> is_fresh)
  BY <1>2, Zenon DEF StartSending
<1> QED
  BY <1>1, <1>3, Generated

\* Every step keeps the types.
LEMMA TypeStep ==
    ASSUME TypeOK, [Next]_vars PROVE TypeOK'
<1> USE ManagerAssumption DEF TypeOK, ConnState, conn_vars, sync_vars, ui_vars, doc_vars
<1>1. ASSUME NEW s \in ConnState, connection_changes(s) PROVE TypeOK'
  BY <1>1, Published DEF connection_changes
<1>2. CASE report_disconnected
  BY <1>2, Published DEF report_disconnected
<1>3. CASE cancel
  BY <1>3 DEF cancel
<1>4. CASE run_start \/ conn_state_changed
  <2>1. conn_seen' \in BOOLEAN
    BY <1>4, Zenon DEF run_start, conn_state_changed, handle_connection_state_change
  <2>2. CASE conn = "Connected"
    BY <1>4, <2>1, <2>2, Sends, ZenonT(40)
    DEF run_start, conn_state_changed, handle_connection_state_change, ShowConn
  <2>3. CASE conn # "Connected"
    <3>1. /\ pc' = "select" /\ ~reply /\ ~out /\ pc # "receiving"
          /\ UNCHANGED <<reply, synced, sync_seen, fresh, out, greeted>>
      BY <1>4, <2>3 DEF run_start, conn_state_changed, handle_connection_state_change
    <3>2. /\ ui_conn' \in ConnState
          /\ UNCHANGED <<cancelled, conn, changes, report, msg_receiver, ui_sync, doc_vars>>
      BY <1>4 DEF run_start, conn_state_changed, handle_connection_state_change, ShowConn
    <3> QED
      BY <2>1, <3>1, <3>2
  <2> QED
    BY <2>2, <2>3
<1>6. CASE send_message_done
  <2>1. /\ greeted' \in BOOLEAN /\ out' \in BOOLEAN /\ ~out' /\ reply' \in BOOLEAN /\ ~reply'
    BY <1>6, Zenon DEF send_message_done
  <2> QED
    BY <1>6, <2>1 DEF send_message_done, Return
<1>7. CASE send_message_failed
  <2>1. /\ report' \in BOOLEAN /\ out' \in BOOLEAN /\ ~out' /\ reply' \in BOOLEAN /\ ~reply'
    BY <1>7, Zenon DEF send_message_failed
  <2> QED
    BY <1>7, <2>1 DEF send_message_failed, Return
<1>8. CASE add_message_done
  BY <1>8, Sends, ZenonT(40) DEF add_message_done
<1>9. CASE add_message_failed
  BY <1>9 DEF add_message_failed
<1>10. CASE receive_done
  <2>1. reset_doc_state' \in BOOLEAN
    BY <1>10, Zenon DEF receive_done
  <2> QED
    BY <1>10, <2>1, Sends, ZenonT(40) DEF receive_done
<1>11. CASE receive_failed
  BY <1>11 DEF receive_failed
<1>12. CASE reset_doc_state_to_persisted
  BY <1>12, Sends, ZenonT(40) DEF reset_doc_state_to_persisted
<1>13. CASE reset_failed
  BY <1>13 DEF reset_failed
<1>14. CASE close
  BY <1>14 DEF close, Publish
<1>15. CASE sync_status_changed
  BY <1>15 DEF sync_status_changed
<1>16. CASE tick
  BY <1>16, Sends, ZenonT(40) DEF tick
<1>17. CASE handle_subscription
  BY <1>17 DEF handle_subscription
<1>18. CASE handle_outgoing_message
  BY <1>18 DEF handle_outgoing_message
<1>19. CASE receive_none
  BY <1>19 DEF receive_none
<1>20. CASE receive_empty
  <2>1. reset_doc_state' \in BOOLEAN
    BY <1>20, Zenon DEF receive_empty
  <2>2. CASE generate_sync_message(FALSE, fresh) /\ StartSending(FALSE)
    BY <1>20, <2>1, <2>2, Sends DEF receive_empty
  <2>3. CASE generate_sync_message(TRUE, fresh) /\ UNCHANGED <<pc, reply, out>>
    BY <1>20, <2>1, <2>3, Generated DEF receive_empty
  <2> QED
    BY <1>20, <2>2, <2>3 DEF receive_empty
<1>21. ASSUME NEW new \in SUBSET Msg, receive(new) PROVE TypeOK'
  BY <1>21 DEF receive
<1>22. CASE UNCHANGED vars
  BY <1>22 DEF vars
<1>23. CASE extract_failed
  BY <1>23 DEF extract_failed
<1> QED
  BY <1>1, <1>2, <1>3, <1>4, <1>6, <1>7, <1>8, <1>9, <1>10, <1>11, <1>12, <1>13,
     <1>14, <1>15, <1>16, <1>17, <1>18, <1>19, <1>20, <1>21, <1>22, <1>23 DEF Next, handler

\* What handling a connection state does.
LEMMA Handled ==
    ASSUME TypeOK, run_start \/ conn_state_changed
    PROVE  /\ pc \in {"start", "select"} /\ pc' \in {"select", "sending"}
           /\ conn_seen' \in BOOLEAN /\ conn_seen'
           /\ ui_conn' = IF msg_receiver THEN conn ELSE ui_conn
           /\ sync_seen' => sync_seen /\ synced' = synced
           /\ conn = "Connected" => fresh' /\ out' /\ pc' = "sending"
           /\ UNCHANGED <<conn, report, msg_receiver, ui_sync, doc_vars>>
<1> USE DEF run_start, conn_state_changed, handle_connection_state_change
<1>1. conn_seen' \in BOOLEAN /\ conn_seen'
  BY Zenon
<1>2. CASE conn = "Connected"
  <2>1. /\ \E is_synced \in BOOLEAN : generate_sync_message(is_synced, TRUE)
        /\ StartSending(FALSE)
    BY <1>2
  <2>2. /\ sync_seen' => sync_seen /\ synced' = synced
        /\ fresh' /\ out' /\ pc' = "sending"
    BY <2>1, Sends
  <2> QED
    BY <1>1, <2>2 DEF ShowConn
<1>3. CASE conn # "Connected"
  <2>1. pc' = "select" /\ UNCHANGED <<synced, sync_seen>>
    BY <1>3 DEF sync_vars
  <2> QED
    BY <1>1, <1>3, <2>1 DEF ShowConn
<1> QED
  BY <1>2, <1>3

\* What the actions that generate a message from the current sync state, or from
\* a reset one, do to the connection and the sync variables.
LEMMA Answered ==
    ASSUME TypeOK,
           tick \/ add_message_done \/ receive_done \/ reset_doc_state_to_persisted
             \/ receive_empty
    PROVE  /\ pc \in {"select", "adding", "receiving", "resetting"}
           /\ pc' \in {"select", "sending"}
           /\ sync_seen' => sync_seen /\ synced' = synced
           /\ fresh => fresh'
           /\ greeted' = greeted
           /\ UNCHANGED <<conn, conn_seen, report, msg_receiver, ui_conn, ui_sync>>
<1> USE DEF conn_vars, ui_vars
<1>0. fresh \in BOOLEAN
  BY DEF TypeOK
<1>1. CASE tick
  BY <1>0, <1>1, Sends DEF tick
<1>2. CASE add_message_done
  BY <1>0, <1>2, Sends DEF add_message_done
<1>3. CASE receive_done
  BY <1>0, <1>3, Sends DEF receive_done
<1>4. CASE reset_doc_state_to_persisted
  BY <1>4, Sends DEF reset_doc_state_to_persisted
<1>5. CASE receive_empty
  <2>1. CASE generate_sync_message(FALSE, fresh) /\ StartSending(FALSE)
    BY <1>0, <1>5, <2>1, Sends DEF receive_empty
  <2>2. CASE generate_sync_message(TRUE, fresh) /\ UNCHANGED <<pc, reply, out>>
    BY <1>0, <1>5, <2>2, Generated DEF receive_empty
  <2> QED
    BY <1>5, <2>1, <2>2 DEF receive_empty
<1> QED
  BY <1>1, <1>2, <1>3, <1>4, <1>5

\* What publishing a connection state does to the rest.
LEMMA Replaced ==
    ASSUME TypeOK, (\E s \in ConnState : connection_changes(s)) \/ report_disconnected \/ close
    PROVE  /\ ~conn_seen'
           /\ pc' = pc \/ (pc' = "ended" /\ pc \in {"select", "ending"})
           /\ UNCHANGED <<synced, sync_seen, ui_vars, doc_vars>>
<1>1. ASSUME NEW s \in ConnState, connection_changes(s)
      PROVE  ~conn_seen' /\ pc' = pc /\ UNCHANGED <<synced, sync_seen, ui_vars, doc_vars>>
  BY <1>1, Published DEF connection_changes
<1>2. CASE report_disconnected
  BY <1>2, Published DEF report_disconnected
<1>3. CASE close
  BY <1>3, Published DEF close
<1> QED
  BY <1>1, <1>2, <1>3

\* The other actions leave the watch values and what was told of them alone.
Plain ==
    \/ cancel \/ handle_outgoing_message \/ add_message_failed \/ receive_none
    \/ receive_failed \/ extract_failed \/ reset_failed
    \/ \E new \in SUBSET Msg : receive(new)
    \/ UNCHANGED vars

\* Every step is of one of these kinds.
LEMMA NextCases ==
    ASSUME [Next]_vars
    PROVE  \/ (\E s \in ConnState : connection_changes(s)) \/ report_disconnected \/ close
           \/ run_start \/ conn_state_changed
           \/ tick \/ add_message_done \/ receive_done \/ reset_doc_state_to_persisted
           \/ receive_empty
           \/ send_message_done \/ send_message_failed
           \/ sync_status_changed \/ handle_subscription
           \/ Plain
  BY DEF Next, handler, Plain

\* What the plain actions have in common.
LEMMA PlainSteps ==
    ASSUME TypeOK, Plain
    PROVE  /\ pc' = pc \/ (pc \in {"select", "adding", "receiving", "resetting"} /\ pc' # "start")
           /\ report => report'
           /\ UNCHANGED <<conn, conn_seen, synced, sync_seen, fresh, out, greeted, ui_vars>>
<1> USE DEF conn_vars, sync_vars, ui_vars
<1>1. CASE cancel
  BY <1>1 DEF cancel
<1>2. CASE handle_outgoing_message
  BY <1>2 DEF handle_outgoing_message
<1>3. CASE add_message_failed
  BY <1>3 DEF add_message_failed
<1>4. CASE receive_none
  BY <1>4 DEF receive_none
<1>5. CASE receive_failed
  BY <1>5 DEF receive_failed
<1>6. CASE reset_failed
  BY <1>6 DEF reset_failed
<1>7. ASSUME NEW new \in SUBSET Msg, receive(new)
      PROVE  /\ pc = "select" /\ pc' = "receiving" /\ report' = report
             /\ UNCHANGED <<conn, conn_seen, synced, sync_seen, fresh, out, greeted, ui_vars>>
  BY <1>7 DEF receive
<1>8. CASE extract_failed
  BY <1>8 DEF extract_failed
<1>9. CASE UNCHANGED vars
  BY <1>9 DEF vars
<1> QED
  BY <1>1, <1>2, <1>3, <1>4, <1>5, <1>6, <1>7, <1>8, <1>9 DEF Plain

\* No step consumes a watch value without telling the UI.
LEMMA UiStep ==
    ASSUME TypeOK, Ui, [Next]_vars PROVE Ui'
<1> USE DEF Ui, UiIsCurrent
<1>1. CASE (\E s \in ConnState : connection_changes(s)) \/ report_disconnected \/ close
  BY <1>1, Replaced DEF ui_vars
<1>2. CASE run_start \/ conn_state_changed
  BY <1>2, Handled
<1>3. CASE tick \/ add_message_done \/ receive_done \/ reset_doc_state_to_persisted
             \/ receive_empty
  BY <1>3, Answered
<1>4. CASE send_message_done \/ send_message_failed
  <2>1. /\ pc = "sending" /\ pc' # "start"
        /\ UNCHANGED <<conn, conn_seen, synced, sync_seen, ui_vars>>
    BY <1>4 DEF send_message_done, send_message_failed, Return, conn_vars
  <2> QED
    BY <2>1 DEF ui_vars
<1>5. CASE sync_status_changed
  BY <1>5 DEF sync_status_changed, conn_vars
<1>6. CASE handle_subscription
  BY <1>6 DEF handle_subscription, conn_vars, sync_vars
<1>7. CASE Plain
  BY <1>7, PlainSteps DEF ui_vars
<1> QED
  BY <1>1, <1>2, <1>3, <1>4, <1>5, <1>6, <1>7, NextCases

\* No step forgets that a seen transport has to be greeted.
LEMMA GreetingStep ==
    ASSUME TypeOK, Greeting, [Next]_vars PROVE Greeting'
<1>0. out => pc = "sending"
  BY DEF TypeOK
<1>1. CASE (\E s \in ConnState : connection_changes(s)) \/ report_disconnected \/ close
  BY <1>1, Replaced DEF Greeting
<1>2. CASE run_start \/ conn_state_changed
  BY <1>2, Handled DEF Greeting
<1>3. CASE tick \/ add_message_done \/ receive_done \/ reset_doc_state_to_persisted
             \/ receive_empty
  BY <1>0, <1>3, Answered DEF Greeting
<1>4. CASE send_message_done
  <2>1. /\ conn = "Connected" /\ (greeted \/ out) => greeted'
        /\ pc = "sending" /\ UNCHANGED <<conn, conn_seen, report, fresh>>
    BY <1>4 DEF send_message_done, conn_vars
  <2> QED
    BY <2>1 DEF Greeting
<1>5. CASE send_message_failed
  <2>1. report' /\ pc = "sending" /\ UNCHANGED <<conn, conn_seen, fresh>>
    BY <1>5 DEF send_message_failed
  <2> QED
    BY <2>1 DEF Greeting
<1>6. CASE sync_status_changed
  BY <1>6 DEF sync_status_changed, conn_vars, Greeting
<1>7. CASE handle_subscription
  BY <1>7 DEF handle_subscription, conn_vars, sync_vars, Greeting
<1>8. CASE Plain
  BY <1>0, <1>8, PlainSteps DEF Greeting
<1> QED
  BY <1>1, <1>2, <1>3, <1>4, <1>5, <1>6, <1>7, <1>8, NextCases

\* No step loses a message on its way to the receiver, except a second failure.
LEMMA HidingStep ==
    ASSUME TypeOK, Hiding, [Next]_vars PROVE Hiding'
<1>0. /\ disk \subseteq doc /\ (pc # "receiving" => batch = {})
      /\ msg_receiver \in BOOLEAN /\ gave_up \in BOOLEAN /\ reset_doc_state \in BOOLEAN
  BY DEF TypeOK
<1>1. ASSUME UNCHANGED <<doc, disk, batch, owed, shown, gave_up>>,
             pc = "resetting" => pc' = "resetting", msg_receiver => msg_receiver'
      PROVE  Hiding'
  BY <1>1 DEF Hiding
<1>2. CASE \/ (\E s \in ConnState : connection_changes(s)) \/ report_disconnected \/ close
           \/ run_start \/ conn_state_changed
  BY <1>1, <1>2, Replaced, Handled DEF ui_vars, doc_vars
<1>3. CASE send_message_done \/ send_message_failed \/ sync_status_changed
             \/ handle_subscription
  <2>1. /\ UNCHANGED doc_vars /\ pc \in {"sending", "select"}
        /\ msg_receiver => msg_receiver'
    BY <1>3 DEF send_message_done, send_message_failed, sync_status_changed,
                handle_subscription, ui_vars
  <2> QED
    BY <1>1, <2>1 DEF doc_vars
<1>4. CASE tick \/ receive_empty
  <2>1. /\ UNCHANGED <<doc, disk, batch, owed, shown, gave_up, msg_receiver>>
        /\ pc = "select"
    BY <1>4 DEF tick, receive_empty, ui_vars, doc_vars
  <2> QED
    BY <1>1, <2>1
<1>5. CASE add_message_done
  <2>1. /\ disk' = doc /\ pc = "adding" /\ pc' = "sending"
        /\ UNCHANGED <<doc, batch, owed, shown, gave_up, msg_receiver>>
    BY <1>5 DEF add_message_done, StartSending, ui_vars
  <2> QED
    BY <1>0, <2>1 DEF Hiding
<1>6. CASE receive_done
  <2>1. /\ disk' = doc /\ batch' = {} /\ pc = "receiving" /\ pc' = "sending"
        /\ shown' = IF msg_receiver THEN shown \cup batch ELSE shown
        /\ UNCHANGED <<doc, owed, gave_up, msg_receiver>>
    BY <1>6 DEF receive_done, StartSending, ui_vars
  <2> QED
    BY <2>1 DEF Hiding
<1>7. CASE reset_doc_state_to_persisted
  <2>1. /\ doc' = disk /\ pc = "resetting" /\ pc' = "sending"
        /\ UNCHANGED <<disk, batch, owed, shown, gave_up, msg_receiver>>
    BY <1>7 DEF reset_doc_state_to_persisted, StartSending, ui_vars
  <2> QED
    BY <2>1 DEF Hiding
<1>8. CASE receive_failed
  <2>1. /\ batch' = {} /\ pc = "receiving"
        /\ gave_up' \/ pc' = "resetting"
        /\ gave_up => gave_up'
        /\ UNCHANGED <<doc, disk, owed, shown, msg_receiver>>
    BY <1>0, <1>8 DEF receive_failed, ui_vars
  <2> QED
    BY <2>1 DEF Hiding
<1>9. CASE reset_failed
  <2>1. gave_up' /\ UNCHANGED <<owed, msg_receiver>>
    BY <1>9 DEF reset_failed, ui_vars
  <2> QED
    BY <2>1 DEF Hiding
<1>10. ASSUME NEW new \in SUBSET Msg, receive(new) PROVE Hiding'
  <2>1. /\ pc = "select" /\ new \cap doc = {} /\ doc' = doc \cup new /\ batch' = new
        /\ owed' = IF msg_receiver THEN owed \cup new ELSE owed
        /\ UNCHANGED <<disk, shown, gave_up, msg_receiver>>
    BY <1>10 DEF receive, ui_vars
  <2> QED
    BY <1>0, <2>1 DEF Hiding
<1>11. CASE cancel \/ handle_outgoing_message \/ add_message_failed \/ receive_none
              \/ UNCHANGED vars
  <2>1. /\ UNCHANGED <<doc_vars, msg_receiver>>
        /\ pc' = pc \/ pc \in {"select", "adding"}
    BY <1>11 DEF cancel, handle_outgoing_message, add_message_failed, receive_none, ui_vars,
                 vars
  <2> QED
    BY <1>1, <2>1 DEF doc_vars
<1>12. CASE extract_failed
  <2>1. /\ disk' = doc /\ batch' = {} /\ pc = "receiving"
        /\ gave_up' \/ (~gave_up /\ batch = {})
        /\ UNCHANGED <<doc, owed, shown, msg_receiver>>
    BY <1>0, <1>12 DEF extract_failed, ui_vars
  <2> QED
    BY <2>1 DEF Hiding
<1> QED
  BY <1>2, <1>3, <1>4, <1>5, <1>6, <1>7, <1>8, <1>9, <1>10, <1>11, <1>12, NextCases
  DEF Plain

\* The inductive invariant holds in every reachable state.
LEMMA Invariance == Spec => []IInv
<1>1. Init => IInv
  <2> SUFFICES ASSUME Init PROVE IInv
    OBVIOUS
  <2>1. /\ reply \in BOOLEAN /\ ~reply /\ cancelled \in BOOLEAN /\ conn_seen \in BOOLEAN
        /\ report \in BOOLEAN /\ ~report /\ synced \in BOOLEAN /\ sync_seen \in BOOLEAN
        /\ fresh \in BOOLEAN /\ out \in BOOLEAN /\ ~out /\ greeted \in BOOLEAN
        /\ msg_receiver \in BOOLEAN /\ ui_sync \in BOOLEAN
        /\ reset_doc_state \in BOOLEAN /\ gave_up \in BOOLEAN
    BY Zenon DEF Init
  <2>2. TypeOK
    BY <2>1, ManagerAssumption DEF Init, TypeOK, ConnState
  <2> QED
    BY <2>2 DEF Init, IInv, Ui, UiIsCurrent, Greeting, Hiding
<1>2. IInv /\ [Next]_vars => IInv'
  BY TypeStep, UiStep, GreetingStep, HidingStep DEF IInv
<1> QED
  BY <1>1, <1>2, PTL DEF Spec

-----------------------------------------------------------------------------
(* The theorems.                                                           *)

\* Every reachable state of the actor is well typed.
THEOREM TypeCorrect == Spec => []TypeOK
<1>1. IInv => TypeOK
  BY DEF IInv
<1> QED
  BY <1>1, Invariance, PTL

\* A watch value that the actor counts as seen is the one the UI was told last.
THEOREM UiStaysCurrent == Spec => []UiIsCurrent
<1>1. IInv => UiIsCurrent
  BY DEF IInv, Ui
<1> QED
  BY <1>1, Invariance, PTL

\* A manager waiting in its select has restarted the sync on the transport it
\* sees, or the transport is being reported as dead.
THEOREM TransportsStayGreeted == Spec => []SeenTransportIsGreeted
<1>1. IInv => SeenTransportIsGreeted
  BY DEF IInv, Greeting, SeenTransportIsGreeted
<1> QED
  BY <1>1, Invariance, PTL

\* Unless a failure was followed by another or met a stored message, the receiver
\* is shown every message that arrived for it and stayed in the document.
THEOREM MessagesAreShown == Spec => []OnlyFailuresHide
<1>1. IInv => OnlyFailuresHide
  BY DEF IInv, TypeOK, Hiding, OnlyFailuresHide
<1> QED
  BY <1>1, Invariance, PTL
==============================================================================
