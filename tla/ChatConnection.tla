---------------------------- MODULE ChatConnection ----------------------------
(***************************************************************************)
(* One `ChatConnection` (src/protocols/chat.rs): the state behind its      *)
(* RwLock, the watch channel that publishes it, the tasks it spawns        *)
(* (`reconnect` tasks that dial, disconnect reports) and the parties that  *)
(* use it: the ChatManager actor that sends, receives, ticks, hands over   *)
(* accepted transports and finally closes it, the ChatProtocol actor that  *)
(* answers dial requests, and the transports, which may end at any moment. *)
(*                                                                         *)
(* A write section of the code changes the state, then publishes it to the *)
(* watch channel before it lets go of the lock; readers of the channel do  *)
(* not take the lock.  The two halves are two steps here: the lock is held *)
(* exactly while the watch differs from the state.                         *)
(***************************************************************************)
EXTENDS Glare, Sequences

CONSTANTS
    Conn,      \* transports that may be established, each at most once
    NoConn,    \* stands for the absence of a transport
    Task,      \* slots for concurrent `reconnect` tasks
    LocalId, RemoteId

ASSUME ConnAssumption ==
    /\ NoConn \notin Conn
    /\ LocalId \in Int /\ RemoteId \in Int /\ LocalId # RemoteId

VARIABLES
    state,     \* InternalConnState
    handle,    \* the handle inside InternalConnState::Connected
    watch,     \* value of state_notifier / state_subscriber
    origin,    \* ChatConnectionHandle.origin, "None" before establishment
    id,        \* ChatConnectionHandle.id, 0 before establishment
    next_id,   \* the next Uuid::new_v4()
    cancelled, \* transports whose cancel_token is cancelled
    dead,      \* transports whose pump tasks have ended
    task,      \* program counter of every `reconnect` task
    reply,     \* the handle in the oneshot of an answered dial request
    inbox,     \* accepted handles on their way to update_handle
    call,      \* the send_message or receive the manager is inside of
    reports,   \* pending set_state_disconnected_if_id_matches tasks
    manager,   \* the ChatManager actor that owns the connection
    protocol   \* the ChatProtocol actor

vars == <<state, handle, watch, origin, id, next_id, cancelled, dead, task,
          reply, inbox, call, reports, manager, protocol>>

conn_vars  == <<origin, id, next_id, cancelled, dead>>
actor_vars == <<inbox, call, manager, protocol>>

-----------------------------------------------------------------------------
States     == {"Disconnected", "Connected", "Reconnecting"}
TaskPhases == {"idle", "spawned", "requesting", "dialing", "answered"}
InProgress == {"requesting", "dialing", "answered"}
NoCall     == [op |-> "none", conn |-> NoConn, id |-> 0]
Calls      == [op : {"send", "receive"}, conn : Conn, id : Nat] \cup {NoCall}

Established == {c \in Conn : origin[c] # "None"}
InInbox(c)  == \E i \in 1..Len(inbox) : inbox[i] = c

\* ChatConnectionState::from(&InternalConnState)
public_state ==
    [kind |-> state, id |-> IF state = "Connected" THEN id[handle] ELSE 0]

LockFree == watch = public_state

\* Nobody holds a clone of the ChatConnection any more, so it is dropped.
Dropped ==
    /\ manager = "gone"
    /\ reports = {}
    /\ \A t \in Task : task[t] = "idle"

\* A sender half of the transport's write channel is still alive somewhere.
Held(c) ==
    \/ c = handle /\ ~Dropped
    \/ \E t \in Task : reply[t] = c
    \/ InInbox(c)
    \/ call.op = "send" /\ call.conn = c

-----------------------------------------------------------------------------
\* ChatConnection::new followed by its reconnect(), or ChatConnection::new_connected
\* with an accepted handle.
Init ==
    /\ reply = [t \in Task |-> NoConn]
    /\ cancelled = {}
    /\ dead = {}
    /\ inbox = <<>>
    /\ call = NoCall
    /\ reports = {}
    /\ manager = "running"
    /\ protocol = "running"
    /\ \/ /\ state = "Disconnected"
          /\ handle = NoConn
          /\ origin = [c \in Conn |-> "None"]
          /\ id = [c \in Conn |-> 0]
          /\ next_id = 1
          /\ \E t \in Task : task = [u \in Task |-> IF u = t THEN "spawned" ELSE "idle"]
       \/ \E h \in Conn :
             /\ state = "Connected"
             /\ handle = h
             /\ origin = [c \in Conn |-> IF c = h THEN "Accept" ELSE "None"]
             /\ id = [c \in Conn |-> IF c = h THEN 1 ELSE 0]
             /\ next_id = 2
             /\ task = [t \in Task |-> "idle"]
    /\ watch = public_state

-----------------------------------------------------------------------------
(* The write sections on `state`.                                          *)

\* state_notifier.send_modify / send_if_modified, still under the write lock
notify ==
    /\ ~LockFree
    /\ watch' = public_state
    /\ UNCHANGED <<state, handle, conn_vars, task, reply, reports, actor_vars>>

\* A plausible slip: the superseded transport is not shut down.
update_handle_without_shutdown(c) ==
    /\ LockFree
    /\ state' = "Connected"
    /\ handle' = c
    /\ UNCHANGED <<id, next_id, cancelled>>

\* The glare between the current handle and c is decided against c.
Rejects(c) ==
    state = "Connected" /\ ~should_switch(LocalId, RemoteId, origin[handle], origin[c])

\* Install the new handle and shut the old one down, or, when the glare is
\* decided against it, shut the new one down and rotate the current id.
update_handle(c) ==
    /\ LockFree
    /\ \/ /\ ~Rejects(c)
          /\ cancelled' = cancelled \cup ({handle} \ {NoConn})
          /\ state' = "Connected"
          /\ handle' = c
          /\ UNCHANGED <<id, next_id>>
       \/ /\ Rejects(c)
          /\ cancelled' = cancelled \cup {c}
          /\ id' = [id EXCEPT ![handle] = next_id]
          /\ next_id' = next_id + 1
          /\ UNCHANGED <<state, handle>>

\* set_state(Disconnected): what close() does
set_state_disconnected ==
    /\ LockFree
    /\ cancelled' = cancelled \cup ({handle} \ {NoConn})
    /\ state' = "Disconnected"
    /\ handle' = NoConn

\* A plausible slip: the state is overwritten whatever it is.
set_state_if_reconnecting_unchecked ==
    /\ LockFree
    /\ state' = "Disconnected"
    /\ UNCHANGED handle

\* set_state_if_reconnecting(Disconnected)
set_state_if_reconnecting ==
    /\ LockFree
    /\ state' = IF state = "Reconnecting" THEN "Disconnected" ELSE state
    /\ UNCHANGED handle

\* A plausible slip: the identifier is not compared.
report_without_id_check(i) ==
    /\ i \in reports
    /\ LockFree
    /\ reports' = reports \ {i}
    /\ cancelled' = cancelled \cup ({handle} \ {NoConn})
    /\ state' = IF state = "Connected" THEN "Disconnected" ELSE state
    /\ handle' = NoConn
    /\ UNCHANGED <<watch, origin, id, next_id, dead, task, reply, actor_vars>>

\* The disconnect task spawned by a failed send or receive
set_state_disconnected_if_id_matches(i) ==
    /\ i \in reports
    /\ LockFree
    /\ reports' = reports \ {i}
    /\ \/ /\ state = "Connected" /\ id[handle] = i
          /\ cancelled' = cancelled \cup {handle}
          /\ state' = "Disconnected"
          /\ handle' = NoConn
       \/ /\ ~(state = "Connected" /\ id[handle] = i)
          /\ UNCHANGED <<cancelled, state, handle>>
    /\ UNCHANGED <<watch, origin, id, next_id, dead, task, reply, actor_vars>>

-----------------------------------------------------------------------------
(* The task spawned by reconnect().                                        *)

\* set_state_if_disconnected(Reconnecting), giving up when it returns false
reconnect_start(t) ==
    /\ task[t] = "spawned"
    /\ LockFree
    /\ \/ /\ state = "Disconnected"
          /\ state' = "Reconnecting"
          /\ task' = [task EXCEPT ![t] = "requesting"]
       \/ /\ state # "Disconnected"
          /\ task' = [task EXCEPT ![t] = "idle"]
          /\ UNCHANGED state
    /\ UNCHANGED <<handle, watch, conn_vars, reply, reports, actor_vars>>

\* proto_tx.send(ConnectionRequest::Dial) succeeds
reconnect_request(t) ==
    /\ task[t] = "requesting"
    /\ task' = [task EXCEPT ![t] = "dialing"]
    /\ UNCHANGED <<state, handle, watch, conn_vars, reply, reports, actor_vars>>

\* A plausible slip: the task ends without leaving Reconnecting.
reconnect_request_forgets_state(t) ==
    /\ task[t] = "requesting"
    /\ protocol = "stopped"
    /\ task' = [task EXCEPT ![t] = "idle"]
    /\ UNCHANGED <<state, handle, watch, conn_vars, reply, reports, actor_vars>>

\* proto_tx.send fails because the protocol actor has dropped the receiver
reconnect_request_fails(t) ==
    /\ task[t] = "requesting"
    /\ protocol = "stopped"
    /\ set_state_if_reconnecting
    /\ task' = [task EXCEPT ![t] = "idle"]
    /\ UNCHANGED <<watch, conn_vars, reply, reports, actor_vars>>

\* rx.await returned Ok(Ok(handle))
reconnect_dialed(t) ==
    /\ task[t] = "answered" /\ reply[t] # NoConn
    /\ update_handle(reply[t])
    /\ task' = [task EXCEPT ![t] = "idle"]
    /\ reply' = [reply EXCEPT ![t] = NoConn]
    /\ UNCHANGED <<watch, origin, dead, reports, actor_vars>>

\* A plausible slip: the task dials again by itself instead of ending, and so
\* keeps its clone of the connection.
reconnect_retries_forever(t) ==
    /\ task[t] = "answered" /\ reply[t] = NoConn
    /\ LockFree
    /\ task' = [task EXCEPT ![t] = "requesting"]
    /\ UNCHANGED <<state, handle, watch, conn_vars, reply, reports, actor_vars>>

\* rx.await returned Ok(Err(_)) or Err(_)
reconnect_failed(t) ==
    /\ task[t] = "answered" /\ reply[t] = NoConn
    /\ set_state_if_reconnecting
    /\ task' = [task EXCEPT ![t] = "idle"]
    /\ UNCHANGED <<watch, conn_vars, reply, reports, actor_vars>>

-----------------------------------------------------------------------------
(* The ChatProtocol actor and the transports it establishes.               *)

\* process_established_connection: a handle with a fresh id whose token is a
\* child of the actor's, so it is born cancelled once the actor was shut down
process_established_connection(c, conn_origin) ==
    /\ origin[c] = "None"
    /\ origin' = [origin EXCEPT ![c] = conn_origin]
    /\ id' = [id EXCEPT ![c] = next_id]
    /\ next_id' = next_id + 1
    /\ cancelled' = IF protocol = "stopped" THEN cancelled \cup {c} ELSE cancelled
    /\ UNCHANGED dead

\* dial_endpoint succeeds; respond_to carries the handle
dial_endpoint(t, c) ==
    /\ task[t] = "dialing"
    /\ process_established_connection(c, "Dial")
    /\ task' = [task EXCEPT ![t] = "answered"]
    /\ reply' = [reply EXCEPT ![t] = c]
    /\ UNCHANGED <<state, handle, watch, reports, actor_vars>>

\* dial_endpoint fails, or the actor drops respond_to with its queue
dial_endpoint_fails(t) ==
    /\ task[t] = "dialing"
    /\ task' = [task EXCEPT ![t] = "answered"]
    /\ UNCHANGED <<state, handle, watch, conn_vars, reply, reports, actor_vars>>

\* An incoming transport goes through accept_conn and pass_accepted_conn_handle
\* to the manager's queue, or is dropped with the message when nobody listens.
accept_conn(c) ==
    /\ process_established_connection(c, "Accept")
    /\ inbox' = IF manager = "gone" THEN inbox ELSE Append(inbox, c)
    /\ UNCHANGED <<state, handle, watch, task, reply, call, reports, manager, protocol>>

\* ChatProtocol::shutdown cancels the parent token and with it every child.
protocol_shutdown ==
    /\ protocol = "running"
    /\ protocol' = "stopped"
    /\ cancelled' = cancelled \cup Established
    /\ UNCHANGED <<state, handle, watch, origin, id, next_id, dead, task, reply,
                   inbox, call, reports, manager>>

\* A pump task of the transport ends and the monitor task closes it: the peer
\* closed it, the network failed, the token was cancelled, or every sender of
\* the write channel is gone.
transport_ends(c) ==
    /\ c \in Established \ dead
    /\ dead' = dead \cup {c}
    /\ UNCHANGED <<state, handle, watch, origin, id, next_id, cancelled, task,
                   reply, reports, actor_vars>>

-----------------------------------------------------------------------------
(* The ChatManager actor.  It is sequential: while it waits for room in a  *)
(* write channel it does nothing else, and any other branch of its select  *)
(* that fires drops a receive() that is still waiting.                     *)

ManagerFree == manager = "running" /\ call.op # "send"

\* A plausible slip: the tick leaves a disconnected chat alone.
tick_reconnect_when_reconnecting ==
    /\ ManagerFree
    /\ watch.kind = "Reconnecting"
    /\ \E t \in Task :
          /\ task[t] = "idle"
          /\ task' = [task EXCEPT ![t] = "spawned"]
    /\ call' = NoCall
    /\ UNCHANGED <<state, handle, watch, conn_vars, reply, inbox, reports, manager, protocol>>

\* sync_interval.tick() with a watch that reads Disconnected: reconnect()
tick_reconnect ==
    /\ ManagerFree
    /\ watch.kind = "Disconnected"
    /\ \E t \in Task :
          /\ task[t] = "idle"
          /\ task' = [task EXCEPT ![t] = "spawned"]
    /\ call' = NoCall
    /\ UNCHANGED <<state, handle, watch, conn_vars, reply, inbox, reports, manager, protocol>>

\* send_message clones tx and the id under the read lock, or returns at once
\* when there is no connection.
send_message ==
    /\ ManagerFree
    /\ LockFree
    /\ call' = IF state = "Connected"
               THEN [op |-> "send", conn |-> handle, id |-> id[handle]]
               ELSE NoCall
    /\ UNCHANGED <<state, handle, watch, conn_vars, task, reply, inbox, reports, manager, protocol>>

\* receive clones rx and the id under the read lock.  It is only polled while
\* the watch reads Connected, and returns None at once when the state does not.
receive ==
    /\ ManagerFree
    /\ call = NoCall
    /\ watch.kind = "Connected"
    /\ LockFree
    /\ call' = [op |-> "receive", conn |-> handle, id |-> id[handle]]
    /\ UNCHANGED <<state, handle, watch, conn_vars, task, reply, inbox, reports, manager, protocol>>

\* tx.send(msg) found room, or rx.recv() returned a message
call_returns ==
    /\ call # NoCall
    /\ call' = NoCall
    /\ UNCHANGED <<state, handle, watch, conn_vars, task, reply, inbox, reports, manager, protocol>>

\* A plausible slip: the failure is reported for the handle that is current
\* now, not for the one whose channel was closed.
call_fails_for_current(op) ==
    /\ call.op = op
    /\ call.conn \in dead
    /\ call' = NoCall
    /\ reports' = IF state = "Connected" THEN reports \cup {id[handle]} ELSE reports
    /\ UNCHANGED <<state, handle, watch, conn_vars, task, reply, inbox, manager, protocol>>

\* A plausible slip: a closed read channel is only logged.
call_fails_silently(op) ==
    /\ call.op = op
    /\ call.conn \in dead
    /\ call' = NoCall
    /\ UNCHANGED <<state, handle, watch, conn_vars, task, reply, inbox, reports, manager, protocol>>

\* The channel is closed: spawn set_state_disconnected_if_id_matches with the
\* id that was read together with the channel.
call_fails(op) ==
    /\ call.op = op
    /\ call.conn \in dead
    /\ call' = NoCall
    /\ reports' = reports \cup {call.id}
    /\ UNCHANGED <<state, handle, watch, conn_vars, task, reply, inbox, manager, protocol>>

\* InMessage::PassAcceptedConnHandle
pass_accepted_conn_handle ==
    /\ ManagerFree
    /\ inbox # <<>>
    /\ update_handle(Head(inbox))
    /\ inbox' = Tail(inbox)
    /\ call' = NoCall
    /\ UNCHANGED <<watch, origin, dead, task, reply, reports, manager, protocol>>

\* The cancel branch of run: close() and return
manager_cancelled ==
    /\ ManagerFree
    /\ set_state_disconnected
    /\ manager' = "exiting"
    /\ call' = NoCall
    /\ UNCHANGED <<watch, origin, id, next_id, dead, task, reply, inbox, reports, protocol>>

\* run returns an error because a caller dropped its oneshot receiver
manager_fails ==
    /\ ManagerFree
    /\ manager' = "exiting"
    /\ call' = NoCall
    /\ UNCHANGED <<state, handle, watch, conn_vars, task, reply, inbox, reports, protocol>>

\* actor.conn.close() after run, then the actor and its queue are dropped
close ==
    /\ manager = "exiting"
    /\ set_state_disconnected
    /\ manager' = "gone"
    /\ inbox' = <<>>
    /\ UNCHANGED <<watch, origin, id, next_id, dead, task, reply, call, reports, protocol>>

-----------------------------------------------------------------------------
reconnect(t) ==
    \/ reconnect_start(t)
    \/ reconnect_request(t)
    \/ reconnect_request_fails(t)
    \/ reconnect_dialed(t)
    \/ reconnect_failed(t)

run ==
    \/ tick_reconnect
    \/ send_message
    \/ receive
    \/ call_returns
    \/ call_fails("send")
    \/ call_fails("receive")
    \/ pass_accepted_conn_handle
    \/ manager_cancelled
    \/ manager_fails
    \/ close

Next ==
    \/ notify
    \/ \E i \in reports : set_state_disconnected_if_id_matches(i)
    \/ \E t \in Task : reconnect(t)
    \/ \E t \in Task, c \in Conn : dial_endpoint(t, c)
    \/ \E t \in Task : dial_endpoint_fails(t)
    \/ \E c \in Conn : accept_conn(c)
    \/ \E c \in Conn : transport_ends(c)
    \/ protocol_shutdown
    \/ run

Spec == Init /\ [][Next]_vars

\* Every spawned task is run by the runtime; a dial ends one way or the other
\* (the QUIC handshake times out); a cancelled or abandoned transport is closed
\* by its monitor task; the interval keeps ticking; a manager that left its
\* loop closes the connection.  The select of the manager reaches its last
\* branch, receive, again and again: strong fairness, because a tick or a
\* queued message may drop the receive future any number of times.
Fairness ==
    /\ WF_vars(notify)
    /\ WF_vars(\E i \in reports : set_state_disconnected_if_id_matches(i))
    /\ \A t \in Task :
          /\ WF_vars(reconnect(t))
          /\ WF_vars(dial_endpoint_fails(t) \/ \E c \in Conn : dial_endpoint(t, c))
    /\ \A c \in Conn : WF_vars((c \in cancelled \/ ~Held(c)) /\ transport_ends(c))
    /\ SF_vars(tick_reconnect)
    /\ SF_vars(receive)
    /\ SF_vars(call_fails("receive"))
    /\ WF_vars(call.op = "send" /\ (call_returns \/ call_fails("send")))
    /\ WF_vars(close)

FairSpec == Spec /\ Fairness

-----------------------------------------------------------------------------
(* Properties.                                                             *)

\* Every variable holds a value of its Rust type, and a handle is present
\* exactly in InternalConnState::Connected.
TypeOK ==
    /\ state \in States
    /\ handle \in Conn \cup {NoConn}
    /\ (state = "Connected") = (handle # NoConn)
    /\ watch \in [kind : States, id : Nat]
    /\ origin \in [Conn -> ConnOrigin \cup {"None"}]
    /\ id \in [Conn -> Nat]
    /\ next_id \in Nat \ {0}
    /\ cancelled \in SUBSET Conn
    /\ dead \in SUBSET Conn
    /\ task \in [Task -> TaskPhases]
    /\ reply \in [Task -> Conn \cup {NoConn}]
    /\ inbox \in Seq(Conn)
    /\ call \in Calls
    /\ reports \in SUBSET Nat
    /\ manager \in {"running", "exiting", "gone"}
    /\ protocol \in {"running", "stopped"}

\* "Only a single transport is maintained per peer pair": while the manager
\* lives, an established transport that is neither the current one nor still
\* on its way to update_handle has been told to shut down.  Refreshes, glare
\* in both directions, stale dials and disconnect reports all keep this.
SupersededIsCancelled ==
    \A c \in Established :
        \/ c \in cancelled
        \/ c = handle
        \/ \E t \in Task : reply[t] = c
        \/ InInbox(c)
        \/ manager = "gone"

\* Reconnecting is never a dead end: whenever the state says so, some reconnect
\* task is past its first check and has yet to report the outcome of a dial.
\* The tick does nothing in Reconnecting, so without this the chat would stay
\* offline for good.
ReconnectingHasDialer ==
    state = "Reconnecting" => \E t \in Task : task[t] \in InProgress

\* A disconnect report names the handle it was read with: if that identifier
\* is still in use, the transport it belongs to has really ended.
ReportsAreTrue ==
    \A i \in reports : \A c \in Established : id[c] = i => c \in dead

\* A transport that still works is given up only for another one (refresh or
\* glare) or because the manager is closing the chat: a report about an older
\* transport, a late failed dial or an identifier rotated in between never
\* disconnects it.
HealthyTransportKept ==
    [][ \/ handle = NoConn
        \/ handle \in dead
        \/ handle' = handle
        \/ handle' # NoConn
        \/ manager' # "running" ]_vars

\* A running manager notices that its transport has ended and gives it up,
\* whatever glare rotates the identifier in the meantime.
DeadTransportNoticed ==
    \A c \in Conn :
        handle = c /\ c \in dead ~> handle # c \/ manager # "running"

\* A running manager whose chat is disconnected dials again.
DisconnectedIsLeft ==
    state = "Disconnected" /\ manager = "running"
        ~> state # "Disconnected" \/ manager # "running"

\* Once the manager is gone every transport of the chat ends, the ones
\* included that a dial still in progress installs after close().
ShutdownReleasesTransports ==
    \A c \in Conn :
        manager = "gone" /\ c \in Established ~> c \in dead
==============================================================================
