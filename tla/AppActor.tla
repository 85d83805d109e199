------------------------------- MODULE AppActor -------------------------------
(***************************************************************************)
(* The Application (src/app.rs) with all its chats: the AppActor and its   *)
(* request channel, the table of ChatManagers, the ChatProtocol actor that *)
(* every chat shares, the tasks of the UI that call in through FFI, and    *)
(* shutdown().                                                             *)
(*                                                                         *)
(* A UI task may give up a call at any moment (its future is dropped); the *)
(* request then stays where it is, with nobody waiting for the answer.     *)
(* What a ChatConnection does in detail is in module ChatConnection: here  *)
(* a chat is Disconnected, Reconnecting (a dial is queued or under way) or *)
(* Connected.                                                              *)
(***************************************************************************)
EXTENDS Integers, Sequences, FiniteSets, Functions

CONSTANTS
    Peer,
    Caller,          \* tasks of the UI, each in at most one call
    Shutter,         \* tasks that call shutdown()
    CHANNEL_BUFFER,  \* capacity of a manager's in_rx
    MaxIncoming,     \* bound: accepted connections on their way to a manager
    Gone,            \* stands for a caller that gave up
    Handle,          \* stands for an accepted connection handle
    NoPeer

ASSUME AppAssumption ==
    /\ CHANNEL_BUFFER \in Nat \ {0} /\ MaxIncoming \in Nat
    /\ Gone \notin Caller /\ Handle \notin Caller /\ Gone # Handle
    /\ NoPeer \notin Peer

VARIABLES
    call,           \* [Caller -> where its last call is]
    peer,           \* [Caller -> the chat its last call is about]
    request_rx,     \* the AppActor's channel, of capacity 1
    app,            \* where the AppActor is
    job,            \* what handle_chat_manager was called with
    chat_managers,  \* [Peer -> the state of the manager's actor, or "none"]
    in_rx,          \* [Peer -> the manager's requests; the head stays while it is handled]
    conn,           \* [Peer -> ChatConnectionState]
    requests,       \* queue of the ChatProtocol actor
    accept_rx,      \* accepted handles, by peer
    protocol,       \* where the ChatProtocol actor is
    cancelled,      \* the application's cancel token
    pool,           \* the SqlitePool
    join            \* [Shutter -> where its call of shutdown() is]

app_vars      == <<request_rx, app, job>>
manager_vars  == <<chat_managers, in_rx, conn>>
protocol_vars == <<requests, accept_rx, protocol>>
caller_vars   == <<call, peer>>
stop_vars     == <<cancelled, pool, join>>
vars == <<caller_vars, app_vars, manager_vars, protocol_vars, stop_vars>>

NoJob == [peer |-> NoPeer, who |-> Gone]

\* ConnectionRequest
Dial(p)   == [kind |-> "Dial", peer |-> p]
Accept(p) == [kind |-> "Accept", peer |-> p]

Init ==
    /\ call = [c \in Caller |-> "done"]
    /\ peer = [c \in Caller |-> NoPeer]
    /\ request_rx = <<>> /\ app = "select" /\ job = NoJob
    /\ chat_managers = [p \in Peer |-> "none"]
    /\ in_rx = [p \in Peer |-> <<>>]
    /\ conn = [p \in Peer |-> "Disconnected"]
    /\ requests = <<>> /\ accept_rx = <<>> /\ protocol = "select"
    /\ cancelled = FALSE /\ pool = "open"
    /\ join = [s \in Shutter |-> "idle"]

-----------------------------------------------------------------------------
(* Answers.  The sender of a oneshot answers, or is dropped: an error.     *)

Answer(who, result) ==
    /\ call' = [c \in Caller |-> IF c = who THEN result ELSE call[c]]
    /\ peer' = [c \in Caller |-> IF c = who THEN NoPeer ELSE peer[c]]

Waiting(c) == call[c] \in {"opening", "queued", "calling", "sent"}

Finished(c) == ~Waiting(c)

\* The last reference to the Application went away without shutdown().
Dropped == app \in {"router", "ended"} /\ pool = "open"

Alive(p) == chat_managers[p] \notin {"none", "ended"}

\* The manager's actor waits for the database.
Querying(p) == chat_managers[p] \in {"writing", "receiving"}

\* It waits in send_message for room in the queue of its transport.
Sending(p) == chat_managers[p] \in {"replying", "sending"}

\* It has taken the first request of its channel and not answered it.
InHand(p) == chat_managers[p] \in {"writing", "replying"}

-----------------------------------------------------------------------------
(* The UI's calls.                                                         *)

\* Application::chat_manager, also from receive_tryst_invite: wait for room
\* in the AppActor's channel.
chat_manager(c, p) ==
    /\ Finished(c) /\ ~Dropped
    /\ call' = [call EXCEPT ![c] = "opening"]
    /\ peer' = [peer EXCEPT ![c] = p]
    /\ UNCHANGED <<app_vars, manager_vars, protocol_vars, stop_vars>>

\* A plausible slip: the channel takes any number of requests.
chat_manager_sent_unbounded(c) ==
    /\ call[c] = "opening"
    /\ app # "ended"
    /\ request_rx' = Append(request_rx, [peer |-> peer[c], who |-> c])
    /\ call' = [call EXCEPT ![c] = "queued"]
    /\ UNCHANGED <<peer, app, job, manager_vars, protocol_vars, stop_vars>>

chat_manager_sent(c) ==
    /\ call[c] = "opening"
    /\ app # "ended"
    /\ request_rx = <<>>
    /\ request_rx' = <<[peer |-> peer[c], who |-> c]>>
    /\ call' = [call EXCEPT ![c] = "queued"]
    /\ UNCHANGED <<peer, app, job, manager_vars, protocol_vars, stop_vars>>

\* The AppActor is gone, and the receiver of the channel with it.
chat_manager_refused(c) ==
    /\ call[c] = "opening"
    /\ app = "ended"
    /\ Answer(c, "done")
    /\ UNCHANGED <<app_vars, manager_vars, protocol_vars, stop_vars>>

\* ChatManager::send_message or get_all_messages, by a task that got the
\* manager from the AppActor.
manager_call(c, p) ==
    /\ Finished(c)
    /\ chat_managers[p] # "none"
    /\ call' = [call EXCEPT ![c] = "calling"]
    /\ peer' = [peer EXCEPT ![c] = p]
    /\ UNCHANGED <<app_vars, manager_vars, protocol_vars, stop_vars>>

\* Room in in_rx; the request in hand has left the channel.
Room(p) == Len(in_rx[p]) < CHANNEL_BUFFER + (IF InHand(p) THEN 1 ELSE 0)

manager_call_sent(c) ==
    /\ call[c] = "calling"
    /\ Alive(peer[c]) /\ Room(peer[c])
    /\ in_rx' = [in_rx EXCEPT ![peer[c]] = Append(@, c)]
    /\ call' = [call EXCEPT ![c] = "sent"]
    /\ UNCHANGED <<peer, app_vars, chat_managers, conn, protocol_vars, stop_vars>>

manager_call_refused(c) ==
    /\ call[c] = "calling"
    /\ chat_managers[peer[c]] = "ended"
    /\ Answer(c, "done")
    /\ UNCHANGED <<app_vars, manager_vars, protocol_vars, stop_vars>>

enqueue(c) ==
    \/ chat_manager_sent(c) \/ chat_manager_refused(c)
    \/ manager_call_sent(c) \/ manager_call_refused(c)

\* The future of a call is dropped.  A request that was sent stays, its
\* oneshot has no receiver any more.
give_up(c) ==
    LET Abandon(w) == IF w = c THEN Gone ELSE w
    IN  /\ Waiting(c)
        /\ Answer(c, "done")
        /\ request_rx' = [i \in DOMAIN request_rx |->
                             [request_rx[i] EXCEPT !.who = Abandon(@)]]
        /\ job' = [job EXCEPT !.who = Abandon(@)]
        /\ in_rx' = [p \in Peer |-> [i \in DOMAIN in_rx[p] |-> Abandon(in_rx[p][i])]]
        /\ UNCHANGED <<app, chat_managers, conn, protocol_vars, stop_vars>>

-----------------------------------------------------------------------------
(* The AppActor: run(), a biased select, and handle_chat_manager().        *)

\* A request is taken unless the token is cancelled.  A manager in the table
\* is returned as it is; otherwise the repository is opened.
handle_actor_request ==
    /\ app = "select" /\ ~cancelled
    /\ request_rx # <<>>
    /\ request_rx' = <<>>
    /\ LET r == Head(request_rx)
       IN  \/ /\ chat_managers[r.peer] # "none"
              /\ Answer(r.who, "ok")
              /\ UNCHANGED <<app, job>>
           \/ /\ chat_managers[r.peer] = "none"
              /\ app' = "opening" /\ job' = r
              /\ UNCHANGED caller_vars
    /\ UNCHANGED <<manager_vars, protocol_vars, stop_vars>>

\* accept_conn() yields a handle: it goes to the manager in the table, or a
\* manager is created around it.
handle_accepted ==
    /\ app = "select" /\ ~cancelled
    /\ request_rx = <<>> /\ accept_rx # <<>>
    /\ accept_rx' = Tail(accept_rx)
    /\ job' = [peer |-> Head(accept_rx), who |-> Handle]
    /\ app' = IF chat_managers[Head(accept_rx)] = "none" THEN "opening" ELSE "passing"
    /\ UNCHANGED <<caller_vars, request_rx, manager_vars, requests, protocol, stop_vars>>

\* A plausible slip: the actor waits for room even if the manager is gone.
pass_accepted_conn_handle_waits ==
    /\ app = "passing"
    /\ Alive(job.peer) /\ Room(job.peer)
    /\ in_rx' = [in_rx EXCEPT ![job.peer] = Append(@, Handle)]
    /\ app' = "select" /\ job' = NoJob
    /\ UNCHANGED <<caller_vars, request_rx, chat_managers, conn, protocol_vars, stop_vars>>

\* pass_accepted_conn_handle waits for room; the handle is dropped, and its
\* connection with it, if the manager's actor is gone.
pass_accepted_conn_handle ==
    /\ app = "passing"
    /\ \/ /\ Alive(job.peer) /\ Room(job.peer)
          /\ in_rx' = [in_rx EXCEPT ![job.peer] = Append(@, Handle)]
       \/ /\ chat_managers[job.peer] = "ended"
          /\ UNCHANGED in_rx
    /\ app' = "select" /\ job' = NoJob
    /\ UNCHANGED <<caller_vars, request_rx, chat_managers, conn, protocol_vars, stop_vars>>

\* ChatRepository::new succeeded: a manager with ChatConnection::new, whose
\* task asks for a dial, or with ChatConnection::new_connected.
manager_created ==
    /\ app = "opening"
    /\ chat_managers' = [chat_managers EXCEPT ![job.peer] = "running"]
    /\ conn' = [conn EXCEPT ![job.peer] = IF job.who = Handle THEN "Connected"
                                                              ELSE "Reconnecting"]
    /\ requests' = IF job.who = Handle THEN requests ELSE Append(requests, Dial(job.peer))
    /\ Answer(job.who, "ok")
    /\ app' = "select" /\ job' = NoJob
    /\ UNCHANGED <<request_rx, in_rx, accept_rx, protocol, stop_vars>>

\* ChatRepository::new failed: the caller gets the error, a handle is dropped.
manager_not_created ==
    /\ app = "opening"
    /\ Answer(job.who, "done")
    /\ app' = "select" /\ job' = NoJob
    /\ UNCHANGED <<request_rx, manager_vars, protocol_vars, stop_vars>>

\* The token is cancelled: db_pool.close() refuses new queries ...
run_cancelled ==
    /\ app = "select" /\ cancelled
    /\ app' = "closing"
    /\ pool' = "closing"
    /\ UNCHANGED <<caller_vars, request_rx, job, manager_vars, protocol_vars, cancelled, join>>

\* A plausible slip: close() does not wait for the queries under way.
pool_closed_at_once ==
    /\ app = "closing"
    /\ pool' = "closed"
    /\ app' = "router"
    /\ UNCHANGED <<caller_vars, request_rx, job, manager_vars, protocol_vars, cancelled, join>>

\* ... and returns once those under way have returned their connections.
pool_closed ==
    /\ app = "closing"
    /\ \A p \in Peer : ~Querying(p)
    /\ pool' = "closed"
    /\ app' = "router"
    /\ UNCHANGED <<caller_vars, request_rx, job, manager_vars, protocol_vars, cancelled, join>>

\* cleanup(): router.shutdown() waits for the ChatProtocol actor and closes
\* the endpoint with all connections; then the AppActor is dropped, with the
\* request that may still be in its channel.
cleanup ==
    /\ app = "router"
    /\ protocol = "ended"
    /\ app' = "ended"
    /\ Answer(IF request_rx = <<>> THEN Gone ELSE Head(request_rx).who, "done")
    /\ request_rx' = <<>>
    /\ accept_rx' = <<>>
    /\ conn' = [p \in Peer |-> "Disconnected"]
    /\ UNCHANGED <<job, chat_managers, in_rx, requests, protocol, stop_vars>>

\* The Application is dropped: its channel closes, and run() returns an error
\* without closing the pool.
application_dropped ==
    /\ app = "select" /\ ~cancelled
    /\ request_rx = <<>>
    /\ \A c \in Caller : call[c] \notin {"opening", "queued"}
    /\ \A s \in Shutter : join[s] = "idle"
    /\ app' = "router"
    /\ UNCHANGED <<caller_vars, request_rx, job, manager_vars, protocol_vars, stop_vars>>

app_actor ==
    \/ handle_actor_request \/ handle_accepted \/ pass_accepted_conn_handle
    \/ manager_created \/ manager_not_created
    \/ run_cancelled \/ pool_closed \/ cleanup

-----------------------------------------------------------------------------
(* shutdown(): cancel, take the actor's join handle if it is still there,  *)
(* and wait for it.  A second caller finds no handle and returns at once.  *)

HandleTaken == \E s \in Shutter : join[s] \in {"joining", "returned"}

\* A plausible slip: the actor is awaited before the token is cancelled.
shutdown_awaits_first(s) ==
    /\ join[s] = "idle" /\ ~Dropped
    /\ join' = [join EXCEPT ![s] = IF HandleTaken THEN "duplicate" ELSE "joining"]
    /\ UNCHANGED <<caller_vars, app_vars, manager_vars, protocol_vars, cancelled, pool>>

shutdown(s) ==
    /\ join[s] = "idle" /\ ~Dropped
    /\ cancelled' = TRUE
    /\ join' = [join EXCEPT ![s] = IF HandleTaken THEN "duplicate" ELSE "joining"]
    /\ UNCHANGED <<caller_vars, app_vars, manager_vars, protocol_vars, pool>>

shutdown_complete(s) ==
    /\ join[s] = "joining"
    /\ app = "ended"
    /\ join' = [join EXCEPT ![s] = "returned"]
    /\ UNCHANGED <<caller_vars, app_vars, manager_vars, protocol_vars, cancelled, pool>>

-----------------------------------------------------------------------------
(* The actor of a ChatManager, as far as the application sees it.          *)

\* A plausible slip: callers whose requests are still queued hear nothing.
End_silent(p) ==
    /\ chat_managers' = [chat_managers EXCEPT ![p] = "ended"]
    /\ conn' = [conn EXCEPT ![p] = "Disconnected"]
    /\ in_rx' = [in_rx EXCEPT ![p] = <<>>]
    /\ UNCHANGED caller_vars

\* The actor ends: the connection is closed and in_rx dropped, so every call
\* that is still queued fails.
End(p) ==
    /\ chat_managers' = [chat_managers EXCEPT ![p] = "ended"]
    /\ conn' = [conn EXCEPT ![p] = "Disconnected"]
    /\ in_rx' = [in_rx EXCEPT ![p] = <<>>]
    /\ call' = [c \in Caller |-> IF c \in Range(in_rx[p]) THEN "done" ELSE call[c]]
    /\ peer' = [c \in Caller |-> IF c \in Range(in_rx[p]) THEN NoPeer ELSE peer[c]]

manager_cancelled(p) ==
    /\ chat_managers[p] = "running" /\ cancelled
    /\ End(p)
    /\ UNCHANGED <<app_vars, protocol_vars, stop_vars>>

\* in_rx is closed: the table was dropped with the AppActor and the UI has
\* let go of its clones.
manager_orphaned(p) ==
    /\ chat_managers[p] = "running" /\ app = "ended"
    /\ in_rx[p] = <<>>
    /\ \A c \in Caller : call[c] # "calling" \/ peer[c] # p
    /\ End(p)
    /\ UNCHANGED <<app_vars, protocol_vars, stop_vars>>

\* The answer goes to a caller; without one the handler fails and run() ends.
Reply(p) ==
    \/ /\ Head(in_rx[p]) # Gone
       /\ Answer(Head(in_rx[p]), "done")
       /\ in_rx' = [in_rx EXCEPT ![p] = Tail(@)]
       /\ chat_managers' = [chat_managers EXCEPT ![p] = "running"]
       /\ UNCHANGED conn
    \/ /\ Head(in_rx[p]) = Gone
       /\ End(p)

\* An accepted handle replaces the connection's transport; a call needs the
\* database (add_message), or is answered from memory or with an error.
handle_outgoing_message(p) ==
    /\ chat_managers[p] = "running" /\ ~cancelled
    /\ in_rx[p] # <<>>
    /\ \/ /\ Head(in_rx[p]) = Handle
          /\ conn' = [conn EXCEPT ![p] = "Connected"]
          /\ in_rx' = [in_rx EXCEPT ![p] = Tail(@)]
          /\ UNCHANGED <<caller_vars, chat_managers>>
       \/ /\ Head(in_rx[p]) # Handle
          /\ pool = "open"
          /\ chat_managers' = [chat_managers EXCEPT ![p] = "writing"]
          /\ UNCHANGED <<caller_vars, in_rx, conn>>
       \/ /\ Head(in_rx[p]) # Handle
          /\ Reply(p)
    /\ UNCHANGED <<app_vars, protocol_vars, stop_vars>>

\* The message is stored: the caller is answered, but if the chat is connected
\* only after the sync message is sent.
add_message_done(p) ==
    /\ chat_managers[p] = "writing"
    /\ \/ Reply(p)
       \/ /\ conn[p] = "Connected"
          /\ chat_managers' = [chat_managers EXCEPT ![p] = "replying"]
          /\ UNCHANGED <<caller_vars, in_rx, conn>>
    /\ UNCHANGED <<app_vars, protocol_vars, stop_vars>>

\* A message of the peer, after those of in_rx, is stored.
handle_incomming_message(p) ==
    /\ chat_managers[p] = "running" /\ ~cancelled
    /\ in_rx[p] = <<>> /\ conn[p] = "Connected"
    /\ pool = "open"
    /\ chat_managers' = [chat_managers EXCEPT ![p] = "receiving"]
    /\ UNCHANGED <<caller_vars, app_vars, in_rx, conn, protocol_vars, stop_vars>>

\* The message is stored, and a reply may be sent.
receive_sync_message_done(p) ==
    /\ chat_managers[p] = "receiving"
    /\ \/ chat_managers' = [chat_managers EXCEPT ![p] = "running"]
       \/ /\ conn[p] = "Connected"
          /\ chat_managers' = [chat_managers EXCEPT ![p] = "sending"]
    /\ UNCHANGED <<caller_vars, app_vars, in_rx, conn, protocol_vars, stop_vars>>

\* The tick, or a change of the connection's state, sends a sync message.
handle_outgoing_sync_message(p) ==
    /\ chat_managers[p] = "running" /\ ~cancelled
    /\ conn[p] = "Connected"
    /\ chat_managers' = [chat_managers EXCEPT ![p] = "sending"]
    /\ UNCHANGED <<caller_vars, app_vars, in_rx, conn, protocol_vars, stop_vars>>

\* send_message returns: the peer made room, or the transport's queue closed.
\* The token is not polled meanwhile.
send_message_done(p) ==
    /\ \/ chat_managers[p] = "replying" /\ Reply(p)
       \/ /\ chat_managers[p] = "sending"
          /\ chat_managers' = [chat_managers EXCEPT ![p] = "running"]
          /\ UNCHANGED <<caller_vars, in_rx, conn>>
    /\ UNCHANGED <<app_vars, protocol_vars, stop_vars>>

\* The queue is closed: the transport is lost, or the protocol's token, the
\* parent of every transport's, is cancelled.
Closed(p) == conn[p] # "Connected" \/ app \in {"router", "ended"}

send_message_fails(p) == Closed(p) /\ send_message_done(p)

manager_actor(p) ==
    \/ manager_cancelled(p)
    \/ handle_outgoing_message(p) \/ add_message_done(p)
    \/ receive_sync_message_done(p)

\* The tick: a Disconnected chat asks for a dial, or fails to if the protocol
\* actor is gone.  Bound: one dial of a chat is queued at a time.
reconnect(p) ==
    /\ chat_managers[p] = "running" /\ conn[p] = "Disconnected"
    /\ protocol # "ended"
    /\ Dial(p) \notin Range(requests)
    /\ conn' = [conn EXCEPT ![p] = "Reconnecting"]
    /\ requests' = Append(requests, Dial(p))
    /\ UNCHANGED <<caller_vars, app_vars, chat_managers, in_rx, accept_rx, protocol, stop_vars>>

transport_lost(p) ==
    /\ conn[p] = "Connected"
    /\ conn' = [conn EXCEPT ![p] = "Disconnected"]
    /\ UNCHANGED <<caller_vars, app_vars, chat_managers, in_rx, protocol_vars, stop_vars>>

-----------------------------------------------------------------------------
(* The ChatProtocol actor: one request at a time, for all chats.  Its      *)
(* token, cancelled by router.shutdown(), is only polled between requests. *)

\* Accepted connections on their way to a manager.
OnTheWay ==
    LET Here   == Len(accept_rx) + (IF job.who = Handle THEN 1 ELSE 0)
        Queued == {i \in DOMAIN requests : requests[i].kind = "Accept"}
        Passed == {x \in Peer \X (1..(CHANNEL_BUFFER + 1)) :
                      x[2] \in DOMAIN in_rx[x[1]] /\ in_rx[x[1]][x[2]] = Handle}
    IN  Here + Cardinality(Queued) + Cardinality(Passed)

incoming(p) ==
    /\ protocol # "ended" /\ app \notin {"router", "ended"}
    /\ OnTheWay < MaxIncoming
    /\ requests' = Append(requests, Accept(p))
    /\ UNCHANGED <<caller_vars, app_vars, manager_vars, accept_rx, protocol, stop_vars>>

protocol_takes ==
    /\ protocol = "select" /\ app \notin {"router", "ended"}
    /\ requests # <<>>
    /\ protocol' = IF Head(requests).kind = "Dial" THEN "dialing" ELSE "accepting"
    /\ UNCHANGED <<caller_vars, app_vars, manager_vars, requests, accept_rx, stop_vars>>

\* A plausible slip: a dial that failed is not answered.
dial_endpoint_silent(p, established) ==
    /\ conn' = [conn EXCEPT ![p] = IF Alive(p) /\ established THEN "Connected" ELSE @]
    /\ UNCHANGED accept_rx

\* The result of a dial reaches the chat's reconnect task, if the chat lives.
dial_endpoint(p, established) ==
    /\ conn' = [conn EXCEPT ![p] = IF ~Alive(p) THEN @
                                   ELSE IF established THEN "Connected"
                                   ELSE IF @ = "Reconnecting" THEN "Disconnected" ELSE @]
    /\ UNCHANGED accept_rx

\* A handle that was accepted goes to the AppActor; so does a failure, which
\* it only logs.
accept(p, established) ==
    /\ accept_rx' = IF established THEN Append(accept_rx, p) ELSE accept_rx
    /\ UNCHANGED conn

\* A dial ends: connect() has a timeout, and a new connection has room for the
\* open message.
protocol_dialed ==
    /\ protocol = "dialing"
    /\ \E established \in BOOLEAN : dial_endpoint(Head(requests).peer, established)
    /\ requests' = Tail(requests)
    /\ protocol' = "select"
    /\ UNCHANGED <<caller_vars, app_vars, chat_managers, in_rx, stop_vars>>

\* An accept ends when the peer has opened a stream and sent the open message,
\* or its connection is lost.  Nothing makes it do either: there is no timeout.
protocol_accepted ==
    /\ protocol = "accepting"
    /\ \E established \in BOOLEAN : accept(Head(requests).peer, established)
    /\ requests' = Tail(requests)
    /\ protocol' = "select"
    /\ UNCHANGED <<caller_vars, app_vars, chat_managers, in_rx, stop_vars>>

\* The actor ends; dials still queued fail.
protocol_shutdown ==
    /\ protocol = "select" /\ app = "router"
    /\ protocol' = "ended"
    /\ requests' = <<>>
    /\ conn' = [p \in Peer |-> IF conn[p] = "Reconnecting" THEN "Disconnected" ELSE conn[p]]
    /\ UNCHANGED <<caller_vars, app_vars, chat_managers, in_rx, accept_rx, stop_vars>>

protocol_actor == protocol_takes \/ protocol_dialed \/ protocol_shutdown

-----------------------------------------------------------------------------
Next ==
    \/ \E c \in Caller, p \in Peer : chat_manager(c, p) \/ manager_call(c, p)
    \/ \E c \in Caller : enqueue(c) \/ give_up(c)
    \/ app_actor \/ application_dropped
    \/ \E s \in Shutter : shutdown(s) \/ shutdown_complete(s)
    \/ \E p \in Peer : manager_actor(p) \/ handle_incomming_message(p) \/ manager_orphaned(p)
    \/ \E p \in Peer : handle_outgoing_sync_message(p) \/ send_message_done(p)
    \/ \E p \in Peer : reconnect(p) \/ transport_lost(p) \/ incoming(p)
    \/ protocol_actor \/ protocol_accepted

Spec == Init /\ [][Next]_vars

\* The actors run, a query and a dial end, and so does a send once the queue is
\* closed.  Nothing else is promised of the peers: an accept may never end, nor
\* a send to a connected peer.  Ticks are rare, so a manager between two of them
\* gets to its channel; the waiting senders of a channel are served in order,
\* so none waits for ever while room appears.
Fairness ==
    /\ WF_vars(app_actor) /\ WF_vars(protocol_actor)
    /\ \A p \in Peer : /\ SF_vars(manager_actor(p)) /\ WF_vars(send_message_fails(p))
                       /\ WF_vars(reconnect(p))
    /\ SF_vars(pass_accepted_conn_handle) /\ \A c \in Caller : SF_vars(enqueue(c))
    /\ \A s \in Shutter : WF_vars(shutdown_complete(s))

FairSpec == Spec /\ Fairness

-----------------------------------------------------------------------------
Who == Caller \cup {Gone, Handle}
Job == [peer : Peer \cup {NoPeer}, who : Who]
ManagerState == {"none", "running", "writing", "receiving", "replying", "sending", "ended"}

\* The state is well formed; the request channel holds one request and a
\* manager's channel CHANNEL_BUFFER (app.rs:156, manager.rs:29).
TypeOK ==
    /\ call \in [Caller -> {"done", "opening", "queued", "calling", "sent", "ok"}]
    /\ peer \in [Caller -> Peer \cup {NoPeer}]
    /\ request_rx \in Seq([peer : Peer, who : Caller \cup {Gone}]) /\ Len(request_rx) <= 1
    /\ app \in {"select", "opening", "passing", "closing", "router", "ended"}
    /\ job \in Job
    /\ chat_managers \in [Peer -> ManagerState]
    /\ in_rx \in [Peer -> Seq(Who)] /\ \A p \in Peer : Len(in_rx[p]) <= CHANNEL_BUFFER + 1
    /\ conn \in [Peer -> {"Disconnected", "Reconnecting", "Connected"}]
    /\ requests \in Seq([kind : {"Dial", "Accept"}, peer : Peer])
    /\ accept_rx \in Seq(Peer)
    /\ protocol \in {"select", "dialing", "accepting", "ended"}
    /\ cancelled \in BOOLEAN /\ pool \in {"open", "closing", "closed"}
    /\ join \in [Shutter -> {"idle", "joining", "returned", "duplicate"}]

\* Every caller that waits for an answer has its sender in exactly one place:
\* the AppActor's channel, the request being handled, or the channel of the
\* manager it called.  No early return, give-up or exit of an actor loses one.
WaitersHaveSenders ==
    \A c \in Caller :
        /\ call[c] = "queued" <=> c \in {r.who : r \in Range(request_rx)} \cup {job.who}
        /\ \A p \in Peer : (call[c] = "sent" /\ peer[c] = p) <=> c \in Range(in_rx[p])

\* A chat that is Reconnecting has its dial in the queue of the protocol actor,
\* which all chats share: no tick starts another while it is, so a dial that was
\* lost (to an accepted connection, a failed dial, a manager that ended or a
\* shutdown) would leave the chat unconnected for good.
ReconnectingIsQueued ==
    \A p \in Peer : conn[p] = "Reconnecting" => Dial(p) \in Range(requests)

\* When the caller of shutdown() that holds the join handle returns
\* ("Application shutdown complete."), the pool is closed with no query under
\* way, the protocol actor has ended and no chat is connected: nothing of the
\* application writes to the database after that.
ShutdownIsComplete ==
    (\E s \in Shutter : join[s] = "returned") =>
        /\ app = "ended" /\ pool = "closed" /\ protocol = "ended"
        /\ \A p \in Peer : ~Querying(p) /\ conn[p] = "Disconnected"

\* What may hold up the AppActor: it passes a handle to a manager whose channel
\* is full and that waits in send_message for its peer; or it waits for the
\* protocol actor, which waits for a peer to open its stream.
HeldInPass    == app = "passing" /\ Sending(job.peer) /\ ~Room(job.peer)
HeldInCleanup == app = "router" /\ protocol = "accepting"

\* Every call through FFI is answered (or given up), whatever the other
\* callers, incoming connections, managers that end and shutdown() do, unless
\* from some point on a silent peer holds up the manager that was called or,
\* before there is one, the AppActor.
CallsAreAnswered ==
    \A c \in Caller :
        Waiting(c) ~> \/ Finished(c)
                      \/ [](call[c] \in {"calling", "sent"} /\ Sending(peer[c]))
                      \/ [](call[c] \in {"opening", "queued"} /\ (HeldInPass \/ HeldInCleanup))

\* shutdown() returns, unless from some point on a silent peer holds up the
\* AppActor.  Nothing else does: closing the pool, the managers, the callers, the
\* dials and the protocol actor never wait for each other in a circle, and a
\* send that blocks a manager holds up shutdown() only while a handle is passed
\* to that manager's full channel.
ShutdownReturns ==
    \A s \in Shutter :
        join[s] = "joining" ~> (join[s] = "returned" \/ []HeldInPass \/ []HeldInCleanup)

\* Retrieving the ChatManager of a chat that has no live one triggers "an
\* outgoing connection attempt to the remote peer" (app.rs:323), unless the
\* call fails or is given up, or the application stops.
OpenedChatReachesOut ==
    \A c \in Caller, p \in Peer :
        (call[c] = "queued" /\ peer[c] = p /\ ~Alive(p)) ~>
            \/ conn[p] \in {"Reconnecting", "Connected"}
            \/ call[c] = "done"
            \/ cancelled \/ Dropped
==============================================================================
