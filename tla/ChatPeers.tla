------------------------------- MODULE ChatPeers -------------------------------
(***************************************************************************)
(* The two endpoints of a chat.  Each has a ChatProtocol actor that works  *)
(* through its request queue one request at a time, an AppActor that hands *)
(* accepted transports to the ChatManager (or creates the manager for      *)
(* them), and a ChatConnection that decides which transport to keep.       *)
(* Transports are QUIC connections: either end may close, the other end    *)
(* notices later, and the network may break them.                          *)
(*                                                                         *)
(* Module ChatConnection has the lock, the watch channel, the disconnect   *)
(* reports and the shutdown of one endpoint in detail.  Here a write       *)
(* section is one step, a failed receive and the report it spawns are one  *)
(* step, and shutdown() closes the local end of the transport at once; the *)
(* delay with which the peer notices covers that of the monitor task.      *)
(***************************************************************************)
EXTENDS Glare, Sequences, FiniteSets, Functions

CONSTANTS
    Conn,       \* slots for transports; a slot is reused once nobody refers to it
    NoConn,
    MaxDials,   \* bound on the dials of one endpoint that are under way
    MaxFaults,  \* bound on failed dials, broken transports and restarts
    Prompt      \* TRUE: results reach their tasks before the next tick or handshake

Node == {1, 2}

ASSUME PeersAssumption ==
    /\ NoConn \notin Conn
    /\ MaxDials \in Nat \ {0} /\ MaxFaults \in Nat /\ Prompt \in BOOLEAN

VARIABLES
    manager,    \* [Node -> BOOLEAN]: the AppActor has a ChatManager for the peer
    state,      \* [Node -> InternalConnState]
    handle,     \* [Node -> the transport in Connected]
    requests,   \* [Node -> queue of the ChatProtocol actor]
    dialed,     \* [Node -> transports answered to reconnect tasks, not yet applied]
    failed,     \* [Node -> number of failures answered to reconnect tasks]
    inbox,      \* [Node -> accepted transports on their way to the manager]
    dialer,     \* [Conn -> the node that dialled it]
    up,         \* [Conn -> the nodes whose end is running]
    faults

vars == <<manager, state, handle, requests, dialed, failed, inbox, dialer, up, faults>>

Other(n) == 3 - n

Dial == [kind |-> "Dial", conn |-> NoConn]

Accept(c) == [kind |-> "Accept", conn |-> c]

Requests == {Dial} \cup {Accept(c) : c \in Conn}

origin(n, c) == IF dialer[c] = n THEN "Dial" ELSE "Accept"

\* Node n holds a handle of the transport, or will once it has worked through
\* its queues.
Holds(n, c) ==
    \/ handle[n] = c
    \/ c \in dialed[n]
    \/ c \in Range(inbox[n])
    \/ Accept(c) \in Range(requests[n])

Referenced(c) == up[c] # {} \/ \E n \in Node : Holds(n, c)

DialsAt(queue) == {i \in DOMAIN queue : queue[i] = Dial}

\* The dials of node n that wait in the actor's queue or whose result has not
\* been applied
Outstanding(n) == Cardinality(dialed[n]) + failed[n] + Cardinality(DialsAt(requests[n]))

\* Every handle and every failure has reached the task that waits for it.
HandedOver(n) == dialed[n] = {} /\ failed[n] = 0 /\ inbox[n] = <<>>

Init ==
    /\ manager = [n \in Node |-> FALSE]
    /\ state = [n \in Node |-> "Disconnected"]
    /\ handle = [n \in Node |-> NoConn]
    /\ requests = [n \in Node |-> <<>>]
    /\ dialed = [n \in Node |-> {}]
    /\ failed = [n \in Node |-> 0]
    /\ inbox = [n \in Node |-> <<>>]
    /\ dialer = [c \in Conn |-> 1]
    /\ up = [c \in Conn |-> {}]
    /\ faults = 0

-----------------------------------------------------------------------------
(* ChatConnection.                                                         *)

\* Closing the end of node n of the transport c, if there is one
shutdown(n, c) == [d \in Conn |-> IF d = c THEN up[d] \ {n} ELSE up[d]]

\* The glare between the current transport and c is decided against c.
Rejects(n, c) ==
    /\ state[n] = "Connected"
    /\ ~should_switch(n, Other(n), origin(n, handle[n]), origin(n, c))

\* A plausible slip: the superseded transport is not closed.
update_handle_without_shutdown(n, c) ==
    \/ /\ ~Rejects(n, c)
       /\ state' = [state EXCEPT ![n] = "Connected"]
       /\ handle' = [handle EXCEPT ![n] = c]
       /\ UNCHANGED up
    \/ /\ Rejects(n, c)
       /\ up' = shutdown(n, c)
       /\ UNCHANGED <<state, handle>>

\* A plausible slip: the transport that loses the glare is dropped, not closed.
update_handle_drops_loser(n, c) ==
    \/ /\ ~Rejects(n, c)
       /\ state' = [state EXCEPT ![n] = "Connected"]
       /\ handle' = [handle EXCEPT ![n] = c]
       /\ up' = shutdown(n, handle[n])
    \/ /\ Rejects(n, c)
       /\ UNCHANGED <<state, handle, up>>

update_handle(n, c) ==
    \/ /\ ~Rejects(n, c)
       /\ state' = [state EXCEPT ![n] = "Connected"]
       /\ handle' = [handle EXCEPT ![n] = c]
       /\ up' = shutdown(n, handle[n])
    \/ /\ Rejects(n, c)
       /\ up' = shutdown(n, c)
       /\ UNCHANGED <<state, handle>>

\* reconnect(): from Disconnected only, set Reconnecting and ask for a dial
reconnect(n) ==
    /\ state[n] = "Disconnected"
    /\ Outstanding(n) < MaxDials
    /\ state' = [state EXCEPT ![n] = "Reconnecting"]
    /\ requests' = [requests EXCEPT ![n] = Append(@, Dial)]

\* A reconnect task gets the handle it asked for.
dial_answered(n, c) ==
    /\ c \in dialed[n]
    /\ dialed' = [dialed EXCEPT ![n] = @ \ {c}]
    /\ update_handle(n, c)
    /\ UNCHANGED <<manager, requests, failed, inbox, dialer, faults>>

\* A plausible slip: a failed dial disconnects whatever the state is.
dial_refused_disconnects(n) ==
    /\ failed[n] > 0
    /\ failed' = [failed EXCEPT ![n] = @ - 1]
    /\ state' = [state EXCEPT ![n] = "Disconnected"]
    /\ UNCHANGED <<manager, handle, requests, dialed, inbox, dialer, up, faults>>

\* A reconnect task gets an error: set_state_if_reconnecting(Disconnected)
dial_refused(n) ==
    /\ failed[n] > 0
    /\ failed' = [failed EXCEPT ![n] = @ - 1]
    /\ state' = [state EXCEPT ![n] = IF @ = "Reconnecting" THEN "Disconnected" ELSE @]
    /\ UNCHANGED <<manager, handle, requests, dialed, inbox, dialer, up, faults>>

\* receive() finds its channel closed and the spawned report disconnects.
receive_fails(n) ==
    /\ state[n] = "Connected"
    /\ n \notin up[handle[n]]
    /\ state' = [state EXCEPT ![n] = "Disconnected"]
    /\ handle' = [handle EXCEPT ![n] = NoConn]
    /\ UNCHANGED <<manager, requests, dialed, failed, inbox, dialer, up, faults>>

-----------------------------------------------------------------------------
(* The ChatProtocol actor: one request at a time, in order.                *)

\* dial_endpoint: the transport is up at both ends and the peer's router has
\* queued it for the peer's own actor; the reconnect task gets the handle.
dial_endpoint(n, c) ==
    /\ requests[n] # <<>> /\ Head(requests[n]) = Dial
    /\ Prompt => HandedOver(n)
    /\ ~Referenced(c)
    /\ requests' = [requests EXCEPT ![n] = Tail(@), ![Other(n)] = Append(@, Accept(c))]
    /\ dialer' = [dialer EXCEPT ![c] = n]
    /\ up' = [up EXCEPT ![c] = Node]
    /\ dialed' = [dialed EXCEPT ![n] = @ \cup {c}]
    /\ UNCHANGED <<manager, state, handle, failed, inbox, faults>>

\* dial_endpoint: the network does not let the dial through.
dial_endpoint_fails(n) ==
    /\ requests[n] # <<>> /\ Head(requests[n]) = Dial
    /\ faults < MaxFaults
    /\ faults' = faults + 1
    /\ requests' = [requests EXCEPT ![n] = Tail(@)]
    /\ failed' = [failed EXCEPT ![n] = @ + 1]
    /\ UNCHANGED <<manager, state, handle, dialed, inbox, dialer, up>>

\* The accepting side: read the open message and pass the handle on, or give
\* up on a transport that has ended already.
accept(n) ==
    /\ requests[n] # <<>> /\ Head(requests[n]).kind = "Accept"
    /\ LET c == Head(requests[n]).conn
       IN  inbox' = [inbox EXCEPT ![n] = IF n \in up[c] THEN Append(@, c) ELSE @]
    /\ requests' = [requests EXCEPT ![n] = Tail(@)]
    /\ UNCHANGED <<manager, state, handle, dialed, failed, dialer, up, faults>>

-----------------------------------------------------------------------------
(* The AppActor and the ChatManager.                                       *)

\* chat_manager(): a new manager starts with ChatConnection::new and dials;
\* an existing one is returned as it is.
chat_manager(n) ==
    /\ ~manager[n]
    /\ manager' = [manager EXCEPT ![n] = TRUE]
    /\ reconnect(n)
    /\ UNCHANGED <<handle, dialed, failed, inbox, dialer, up, faults>>

\* handle_chat_manager with an accepted handle: inject it into the manager, or
\* create one with ChatConnection::new_connected.
handle_accepted(n) ==
    /\ inbox[n] # <<>>
    /\ inbox' = [inbox EXCEPT ![n] = Tail(@)]
    /\ manager' = [manager EXCEPT ![n] = TRUE]
    /\ update_handle(n, Head(inbox[n]))
    /\ UNCHANGED <<requests, dialed, failed, dialer, faults>>

\* sync_interval.tick() while disconnected
tick(n) ==
    /\ manager[n]
    /\ Prompt => HandedOver(n)
    /\ reconnect(n)
    /\ UNCHANGED <<manager, handle, dialed, failed, inbox, dialer, up, faults>>

-----------------------------------------------------------------------------
(* The network and the process.                                            *)

\* One end has gone: the monitor task of the other end sees conn.closed().
peer_closed(c) ==
    /\ up[c] # {} /\ up[c] # Node
    /\ up' = [up EXCEPT ![c] = {}]
    /\ UNCHANGED <<manager, state, handle, requests, dialed, failed, inbox, dialer, faults>>

\* The transport breaks; the end of node n is the first to time out.
transport_breaks(n, c) ==
    /\ up[c] = Node
    /\ faults < MaxFaults
    /\ faults' = faults + 1
    /\ up' = [up EXCEPT ![c] = Node \ {n}]
    /\ UNCHANGED <<manager, state, handle, requests, dialed, failed, inbox, dialer>>

\* The application of node n stops and starts again: its tasks, queues and
\* ends of transports are gone, the peer is not told.
restart(n) ==
    /\ faults < MaxFaults
    /\ faults' = faults + 1
    /\ manager' = [manager EXCEPT ![n] = FALSE]
    /\ state' = [state EXCEPT ![n] = "Disconnected"]
    /\ handle' = [handle EXCEPT ![n] = NoConn]
    /\ requests' = [requests EXCEPT ![n] = <<>>]
    /\ dialed' = [dialed EXCEPT ![n] = {}]
    /\ failed' = [failed EXCEPT ![n] = 0]
    /\ inbox' = [inbox EXCEPT ![n] = <<>>]
    /\ up' = [c \in Conn |-> up[c] \ {n}]
    /\ UNCHANGED dialer

-----------------------------------------------------------------------------
protocol_actor(n) == accept(n) \/ dial_endpoint_fails(n) \/ \E c \in Conn : dial_endpoint(n, c)

Next ==
    \/ \E n \in Node :
          \/ dial_refused(n)
          \/ receive_fails(n)
          \/ protocol_actor(n)
          \/ chat_manager(n)
          \/ handle_accepted(n)
          \/ tick(n)
          \/ restart(n)
          \/ \E c \in Conn : dial_answered(n, c) \/ transport_breaks(n, c)
    \/ \E c \in Conn : peer_closed(c)

Spec == Init /\ [][Next]_vars

\* The actors and the spawned tasks run, the interval ticks, and a closed
\* transport is noticed by the other end.  Nothing makes a user open the chat.
Fairness ==
    /\ \A n \in Node :
          /\ WF_vars(dial_refused(n))
          /\ WF_vars(receive_fails(n))
          /\ WF_vars(protocol_actor(n))
          /\ WF_vars(handle_accepted(n))
          /\ WF_vars(tick(n))
          /\ \A c \in Conn : WF_vars(dial_answered(n, c))
    /\ \A c \in Conn : WF_vars(peer_closed(c))

FairSpec == Spec /\ Fairness

-----------------------------------------------------------------------------
(* Properties.                                                             *)

\* Every variable has the type of the state it models.
TypeOK ==
    /\ manager \in [Node -> BOOLEAN]
    /\ state \in [Node -> {"Disconnected", "Connected", "Reconnecting"}]
    /\ handle \in [Node -> Conn \cup {NoConn}]
    /\ \A n \in Node : (state[n] = "Connected") = (handle[n] # NoConn)
    /\ requests \in [Node -> Seq(Requests)]
    /\ dialed \in [Node -> SUBSET Conn]
    /\ failed \in [Node -> 0..MaxDials]
    /\ inbox \in [Node -> Seq(Conn)]
    /\ dialer \in [Conn -> Node]
    /\ up \in [Conn -> SUBSET Node]
    /\ faults \in 0..MaxFaults

\* No end of a transport leaks: an end that runs is the current handle of its
\* node, or a handle on its way there, through the answer to a dial, the
\* request queue or the manager's inbox.
EndsAreHeld ==
    \A c \in Conn : \A n \in up[c] : Holds(n, c)

\* Nothing is under way at either endpoint.
Quiet ==
    /\ \A n \in Node : requests[n] = <<>> /\ HandedOver(n)
    /\ \A c \in Conn : up[c] \in {{}, Node}

\* The endpoints are connected to each other by the same running transport.
Settled ==
    \E c \in Conn : up[c] = Node /\ \A n \in Node : handle[n] = c

\* "Ensuring only a single, stable transport is maintained per peer pair":
\* once nothing is under way, a transport that still runs is the current one of
\* both endpoints, however their dials, accepts and failures interleaved.
QuietMeansAgreement ==
    Quiet => \A c \in Conn : up[c] = Node => \A n \in Node : handle[n] = c

\* A glare never costs both transports: as long as neither the network nor a
\* process failed and results are handed over promptly, once a transport exists
\* some transport runs at both ends.  The endpoints decide a glare apart from
\* each other, at different times and with different transports in hand; were
\* each to keep the one the other closes, the chat would be cut off.
GlareKeepsOne ==
    faults = 0 /\ (\E c \in Conn : Referenced(c)) => \E c \in Conn : up[c] = Node

\* When the network stops failing, the endpoints end up on one transport for
\* good, unless nobody has opened the chat.
EventuallySettled ==
    <>[](Settled \/ \A n \in Node : ~manager[n])
==============================================================================
