---------------------------- MODULE Backpressure ----------------------------
(***************************************************************************)
(* One transport between two chat managers, with its bounded queues: the   *)
(* write channel of each manager, the stream's flow-control window and the *)
(* read channel at the other end (src/protocols/chat/protocol_handler.rs). *)
(* A manager that sends (src/protocols/chat.rs) waits for room in its      *)
(* write channel and receives nothing meanwhile.                           *)
(*                                                                         *)
(* Messages are only counted.  The one in the hands of a pump task counts  *)
(* as part of the queue it waits for.                                      *)
(***************************************************************************)
EXTENDS Naturals

CONSTANTS
    CHANNEL_BUFFER,  \* capacity of the write and read channels
    WINDOW           \* messages that fit the stream's window

ASSUME BackpressureAssumption ==
    CHANNEL_BUFFER \in Nat \ {0} /\ WINDOW \in Nat \ {0}

End == {"A", "B"}
Other(e) == CHOOSE f \in End : f # e

VARIABLES
    mgr,        \* [End -> where the manager is]
    write,      \* [End -> messages in its write channel]
    wire,       \* [End -> what it sent and the other end has not read]
    read,       \* [End -> messages in its read channel]
    writer,     \* [End -> the send task lives, and with it write_rx]
    reader,     \* [End -> the recv task lives, and with it read_tx]
    token,      \* [End -> the transport's cancel token is cancelled]
    closed,     \* [End -> this end of the connection is closed]
    cancelled   \* [End -> the application is shutting down]

queues == <<write, wire, read>>
tasks  == <<writer, reader>>
stops  == <<token, closed, cancelled>>
vars   == <<mgr, queues, tasks, stops>>

Init ==
    /\ mgr = [e \in End |-> "select"]
    /\ write = [e \in End |-> 0] /\ wire = [e \in End |-> 0]
    /\ read = [e \in End |-> 0]
    /\ writer = [e \in End |-> TRUE] /\ reader = [e \in End |-> TRUE]
    /\ token = [e \in End |-> FALSE] /\ closed = [e \in End |-> FALSE]
    /\ cancelled = [e \in End |-> FALSE]

-----------------------------------------------------------------------------
(* The managers.                                                           *)

\* A local message or a tick: a sync message is sent.
send_local(e) ==
    /\ mgr[e] = "select" /\ ~cancelled[e]
    /\ mgr' = [mgr EXCEPT ![e] = "sending"]
    /\ UNCHANGED <<queues, tasks, stops>>

can_receive(e) == mgr[e] = "select" /\ ~cancelled[e] /\ read[e] > 0

\* A received message is answered, unless both it and the answer are empty.
receive(e) ==
    /\ can_receive(e)
    /\ read' = [read EXCEPT ![e] = @ - 1]
    /\ mgr' \in {mgr, [mgr EXCEPT ![e] = "sending"]}
    /\ UNCHANGED <<write, wire, tasks, stops>>

\* ChatConnection::send_message gets room ...
can_finish_send(e) == mgr[e] = "sending" /\ writer[e] /\ write[e] < CHANNEL_BUFFER

send_message_done(e) ==
    /\ can_finish_send(e)
    /\ write' = [write EXCEPT ![e] = @ + 1]
    /\ mgr' = [mgr EXCEPT ![e] = "select"]
    /\ UNCHANGED <<wire, read, tasks, stops>>

\* ... or fails because the send task dropped the receiver.
can_fail_send(e) == mgr[e] = "sending" /\ ~writer[e]

send_message_failed(e) ==
    /\ can_fail_send(e)
    /\ mgr' = [mgr EXCEPT ![e] = "select"]
    /\ UNCHANGED <<queues, tasks, stops>>

\* The token is only polled between handlers; closing cancels the transport.
can_end(e) == mgr[e] = "select" /\ cancelled[e]

manager_ends(e) ==
    /\ can_end(e)
    /\ mgr' = [mgr EXCEPT ![e] = "ended"]
    /\ token' = [token EXCEPT ![e] = TRUE]
    /\ UNCHANGED <<queues, tasks, closed, cancelled>>

-----------------------------------------------------------------------------
(* The tasks of a transport: process_established_connection.               *)

\* The send task: write_message waits for the window.
can_write(e) == writer[e] /\ ~closed[e] /\ write[e] > 0 /\ wire[e] < WINDOW

send_task(e) ==
    /\ can_write(e)
    /\ wire' = [wire EXCEPT ![e] = @ + 1]
    /\ write' = [write EXCEPT ![e] = @ - 1]
    /\ UNCHANGED <<mgr, read, tasks, stops>>

\* It fails on the first message after the close, or finishes when the manager
\* has dropped its sender.
writer_done(e) ==
    /\ writer[e]
    /\ \/ closed[e] /\ write[e] > 0
       \/ mgr[e] = "ended" /\ write[e] = 0

send_task_ends(e) ==
    /\ writer_done(e)
    /\ writer' = [writer EXCEPT ![e] = FALSE]
    /\ write' = [write EXCEPT ![e] = 0]
    /\ UNCHANGED <<mgr, wire, read, reader, stops>>

\* A plausible slip: the stream is read by the manager, not by a task of its own.
can_read_in_manager(e) ==
    /\ reader[e] /\ ~closed[e] /\ mgr[e] # "sending"
    /\ wire[Other(e)] > 0 /\ read[e] < CHANNEL_BUFFER

\* The recv task: read_tx.send waits for room in the read channel.
can_read(e) ==
    /\ reader[e] /\ ~closed[e]
    /\ wire[Other(e)] > 0 /\ read[e] < CHANNEL_BUFFER

recv_task(e) ==
    /\ can_read(e)
    /\ read' = [read EXCEPT ![e] = @ + 1]
    /\ wire' = [wire EXCEPT ![Other(e)] = @ - 1]
    /\ UNCHANGED <<mgr, write, tasks, stops>>

\* It fails on the closed stream, or on a message nobody can receive.
reader_done(e) ==
    /\ reader[e]
    /\ closed[e] \/ (mgr[e] = "ended" /\ wire[Other(e)] > 0)

recv_task_ends(e) ==
    /\ reader_done(e)
    /\ reader' = [reader EXCEPT ![e] = FALSE]
    /\ UNCHANGED <<mgr, queues, writer, stops>>

\* The monitor: cancelled, closed by the peer, or a task ended.
must_close(e) ==
    /\ ~closed[e]
    /\ token[e] \/ closed[Other(e)] \/ ~reader[e] \/ ~writer[e]

monitor_task(e) ==
    /\ must_close(e)
    /\ closed' = [closed EXCEPT ![e] = TRUE]
    /\ UNCHANGED <<mgr, queues, tasks, token, cancelled>>

-----------------------------------------------------------------------------
(* Shutting down: the application's token, then, once the AppActor is at   *)
(* cleanup(), the protocol's token, whose child the transport's token is.  *)

application_shutdown(e) ==
    /\ ~cancelled[e]
    /\ cancelled' = [cancelled EXCEPT ![e] = TRUE]
    /\ UNCHANGED <<mgr, queues, tasks, token, closed>>

\* A plausible slip: the transport's token is no child of the protocol's.
protocol_shutdown_only_actor(e) ==
    /\ cancelled[e] /\ ~token[e]
    /\ UNCHANGED vars

protocol_shutdown(e) ==
    /\ cancelled[e] /\ ~token[e]
    /\ token' = [token EXCEPT ![e] = TRUE]
    /\ UNCHANGED <<mgr, queues, tasks, closed, cancelled>>

\* The network loses the connection.
connection_lost(e) ==
    /\ ~closed[e]
    /\ closed' = [closed EXCEPT ![e] = TRUE]
    /\ UNCHANGED <<mgr, queues, tasks, token, cancelled>>

Next == \E e \in End :
    \/ send_local(e) \/ receive(e) \/ send_message_done(e) \/ send_message_failed(e) \/ manager_ends(e)
    \/ send_task(e) \/ send_task_ends(e) \/ recv_task(e) \/ recv_task_ends(e)
    \/ monitor_task(e)
    \/ application_shutdown(e) \/ protocol_shutdown(e) \/ connection_lost(e)

Spec == Init /\ [][Next]_vars

\* Tasks that can run do run.  Local messages, shutdowns and failures of the
\* network need not happen.
\*
\* WF of protocol_shutdown assumes that an AppActor told to stop reaches
\* cleanup(), where the router cancels the token of the protocol, also while the
\* protocol actor waits in an accept.  AppActor (HeldInPass) shows the one case in
\* which it does not: it waits to pass an accepted transport to a manager whose
\* channel is full and that itself waits in send_message.  The two waits then
\* form a circle that only the peer or the network breaks, and what is shown here
\* of a shutdown does not cover it.
Fairness == \A e \in End :
    /\ WF_vars(receive(e)) /\ WF_vars(manager_ends(e))
    /\ WF_vars(send_message_done(e)) /\ WF_vars(send_message_failed(e))
    /\ WF_vars(send_task(e)) /\ WF_vars(send_task_ends(e))
    /\ WF_vars(recv_task(e)) /\ WF_vars(recv_task_ends(e))
    /\ WF_vars(monitor_task(e)) /\ WF_vars(protocol_shutdown(e))

FairSpec == Spec /\ Fairness

-----------------------------------------------------------------------------
\* The state is well formed and no queue exceeds its capacity
\* (protocol_handler.rs:205-207).
TypeOK ==
    /\ mgr \in [End -> {"select", "sending", "ended"}]
    /\ write \in [End -> 0..CHANNEL_BUFFER]
    /\ wire \in [End -> 0..WINDOW]
    /\ read \in [End -> 0..CHANNEL_BUFFER]
    /\ \A f \in {writer, reader, token, closed, cancelled} : f \in [End -> BOOLEAN]

AllFull == \A e \in End :
    /\ write[e] = CHANNEL_BUFFER
    /\ wire[e] = WINDOW
    /\ read[e] = CHANNEL_BUFFER

\* No manager and no task of either transport can do anything on its own.
Stuck == \A e \in End :
    /\ ~can_receive(e) /\ ~can_finish_send(e) /\ ~can_fail_send(e) /\ ~can_end(e)
    /\ ~can_write(e) /\ ~writer_done(e) /\ ~can_read(e) /\ ~reader_done(e)
    /\ ~must_close(e)

\* Nothing but full queues holds a manager in send_message (chat.rs:148): when no
\* manager and no task can move and one waits there, then both wait there, the
\* transport is open at both ends and all six queues between them are full.
OnlyFullQueuesBlock ==
    Stuck /\ (\E e \in End : mgr[e] = "sending") =>
        /\ AllFull
        /\ \A e \in End : mgr[e] = "sending" /\ ~closed[e]

\* A manager that waits in send_message (chat.rs:148) gets on, whatever the
\* other one does, unless all six queues between the two are full: short of
\* that the managers never wait for each other.
BlockedIsFreed ==
    \A e \in End : mgr[e] = "sending" ~> mgr[e] # "sending" \/ AllFull

\* shutdown() at one end frees both managers even when all queues are full:
\* the cancelled protocol closes the transport, the send tasks fail, the waits
\* in send_message fail, the manager that is shut down ends.  This is about the
\* step from cleanup() on; that it is reached is the assumption made in Fairness.
ShutdownFreesManagers ==
    \A e \in End :
        /\ cancelled[e] ~> mgr[e] = "ended"
        /\ cancelled[e] ~> mgr[Other(e)] # "sending"
==============================================================================
