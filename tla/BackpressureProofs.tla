-------------------------- MODULE BackpressureProofs --------------------------
(***************************************************************************)
(* The bounds of the queues between two managers, and what must be full    *)
(* before the two wait for each other, for any channel size and any        *)
(* window.                                                                 *)
(***************************************************************************)
EXTENDS Backpressure, TLAPS

LEMMA OtherEnd == ASSUME NEW e \in End PROVE Other(e) \in End /\ Other(e) # e
<1>1. \E f \in End : f # e
  BY DEF End
<1> QED
  BY <1>1 DEF Other

LEMMA TypeStep == TypeOK /\ [Next]_vars => TypeOK'
<1> SUFFICES ASSUME TypeOK, [Next]_vars PROVE TypeOK'
  OBVIOUS
<1> USE BackpressureAssumption
<1>1. ASSUME NEW e \in End, send_local(e) \/ send_message_failed(e) PROVE TypeOK'
  BY <1>1 DEF send_local, send_message_failed, TypeOK, queues, tasks, stops
<1>2. ASSUME NEW e \in End, receive(e) PROVE TypeOK'
  <2>1. read' \in [End -> 0..CHANNEL_BUFFER]
    BY <1>2 DEF receive, can_receive, TypeOK
  <2>2. mgr' \in [End -> {"select", "sending", "ended"}]
    BY <1>2 DEF receive, can_receive, TypeOK
  <2> QED
    BY <1>2, <2>1, <2>2 DEF receive, can_receive, TypeOK, tasks, stops
<1>3. ASSUME NEW e \in End, send_message_done(e) PROVE TypeOK'
  <2>1. write' \in [End -> 0..CHANNEL_BUFFER]
    BY <1>3 DEF send_message_done, can_finish_send, TypeOK
  <2> QED
    BY <1>3, <2>1 DEF send_message_done, can_finish_send, TypeOK, tasks, stops
<1>4. ASSUME NEW e \in End, manager_ends(e) PROVE TypeOK'
  BY <1>4 DEF manager_ends, TypeOK, queues, tasks
<1>5. ASSUME NEW e \in End, send_task(e) PROVE TypeOK'
  <2>1. write' \in [End -> 0..CHANNEL_BUFFER] /\ wire' \in [End -> 0..WINDOW]
    BY <1>5 DEF send_task, can_write, TypeOK
  <2> QED
    BY <1>5, <2>1 DEF send_task, can_write, TypeOK, tasks, stops
<1>6. ASSUME NEW e \in End, send_task_ends(e) PROVE TypeOK'
  <2>1. write' \in [End -> 0..CHANNEL_BUFFER] /\ writer' \in [End -> BOOLEAN]
    BY <1>6 DEF send_task_ends, TypeOK
  <2> QED
    BY <1>6, <2>1 DEF send_task_ends, TypeOK, stops
<1>7. ASSUME NEW e \in End, recv_task(e) PROVE TypeOK'
  <2>1. read' \in [End -> 0..CHANNEL_BUFFER] /\ wire' \in [End -> 0..WINDOW]
    BY <1>7, OtherEnd DEF recv_task, can_read, TypeOK
  <2> QED
    BY <1>7, <2>1 DEF recv_task, can_read, TypeOK, tasks, stops
<1>8. ASSUME NEW e \in End, recv_task_ends(e) \/ monitor_task(e) \/ connection_lost(e) PROVE TypeOK'
  <2>1. CASE recv_task_ends(e)
    BY <2>1 DEF recv_task_ends, TypeOK, queues, stops
  <2>2. CASE monitor_task(e)
    BY <2>2 DEF monitor_task, TypeOK, queues, tasks
  <2>3. CASE connection_lost(e)
    BY <2>3 DEF connection_lost, TypeOK, queues, tasks
  <2> QED
    BY <1>8, <2>1, <2>2, <2>3
<1>9. ASSUME NEW e \in End, application_shutdown(e) \/ protocol_shutdown(e) PROVE TypeOK'
  <2>1. CASE application_shutdown(e)
    BY <2>1 DEF application_shutdown, TypeOK, queues, tasks
  <2>2. CASE protocol_shutdown(e)
    BY <2>2 DEF protocol_shutdown, TypeOK, queues, tasks
  <2> QED
    BY <1>9, <2>1, <2>2
<1>10. CASE UNCHANGED vars
  BY <1>10 DEF vars, TypeOK, queues, tasks, stops
<1> QED
  BY <1>1, <1>2, <1>3, <1>4, <1>5, <1>6, <1>7, <1>8, <1>9, <1>10 DEF Next

\* No channel and no window ever holds more than its capacity
\* (protocol_handler.rs: the channels of process_established_connection).
THEOREM TypeCorrect == Spec => []TypeOK
<1>1. Init => TypeOK
  BY BackpressureAssumption DEF Init, TypeOK
<1> QED
  BY <1>1, TypeStep, PTL DEF Spec

\* What one waiting manager says about a stuck transport: its write channel and
\* the window are full, and so is the other end's read channel, which nobody
\* empties because the other manager waits in send_message too.
LEMMA WaitingEnd ==
    ASSUME TypeOK, Stuck, NEW e \in End, mgr[e] = "sending"
    PROVE  /\ write[e] = CHANNEL_BUFFER /\ wire[e] = WINDOW
           /\ read[Other(e)] = CHANNEL_BUFFER
           /\ mgr[Other(e)] = "sending" /\ ~closed[e]
<1> DEFINE f == Other(e)
<1>1. f \in End /\ f # e /\ Other(f) = e
  <2>1. f \in End /\ Other(f) \in End /\ f # e /\ Other(f) # f
    BY OtherEnd
  <2> HIDE DEF f
  <2> QED
    BY <2>1 DEF End
<1> HIDE DEF f
<1>2. /\ write[e] \in 0..CHANNEL_BUFFER /\ wire[e] \in 0..WINDOW
      /\ read[f] \in 0..CHANNEL_BUFFER
      /\ mgr[f] \in {"select", "sending", "ended"}
  BY <1>1 DEF TypeOK
<1>3. writer[e] /\ write[e] = CHANNEL_BUFFER
  <2>1. writer[e]
    BY DEF Stuck, can_fail_send
  <2>2. ~(write[e] < CHANNEL_BUFFER)
    BY <2>1 DEF Stuck, can_finish_send
  <2> QED
    BY <1>2, <2>1, <2>2, BackpressureAssumption
<1>4. write[e] > 0
  BY <1>3, BackpressureAssumption
<1>5. ~closed[e]
  BY <1>3, <1>4 DEF Stuck, writer_done
<1>6. wire[e] = WINDOW /\ wire[e] > 0
  <2>1. ~(wire[e] < WINDOW)
    BY <1>3, <1>4, <1>5 DEF Stuck, can_write
  <2> QED
    BY <1>2, <2>1, BackpressureAssumption
<1>7. ~closed[f]
  BY <1>5 DEF Stuck, must_close, f
<1>8. reader[f]
  BY <1>1, <1>7 DEF Stuck, must_close
<1>9. read[f] = CHANNEL_BUFFER /\ read[f] > 0
  <2>1. ~(read[f] < CHANNEL_BUFFER)
    BY <1>1, <1>6, <1>7, <1>8 DEF Stuck, can_read
  <2> QED
    BY <1>2, <2>1, BackpressureAssumption
<1>10. mgr[f] # "ended"
  BY <1>1, <1>6, <1>8 DEF Stuck, reader_done
<1>11. mgr[f] # "select"
  BY <1>1, <1>9 DEF Stuck, can_receive, can_end
<1> QED
  BY <1>2, <1>3, <1>5, <1>6, <1>9, <1>10, <1>11 DEF f

\* Nothing but full queues holds a manager in send_message: if nothing moves and
\* one manager waits, both do, over an open transport whose six queues are all
\* full (the pump tasks of process_established_connection read and write without
\* the managers).
THEOREM FullQueuesBlock == Spec => []OnlyFullQueuesBlock
<1>1. TypeOK => OnlyFullQueuesBlock
  <2> SUFFICES ASSUME TypeOK, Stuck, NEW e \in End, mgr[e] = "sending"
               PROVE  /\ AllFull
                      /\ \A d \in End : mgr[d] = "sending" /\ ~closed[d]
    BY DEF OnlyFullQueuesBlock
  <2> DEFINE f == Other(e)
  <2>1. f \in End /\ f # e /\ Other(f) = e
    <3>1. f \in End /\ Other(f) \in End /\ f # e /\ Other(f) # f
      BY OtherEnd
    <3> HIDE DEF f
    <3> QED
      BY <3>1 DEF End
  <2>2. /\ write[e] = CHANNEL_BUFFER /\ wire[e] = WINDOW
        /\ read[f] = CHANNEL_BUFFER
        /\ mgr[f] = "sending" /\ ~closed[e]
    BY WaitingEnd
  <2>3. /\ write[f] = CHANNEL_BUFFER /\ wire[f] = WINDOW
        /\ read[e] = CHANNEL_BUFFER /\ ~closed[f]
    BY <2>1, <2>2, WaitingEnd
  <2> HIDE DEF f
  <2>4. \A d \in End : d = e \/ d = f
    BY <2>1 DEF End
  <2> QED
    BY <2>2, <2>3, <2>4 DEF AllFull
<1> QED
  BY <1>1, TypeCorrect, PTL
==============================================================================
