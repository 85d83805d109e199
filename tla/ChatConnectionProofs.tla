------------------------- MODULE ChatConnectionProofs -------------------------
(***************************************************************************)
(* The safety properties of ChatConnection, for any set of transports, any *)
(* number of reconnect tasks and any two endpoint identifiers.             *)
(***************************************************************************)
EXTENDS ChatConnection, TLAPS

-----------------------------------------------------------------------------
(* The inductive invariant.                                                *)

\* An identifier is never reissued, and no two transports share one.
IdsAreUnique ==
    /\ \A c \in Conn : id[c] < next_id
    /\ \A c, d \in Established : id[c] = id[d] => c = d

\* Whatever a handle is stored in, its transport has been established; a reply
\* waits only where its task has been answered.
HandlesAreEstablished ==
    /\ handle # NoConn => handle \in Established
    /\ \A t \in Task : reply[t] # NoConn => reply[t] \in Established /\ task[t] = "answered"
    /\ \A i \in 1..Len(inbox) : inbox[i] \in Established

\* The identifier a send or receive has read is that of its own transport, or
\* one that is no longer in use.
CallIdIsOwn ==
    call # NoCall =>
        /\ call.id < next_id
        /\ \A c \in Established : id[c] = call.id => c = call.conn

\* A report is about an identifier that was issued.
ReportsAreIssued == \A i \in reports : i < next_id

IInv ==
    /\ TypeOK
    /\ IdsAreUnique
    /\ HandlesAreEstablished
    /\ CallIdIsOwn
    /\ ReportsAreIssued
    /\ ReportsAreTrue

-----------------------------------------------------------------------------
(* Types.                                                                  *)

\* A call with an operation carries a transport and an identifier.
LEMMA CallIsReal ==
    ASSUME call \in Calls, NEW op \in {"send", "receive"}, call.op = op
    PROVE  call # NoCall /\ call.conn \in Conn /\ call.id \in Nat
<1>1. NoCall.op = "none"
  BY DEF NoCall
<1>2. call # NoCall
  BY <1>1
<1> QED
  BY <1>2 DEF Calls

\* What update_handle does to the types when it is given a transport.
LEMMA UpdateHandleType ==
    ASSUME TypeOK, NEW c \in Conn, update_handle(c)
    PROVE  /\ state' \in States
           /\ handle' \in Conn
           /\ state' = "Connected"
           /\ id' \in [Conn -> Nat]
           /\ next_id' \in Nat \ {0}
           /\ cancelled' \in SUBSET Conn
  BY ConnAssumption DEF TypeOK, update_handle, Rejects, States

\* Every action keeps the types, and keeps a handle exactly in Connected.
LEMMA TypeStep == TypeOK /\ [Next]_vars => TypeOK'
<1> SUFFICES ASSUME TypeOK, [Next]_vars PROVE TypeOK'
  OBVIOUS
<1> USE ConnAssumption
<1>1. CASE notify
  <2>1. public_state \in [kind : States, id : Nat]
    BY DEF TypeOK, public_state
  <2> QED
    BY <1>1, <2>1 DEF TypeOK, notify, conn_vars, actor_vars
<1>2. ASSUME NEW i \in reports, set_state_disconnected_if_id_matches(i) PROVE TypeOK'
  BY <1>2 DEF TypeOK, set_state_disconnected_if_id_matches, States, actor_vars
<1>3. ASSUME NEW t \in Task, reconnect_start(t) PROVE TypeOK'
  BY <1>3 DEF TypeOK, reconnect_start, States, TaskPhases, conn_vars, actor_vars
<1>4. ASSUME NEW t \in Task, reconnect_request(t) PROVE TypeOK'
  BY <1>4 DEF TypeOK, reconnect_request, TaskPhases, conn_vars, actor_vars
<1>5. ASSUME NEW t \in Task, reconnect_request_fails(t) PROVE TypeOK'
  BY <1>5 DEF TypeOK, reconnect_request_fails, set_state_if_reconnecting, States,
              TaskPhases, conn_vars, actor_vars
<1>6. ASSUME NEW t \in Task, reconnect_dialed(t) PROVE TypeOK'
  <2>1. reply[t] \in Conn /\ update_handle(reply[t])
    BY <1>6 DEF reconnect_dialed, TypeOK
  <2> QED
    BY <1>6, <2>1, UpdateHandleType DEF TypeOK, reconnect_dialed, TaskPhases, actor_vars
<1>7. ASSUME NEW t \in Task, reconnect_failed(t) PROVE TypeOK'
  BY <1>7 DEF TypeOK, reconnect_failed, set_state_if_reconnecting, States, TaskPhases,
              conn_vars, actor_vars
<1>8. ASSUME NEW t \in Task, NEW c \in Conn, dial_endpoint(t, c) PROVE TypeOK'
  BY <1>8 DEF TypeOK, dial_endpoint, process_established_connection, ConnOrigin,
              TaskPhases, actor_vars
<1>9. ASSUME NEW t \in Task, dial_endpoint_fails(t) PROVE TypeOK'
  BY <1>9 DEF TypeOK, dial_endpoint_fails, TaskPhases, conn_vars, actor_vars
<1>10. ASSUME NEW c \in Conn, accept_conn(c) PROVE TypeOK'
  BY <1>10 DEF TypeOK, accept_conn, process_established_connection, ConnOrigin
<1>11. ASSUME NEW c \in Conn, transport_ends(c) PROVE TypeOK'
  BY <1>11 DEF TypeOK, transport_ends, actor_vars
<1>12. CASE protocol_shutdown
  BY <1>12 DEF TypeOK, protocol_shutdown, Established
<1>13. CASE tick_reconnect
  BY <1>13 DEF TypeOK, tick_reconnect, TaskPhases, Calls, conn_vars
<1>14. CASE send_message
  BY <1>14 DEF TypeOK, send_message, Calls, conn_vars
<1>15. CASE receive
  <2>1. handle \in Conn
    BY <1>15 DEF TypeOK, receive, LockFree, public_state
  <2> QED
    BY <1>15, <2>1 DEF TypeOK, receive, Calls, conn_vars
<1>16. CASE call_returns
  BY <1>16 DEF TypeOK, call_returns, Calls, conn_vars
<1>17. ASSUME NEW op \in {"send", "receive"}, call_fails(op) PROVE TypeOK'
  <2>1. call.id \in Nat
    BY <1>17, CallIsReal DEF TypeOK, call_fails
  <2>2. call' \in Calls /\ reports' \in SUBSET Nat
    BY <1>17, <2>1 DEF TypeOK, call_fails, Calls
  <2> QED
    BY <1>17, <2>2 DEF TypeOK, call_fails, conn_vars
<1>18. CASE pass_accepted_conn_handle
  <2>1. Head(inbox) \in Conn /\ Tail(inbox) \in Seq(Conn) /\ update_handle(Head(inbox))
    BY <1>18 DEF pass_accepted_conn_handle, TypeOK
  <2> QED
    BY <1>18, <2>1, UpdateHandleType DEF TypeOK, pass_accepted_conn_handle, Calls
<1>19. CASE manager_cancelled
  BY <1>19 DEF TypeOK, manager_cancelled, set_state_disconnected, States, Calls
<1>20. CASE manager_fails
  BY <1>20 DEF TypeOK, manager_fails, Calls, conn_vars
<1>21. CASE close
  BY <1>21 DEF TypeOK, close, set_state_disconnected, States
<1>22. CASE UNCHANGED vars
  BY <1>22 DEF TypeOK, vars
<1> QED
  BY <1>1, <1>2, <1>3, <1>4, <1>5, <1>6, <1>7, <1>8, <1>9, <1>10, <1>11, <1>12, <1>13,
     <1>14, <1>15, <1>16, <1>17, <1>18, <1>19, <1>20, <1>21, <1>22
  DEF Next, reconnect, run

-----------------------------------------------------------------------------
(* Identifiers, calls and reports.                                         *)

IdInv == IdsAreUnique /\ CallIdIsOwn /\ ReportsAreIssued /\ ReportsAreTrue

\* A step that issues no identifier, sends no report and starts no call keeps
\* what is known about identifiers.
LEMMA SameIds ==
    ASSUME IInv, TypeOK',
           UNCHANGED <<id, next_id, origin>>, dead \subseteq dead',
           reports' \subseteq reports, call' = call \/ call' = NoCall
    PROVE  IdInv'
  BY DEF IdInv, IInv, IdsAreUnique, CallIdIsOwn, ReportsAreIssued, ReportsAreTrue,
         Established

\* Giving one transport the next identifier, when it is established or when
\* the current identifier is rotated, keeps it too.
LEMMA FreshId ==
    ASSUME IInv, TypeOK', NEW e \in Conn,
           id' = [id EXCEPT ![e] = next_id], next_id' = next_id + 1,
           Established' \subseteq Established \cup {e},
           UNCHANGED <<dead, reports>>, call' = call \/ call' = NoCall
    PROVE  IdInv'
<1>1. \A c \in Conn : id'[c] = IF c = e THEN next_id ELSE id[c]
  BY DEF IInv, TypeOK
<1>2. Established' \subseteq Conn
  BY DEF Established
<1>3. IdsAreUnique'
  BY <1>1, <1>2 DEF IInv, TypeOK, IdsAreUnique
<1>4. CallIdIsOwn'
  <2>1. SUFFICES ASSUME call' # NoCall PROVE CallIdIsOwn'
    BY DEF CallIdIsOwn, NoCall
  <2>2. call' = call /\ call # NoCall /\ call.id < next_id /\ call.id \in Nat
    BY <2>1 DEF IInv, TypeOK, CallIdIsOwn, Calls
  <2> QED
    BY <1>1, <1>2, <2>2 DEF IInv, TypeOK, CallIdIsOwn
<1>5. ReportsAreIssued' /\ ReportsAreTrue'
  BY <1>1, <1>2 DEF IInv, TypeOK, ReportsAreIssued, ReportsAreTrue
<1> QED
  BY <1>3, <1>4, <1>5 DEF IdInv

\* update_handle keeps what is known about identifiers, and the handle it
\* leaves in place is established.
LEMMA UpdateHandleInv ==
    ASSUME IInv, TypeOK', NEW c \in Established, update_handle(c),
           UNCHANGED <<origin, dead, reports>>, call' = call \/ call' = NoCall
    PROVE  IdInv' /\ handle' \in Established'
<1>1. Established' = Established /\ c \in Conn
  BY DEF Established
<1>2. CASE Rejects(c)
  <2>1. handle \in Established
    BY <1>2 DEF IInv, TypeOK, Rejects, HandlesAreEstablished
  <2>2. handle \in Conn
    BY <2>1 DEF Established
  <2>3. UNCHANGED handle /\ id' = [id EXCEPT ![handle] = next_id] /\ next_id' = next_id + 1
    BY <1>2 DEF update_handle
  <2>4. IdInv'
    BY <1>1, <2>2, <2>3, FreshId
  <2> QED
    BY <1>1, <2>1, <2>3, <2>4
<1>3. CASE ~Rejects(c)
  <2>1. handle' = c /\ UNCHANGED <<id, next_id>>
    BY <1>3 DEF update_handle
  <2>2. IdInv'
    BY <2>1, SameIds
  <2> QED
    BY <1>1, <2>1, <2>2
<1> QED
  BY <1>2, <1>3

-----------------------------------------------------------------------------
(* Every action keeps the inductive invariant.                             *)

\* The steps that leave identifiers, established transports, replies and the
\* inbox alone, and keep or give up the handle.
LEMMA PassiveStep ==
    ASSUME IInv, TypeOK',
           UNCHANGED <<id, next_id, origin, reply, inbox>>, dead \subseteq dead',
           reports' \subseteq reports, call' = call \/ call' = NoCall,
           handle' = handle \/ handle' = NoConn,
           \A t \in Task : task[t] = "answered" /\ reply[t] # NoConn => task'[t] = "answered"
    PROVE  IdInv' /\ HandlesAreEstablished'
<1>1. IdInv'
  BY SameIds
<1>2. HandlesAreEstablished'
  BY DEF IInv, HandlesAreEstablished, Established
<1> QED
  BY <1>1, <1>2

\* The inductive invariant is kept by every step.
LEMMA InvStep == IInv /\ [Next]_vars => IInv'
<1> SUFFICES ASSUME IInv, [Next]_vars PROVE IdInv' /\ HandlesAreEstablished'
  BY TypeStep DEF IInv, IdInv
<1>0. TypeOK /\ TypeOK'
  BY TypeStep DEF IInv
<1>1. CASE notify
  BY <1>0, <1>1, PassiveStep DEF notify, conn_vars, actor_vars
<1>2. ASSUME NEW i \in reports, set_state_disconnected_if_id_matches(i)
      PROVE  IdInv' /\ HandlesAreEstablished'
  BY <1>0, <1>2, PassiveStep DEF set_state_disconnected_if_id_matches, actor_vars
<1>3. ASSUME NEW t \in Task, reconnect_start(t) PROVE IdInv' /\ HandlesAreEstablished'
  <2>1. \A u \in Task : task[u] = "answered" => task'[u] = "answered"
    BY <1>0, <1>3 DEF reconnect_start, TypeOK
  <2> QED
    BY <1>0, <1>3, <2>1, PassiveStep DEF reconnect_start, conn_vars, actor_vars
<1>4. ASSUME NEW t \in Task, reconnect_request(t) PROVE IdInv' /\ HandlesAreEstablished'
  <2>1. \A u \in Task : task[u] = "answered" => task'[u] = "answered"
    BY <1>0, <1>4 DEF reconnect_request, TypeOK
  <2> QED
    BY <1>0, <1>4, <2>1, PassiveStep DEF reconnect_request, conn_vars, actor_vars
<1>5. ASSUME NEW t \in Task, reconnect_request_fails(t)
      PROVE  IdInv' /\ HandlesAreEstablished'
  <2>1. \A u \in Task : task[u] = "answered" => task'[u] = "answered"
    BY <1>0, <1>5 DEF reconnect_request_fails, TypeOK
  <2> QED
    BY <1>0, <1>5, <2>1, PassiveStep
    DEF reconnect_request_fails, set_state_if_reconnecting, conn_vars, actor_vars
<1>6. ASSUME NEW t \in Task, reconnect_dialed(t) PROVE IdInv' /\ HandlesAreEstablished'
  <2>1. reply[t] \in Established /\ update_handle(reply[t])
    BY <1>6 DEF reconnect_dialed, IInv, HandlesAreEstablished
  <2>2. IdInv' /\ handle' \in Established'
    BY <1>0, <1>6, <2>1, UpdateHandleInv DEF reconnect_dialed, actor_vars
  <2>3. HandlesAreEstablished'
    BY <1>0, <1>6, <2>2
    DEF IInv, HandlesAreEstablished, Established, reconnect_dialed, actor_vars, TypeOK
  <2> QED
    BY <2>2, <2>3
<1>7. ASSUME NEW t \in Task, reconnect_failed(t) PROVE IdInv' /\ HandlesAreEstablished'
  <2>1. \A u \in Task : task[u] = "answered" /\ reply[u] # NoConn => task'[u] = "answered"
    BY <1>0, <1>7 DEF reconnect_failed, TypeOK
  <2> QED
    BY <1>0, <1>7, <2>1, PassiveStep
    DEF reconnect_failed, set_state_if_reconnecting, conn_vars, actor_vars
<1>8. ASSUME NEW t \in Task, NEW c \in Conn, dial_endpoint(t, c)
      PROVE  IdInv' /\ HandlesAreEstablished'
  <2>1. Established' = Established \cup {c}
    BY <1>0, <1>8 DEF dial_endpoint, process_established_connection, Established, TypeOK
  <2>2. IdInv'
    BY <1>0, <1>8, <2>1, FreshId
    DEF dial_endpoint, process_established_connection, actor_vars
  <2>3. HandlesAreEstablished'
    BY <1>0, <1>8, <2>1 DEF IInv, HandlesAreEstablished, dial_endpoint, actor_vars, TypeOK
  <2> QED
    BY <2>2, <2>3
<1>9. ASSUME NEW t \in Task, dial_endpoint_fails(t) PROVE IdInv' /\ HandlesAreEstablished'
  <2>1. \A u \in Task : task[u] = "answered" => task'[u] = "answered"
    BY <1>0, <1>9 DEF dial_endpoint_fails, TypeOK
  <2> QED
    BY <1>0, <1>9, <2>1, PassiveStep DEF dial_endpoint_fails, conn_vars, actor_vars
<1>10. ASSUME NEW c \in Conn, accept_conn(c) PROVE IdInv' /\ HandlesAreEstablished'
  <2>1. Established' = Established \cup {c}
    BY <1>0, <1>10 DEF accept_conn, process_established_connection, Established, TypeOK
  <2>2. IdInv'
    BY <1>0, <1>10, <2>1, FreshId DEF accept_conn, process_established_connection
  <2>3. \A i \in 1..Len(inbox') : inbox'[i] \in Established \cup {c}
    <3>1. inbox \in Seq(Conn) /\ \A i \in 1..Len(inbox) : inbox[i] \in Established
      BY <1>0 DEF IInv, HandlesAreEstablished, TypeOK
    <3>2. inbox' = inbox \/ inbox' = Append(inbox, c)
      BY <1>10 DEF accept_conn
    <3>3. ASSUME NEW s \in Seq(Conn), NEW i \in 1..Len(Append(s, c))
          PROVE  (i \in 1..Len(s) /\ Append(s, c)[i] = s[i]) \/ Append(s, c)[i] = c
      OBVIOUS
    <3> QED
      BY <3>1, <3>2, <3>3
  <2>4. HandlesAreEstablished'
    BY <1>10, <2>1, <2>3 DEF IInv, HandlesAreEstablished, accept_conn
  <2> QED
    BY <2>2, <2>4
<1>11. ASSUME NEW c \in Conn, transport_ends(c) PROVE IdInv' /\ HandlesAreEstablished'
  BY <1>0, <1>11, PassiveStep DEF transport_ends, actor_vars
<1>12. CASE protocol_shutdown
  BY <1>0, <1>12, PassiveStep DEF protocol_shutdown
<1>13. CASE tick_reconnect
  <2>1. \A u \in Task : task[u] = "answered" => task'[u] = "answered"
    BY <1>0, <1>13 DEF tick_reconnect, TypeOK
  <2> QED
    BY <1>0, <1>13, <2>1, PassiveStep DEF tick_reconnect, conn_vars
<1>14. ASSUME call' = NoCall \/ (state = "Connected" /\ call'.conn = handle
                                   /\ call'.id = id[handle]),
              UNCHANGED <<handle, conn_vars, task, reply, inbox, reports>>
       PROVE  IdInv' /\ HandlesAreEstablished'
  <2>1. CASE call' = NoCall
    BY <1>0, <1>14, <2>1, PassiveStep DEF conn_vars
  <2>2. CASE call' # NoCall
    <3>1. handle \in Established /\ handle \in Conn
      BY <1>0, <1>14, <2>2 DEF IInv, TypeOK, HandlesAreEstablished, Established
    <3>2. CallIdIsOwn'
      BY <1>14, <2>2, <3>1 DEF IInv, IdsAreUnique, CallIdIsOwn, Established, conn_vars
    <3>3. IdsAreUnique' /\ ReportsAreIssued' /\ ReportsAreTrue' /\ HandlesAreEstablished'
      BY <1>14 DEF IInv, IdsAreUnique, ReportsAreIssued, ReportsAreTrue,
                   HandlesAreEstablished, Established, conn_vars
    <3> QED
      BY <3>2, <3>3 DEF IdInv
  <2> QED
    BY <2>1, <2>2
<1>15. CASE send_message
  BY <1>14, <1>15 DEF send_message
<1>16. CASE receive
  <2>1. state = "Connected"
    BY <1>16 DEF receive, LockFree, public_state
  <2> QED
    BY <1>14, <1>16, <2>1 DEF receive
<1>17. CASE call_returns
  BY <1>14, <1>17 DEF call_returns
<1>18. ASSUME NEW op \in {"send", "receive"}, call_fails(op)
       PROVE  IdInv' /\ HandlesAreEstablished'
  <2>1. call # NoCall /\ call.id \in Nat
    BY <1>0, <1>18, CallIsReal DEF TypeOK, call_fails
  <2>2. call.id < next_id /\ \A c \in Established : id[c] = call.id => c \in dead
    BY <1>18, <2>1 DEF IInv, CallIdIsOwn, call_fails
  <2>3. ReportsAreIssued' /\ ReportsAreTrue'
    BY <1>18, <2>2
    DEF IInv, ReportsAreIssued, ReportsAreTrue, Established, call_fails, conn_vars
  <2>4. IdsAreUnique' /\ CallIdIsOwn' /\ HandlesAreEstablished'
    BY <1>18 DEF IInv, IdsAreUnique, CallIdIsOwn, HandlesAreEstablished, Established,
                 NoCall, call_fails, conn_vars
  <2> QED
    BY <2>3, <2>4 DEF IdInv
<1>19. CASE pass_accepted_conn_handle
  <2>1. Head(inbox) \in Established /\ update_handle(Head(inbox))
    BY <1>0, <1>19, SMTT(30) DEF pass_accepted_conn_handle, IInv, HandlesAreEstablished, TypeOK
  <2>2. IdInv' /\ handle' \in Established'
    BY <1>0, <1>19, <2>1, UpdateHandleInv DEF pass_accepted_conn_handle
  <2>3. \A i \in 1..Len(inbox') : inbox'[i] \in Established
    BY <1>0, <1>19 DEF IInv, HandlesAreEstablished, pass_accepted_conn_handle, TypeOK
  <2>4. HandlesAreEstablished'
    BY <1>19, <2>2, <2>3
    DEF IInv, HandlesAreEstablished, Established, pass_accepted_conn_handle
  <2> QED
    BY <2>2, <2>4
<1>20. CASE manager_cancelled
  BY <1>0, <1>20, PassiveStep DEF manager_cancelled, set_state_disconnected
<1>21. CASE manager_fails
  BY <1>0, <1>21, PassiveStep DEF manager_fails, conn_vars
<1>22. CASE close
  <2>1. IdInv'
    BY <1>0, <1>22, SameIds DEF close
  <2>2. HandlesAreEstablished'
    BY <1>22 DEF IInv, HandlesAreEstablished, Established, close, set_state_disconnected
  <2> QED
    BY <2>1, <2>2
<1>23. CASE UNCHANGED vars
  BY <1>0, <1>23, PassiveStep DEF vars
<1> QED
  BY <1>1, <1>2, <1>3, <1>4, <1>5, <1>6, <1>7, <1>8, <1>9, <1>10, <1>11, <1>12, <1>13,
     <1>15, <1>16, <1>17, <1>18, <1>19, <1>20, <1>21, <1>22, <1>23
  DEF Next, reconnect, run

\* The inductive invariant holds of both constructors.
LEMMA InvInit == Init => IInv
<1> SUFFICES ASSUME Init PROVE IInv
  OBVIOUS
<1> USE ConnAssumption
<1>1. TypeOK
  BY DEF Init, TypeOK, States, TaskPhases, ConnOrigin, Calls, public_state
<1>2. IdsAreUnique /\ HandlesAreEstablished
  BY DEF Init, IdsAreUnique, HandlesAreEstablished, Established
<1>3. CallIdIsOwn /\ ReportsAreIssued /\ ReportsAreTrue
  BY DEF Init, CallIdIsOwn, ReportsAreIssued, ReportsAreTrue
<1> QED
  BY <1>1, <1>2, <1>3 DEF IInv

\* The inductive invariant holds in every reachable state.
LEMMA Invariance == Spec => []IInv
  BY InvInit, InvStep, PTL DEF Spec

-----------------------------------------------------------------------------
(* The theorems.                                                           *)

\* Every reachable state of a connection is well typed, and has a handle
\* exactly when it is Connected.
THEOREM TypeCorrect == Spec => []TypeOK
<1>1. IInv => TypeOK
  BY DEF IInv
<1> QED
  BY <1>1, Invariance, PTL

\* A disconnect report that is still pending never names the identifier of a
\* transport that works: set_state_disconnected_if_id_matches is safe to run
\* at any later time.
THEOREM ReportsStayTrue == Spec => []ReportsAreTrue
<1>1. IInv => ReportsAreTrue
  BY DEF IInv
<1> QED
  BY <1>1, Invariance, PTL

\* The state is never Reconnecting without a reconnect task that will report
\* the outcome of its dial.
THEOREM ReconnectingIsOwned == Spec => []ReconnectingHasDialer
<1>1. Init => ReconnectingHasDialer
  BY DEF Init, ReconnectingHasDialer
<1>2. ASSUME IInv, ReconnectingHasDialer, [Next]_vars PROVE ReconnectingHasDialer'
  <2>0. TypeOK /\ TypeOK'
    BY <1>2, TypeStep DEF IInv
  <2>1. ASSUME state' = state \/ state' # "Reconnecting",
               \A t \in Task : task[t] \in InProgress => task'[t] \in InProgress
        PROVE  ReconnectingHasDialer'
    BY <1>2, <2>1 DEF ReconnectingHasDialer
  <2>2. ASSUME state' # "Reconnecting" PROVE ReconnectingHasDialer'
    BY <2>2 DEF ReconnectingHasDialer
  <2>3. ASSUME NEW c \in Conn, update_handle(c) PROVE state' # "Reconnecting"
    BY <2>0, <2>3, UpdateHandleType
  <2>4. ASSUME set_state_if_reconnecting PROVE state' # "Reconnecting"
    BY <2>4 DEF set_state_if_reconnecting
  <2>5. ASSUME NEW i \in reports, set_state_disconnected_if_id_matches(i)
        PROVE  ReconnectingHasDialer'
    BY <2>1, <2>5 DEF set_state_disconnected_if_id_matches
  <2>6. ASSUME NEW t \in Task, reconnect(t) PROVE ReconnectingHasDialer'
    <3>1. CASE reconnect_start(t)
      BY <1>2, <2>0, <3>1 DEF reconnect_start, ReconnectingHasDialer, InProgress, TypeOK
    <3>2. CASE reconnect_request(t)
      BY <2>0, <2>1, <3>2 DEF reconnect_request, InProgress, TypeOK
    <3>3. CASE reconnect_request_fails(t) \/ reconnect_failed(t)
      BY <2>2, <2>4, <3>3 DEF reconnect_request_fails, reconnect_failed
    <3>4. CASE reconnect_dialed(t)
      <4>1. reply[t] \in Conn
        BY <2>0, <3>4 DEF reconnect_dialed, TypeOK
      <4> QED
        BY <2>2, <2>3, <3>4, <4>1 DEF reconnect_dialed
    <3> QED
      BY <2>6, <3>1, <3>2, <3>3, <3>4 DEF reconnect
  <2>7. ASSUME NEW t \in Task, \/ dial_endpoint_fails(t)
                               \/ \E c \in Conn : dial_endpoint(t, c)
        PROVE  ReconnectingHasDialer'
    BY <2>0, <2>1, <2>7 DEF dial_endpoint_fails, dial_endpoint, InProgress, TypeOK
  <2>8. CASE tick_reconnect
    BY <2>0, <2>1, <2>8 DEF tick_reconnect, InProgress, TypeOK
  <2>9. CASE pass_accepted_conn_handle
    <3>1. Head(inbox) \in Conn /\ UNCHANGED task
      BY <2>0, <2>9 DEF pass_accepted_conn_handle, TypeOK
    <3> QED
      BY <2>1, <2>3, <2>9, <3>1 DEF pass_accepted_conn_handle
  <2>10. CASE manager_cancelled \/ close
    BY <2>1, <2>10 DEF manager_cancelled, close, set_state_disconnected
  <2>11. CASE UNCHANGED <<state, task>>
    BY <2>1, <2>11
  <2> QED
    BY <1>2, <2>5, <2>6, <2>7, <2>8, <2>9, <2>10, <2>11
    DEF Next, run, notify, accept_conn, transport_ends, protocol_shutdown, send_message,
        receive, call_returns, call_fails, manager_fails, vars
<1> QED
  BY <1>1, <1>2, Invariance, PTL DEF Spec

\* A transport in use that still works is given up only for another one or
\* because the manager is closing the chat.
THEOREM HealthyKept == Spec => HealthyTransportKept
<1> DEFINE Kept == \/ handle = NoConn
                   \/ handle \in dead
                   \/ handle' = handle
                   \/ handle' # NoConn
                   \/ manager' # "running"
<1>1. ASSUME IInv, [Next]_vars PROVE [Kept]_vars
  <2>0. TypeOK
    BY <1>1 DEF IInv
  <2>1. ASSUME NEW c \in Conn, update_handle(c) PROVE handle' # NoConn
    BY <2>0, <2>1, UpdateHandleType, ConnAssumption
  <2>2. ASSUME NEW i \in reports, set_state_disconnected_if_id_matches(i) PROVE Kept
    <3>1. ASSUME state = "Connected", id[handle] = i PROVE handle \in dead
      BY <1>1, <2>0, <2>2, <3>1 DEF IInv, TypeOK, HandlesAreEstablished, ReportsAreTrue
    <3> QED
      BY <2>2, <3>1 DEF set_state_disconnected_if_id_matches
  <2>3. ASSUME NEW t \in Task, reconnect(t) PROVE Kept
    <3>1. CASE reconnect_dialed(t)
      <4>1. reply[t] \in Conn
        BY <2>0, <3>1 DEF reconnect_dialed, TypeOK
      <4> QED
        BY <2>1, <3>1, <4>1 DEF reconnect_dialed
    <3> QED
      BY <2>3, <3>1 DEF reconnect, reconnect_start, reconnect_request,
         reconnect_request_fails, reconnect_failed, set_state_if_reconnecting
  <2>4. CASE pass_accepted_conn_handle
    <3>1. Head(inbox) \in Conn
      BY <2>0, <2>4 DEF pass_accepted_conn_handle, TypeOK
    <3> QED
      BY <2>1, <2>4, <3>1 DEF pass_accepted_conn_handle
  <2>5. CASE manager_cancelled \/ close
    BY <2>5 DEF manager_cancelled, close
  <2>6. CASE UNCHANGED handle
    BY <2>6
  <2> QED
    BY <1>1, <2>2, <2>3, <2>4, <2>5, <2>6
    DEF Next, run, notify, dial_endpoint, dial_endpoint_fails, accept_conn, transport_ends,
        protocol_shutdown, tick_reconnect, send_message, receive, call_returns,
        call_fails, manager_fails, vars
<1> QED
  BY <1>1, Invariance, PTL DEF Spec, HealthyTransportKept

\* At any time only the current transport, and those on their way to
\* update_handle, have not been told to shut down.
THEOREM SingleTransport == Spec => []SupersededIsCancelled
<1> DEFINE OnItsWay(c) == (\E t \in Task : reply[t] = c) \/ InInbox(c)
           Ok(c)      == c \in cancelled \/ c = handle \/ OnItsWay(c) \/ manager = "gone"
<1>1. Init => SupersededIsCancelled
  BY DEF Init, SupersededIsCancelled, Established
<1>2. ASSUME IInv, SupersededIsCancelled, [Next]_vars PROVE SupersededIsCancelled'
  <2>0. TypeOK /\ TypeOK' /\ \A c \in Established : Ok(c)
    BY <1>2, TypeStep DEF IInv, SupersededIsCancelled
  <2>1. SUFFICES ASSUME NEW c \in Established' PROVE Ok(c)'
    BY DEF SupersededIsCancelled
  <2>2. ASSUME c \in Established, cancelled \subseteq cancelled',
               handle' = handle \/ handle = NoConn \/ handle \in cancelled',
               OnItsWay(c) => OnItsWay(c)' \/ c \in cancelled' \/ c = handle',
               manager = "gone" => manager' = "gone"
        PROVE  Ok(c)'
    <3>1. c # NoConn
      BY <2>1, ConnAssumption DEF Established
    <3> QED
      BY <2>0, <2>2, <3>1
  <2>3. ASSUME UNCHANGED origin PROVE c \in Established
    BY <2>1, <2>3 DEF Established
  <2>4. ASSUME UNCHANGED <<reply, inbox>> PROVE OnItsWay(c) => OnItsWay(c)'
    BY <2>4 DEF InInbox
  <2>5. ASSUME NEW d \in Conn, update_handle(d)
        PROVE  /\ cancelled \subseteq cancelled'
               /\ handle' = handle \/ handle = NoConn \/ handle \in cancelled'
               /\ d \in cancelled' \/ d = handle'
    BY <2>5 DEF update_handle
  <2>6. ASSUME NEW t \in Task, reconnect_dialed(t) PROVE Ok(c)'
    <3>1. reply[t] \in Conn /\ update_handle(reply[t])
      BY <2>0, <2>6 DEF reconnect_dialed, TypeOK
    <3>2. c = reply[t] \/ (OnItsWay(c) => OnItsWay(c)')
      BY <2>0, <2>6 DEF reconnect_dialed, InInbox, actor_vars, TypeOK
    <3> QED
      BY <2>2, <2>3, <2>5, <2>6, <3>1, <3>2 DEF reconnect_dialed, actor_vars
  <2>7. ASSUME NEW t \in Task, NEW d \in Conn, dial_endpoint(t, d) PROVE Ok(c)'
    <3>1. reply[t] = NoConn /\ reply' = [reply EXCEPT ![t] = d] /\ UNCHANGED inbox
      BY <1>2, <2>0, <2>7 DEF dial_endpoint, IInv, HandlesAreEstablished, actor_vars
    <3>2. c # NoConn /\ \A u \in Task : reply'[u] = IF u = t THEN d ELSE reply[u]
      BY <2>0, <2>1, <3>1, ConnAssumption DEF TypeOK, Established
    <3>3. CASE c = d
      BY <3>2, <3>3
    <3>4. CASE c # d
      <4>1. c \in Established
        BY <2>0, <2>1, <2>7, <3>4
        DEF dial_endpoint, process_established_connection, Established, TypeOK
      <4>2. OnItsWay(c) => OnItsWay(c)'
        BY <3>1, <3>2 DEF InInbox
      <4> QED
        BY <2>2, <2>7, <4>1, <4>2
        DEF dial_endpoint, process_established_connection, actor_vars
    <3> QED
      BY <3>3, <3>4
  <2>8. ASSUME NEW d \in Conn, accept_conn(d) PROVE Ok(c)'
    <3>1. CASE manager = "gone"
      BY <2>8, <3>1 DEF accept_conn
    <3>2. CASE manager # "gone"
      <4>1. inbox' = Append(inbox, d) /\ UNCHANGED reply
        BY <2>8, <3>2 DEF accept_conn
      <4>2. \A e \in Conn : InInbox(e) \/ e = d => InInbox(e)'
        <5>1. /\ Len(inbox') = Len(inbox) + 1 /\ Len(inbox) \in Nat
              /\ inbox'[Len(inbox) + 1] = d
              /\ \A i \in 1..Len(inbox) : inbox'[i] = inbox[i]
          BY <2>0, <4>1, SMTT(30) DEF TypeOK
        <5>2. InInbox(d)'
          BY <5>1 DEF InInbox
        <5>3. ASSUME NEW e \in Conn, InInbox(e) PROVE InInbox(e)'
          BY <5>1, <5>3 DEF InInbox
        <5> QED
          BY <5>2, <5>3
      <4>3. c \in Conn /\ (c = d \/ c \in Established)
        BY <2>0, <2>1, <2>8
        DEF accept_conn, process_established_connection, Established, TypeOK
      <4> QED
        BY <2>2, <2>8, <4>1, <4>2, <4>3 DEF accept_conn, process_established_connection
    <3> QED
      BY <3>1, <3>2
  <2>9. CASE pass_accepted_conn_handle
    <3>1. /\ Head(inbox) \in Conn /\ update_handle(Head(inbox))
          /\ inbox' = Tail(inbox) /\ inbox \in Seq(Conn) /\ inbox # <<>>
          /\ UNCHANGED <<reply, origin, manager>>
      BY <2>0, <2>9 DEF pass_accepted_conn_handle, TypeOK
    <3>2. InInbox(c) => c = Head(inbox) \/ InInbox(c)'
      <4> SUFFICES ASSUME NEW i \in 1..Len(inbox), inbox[i] = c, c # Head(inbox)
                   PROVE  InInbox(c)'
        BY DEF InInbox
      <4>1. i - 1 \in 1..Len(inbox') /\ inbox'[i - 1] = c
        BY <3>1
      <4> QED
        BY <4>1 DEF InInbox
    <3> QED
      BY <2>2, <2>3, <2>5, <3>1, <3>2
  <2>10. CASE manager_cancelled
    BY <2>2, <2>3, <2>4, <2>10 DEF manager_cancelled, set_state_disconnected, ManagerFree
  <2>11. CASE close
    BY <2>11 DEF close
  <2>12. ASSUME NEW i \in reports, set_state_disconnected_if_id_matches(i) PROVE Ok(c)'
    BY <2>2, <2>3, <2>4, <2>12 DEF set_state_disconnected_if_id_matches, actor_vars
  <2>13. ASSUME NEW t \in Task, reconnect(t), ~reconnect_dialed(t) PROVE Ok(c)'
    BY <2>2, <2>3, <2>4, <2>13
    DEF reconnect, reconnect_start, reconnect_request, reconnect_request_fails,
        reconnect_failed, set_state_if_reconnecting, conn_vars, actor_vars
  <2>14. CASE protocol_shutdown
    BY <2>2, <2>3, <2>4, <2>14 DEF protocol_shutdown
  <2>15. CASE manager_fails
    BY <2>2, <2>3, <2>4, <2>15 DEF manager_fails, ManagerFree, conn_vars
  <2>16. CASE UNCHANGED <<handle, origin, cancelled, reply, inbox, manager>>
    BY <2>2, <2>3, <2>4, <2>16
  <2> QED
    BY <1>2, <2>6, <2>7, <2>8, <2>9, <2>10, <2>11, <2>12, <2>13, <2>14, <2>15, <2>16
    DEF Next, run, notify, dial_endpoint_fails, transport_ends, tick_reconnect,
        send_message, receive, call_returns, call_fails, conn_vars, actor_vars, vars
<1> QED
  BY <1>1, <1>2, Invariance, PTL DEF Spec
==============================================================================
