------------------------- MODULE ChatRepositoryProofs -------------------------
(***************************************************************************)
(* Durability of a ChatRepository for any set of changes and any log       *)
(* limit: acknowledged messages survive and stay visible, the tables stay  *)
(* causally closed, nothing is sent before it is stored, and the           *)
(* repository implements DurableChat.                                      *)
(***************************************************************************)
EXTENDS ChatRepository, TLAPS

-----------------------------------------------------------------------------
(* The inductive invariant.                                                *)

Closed(S) == \A c \in S : past[c] \subseteq S

\* Only changes that were made are anywhere.
OnlyCreated == Persisted \cup doc \cup remote \subseteq created

\* What is kept is causally closed, on disk and in memory.
AllClosed == Closed(Persisted) /\ Closed(doc)

\* The saved heads are on disk; a message about to be acknowledged is in the
\* document, and on disk once its row is written; without a row in chats
\* there is no snapshot.
OnDisk ==
    /\ last_saved \subseteq Persisted
    /\ acked \subseteq Persisted
    /\ pending \subseteq doc
    /\ pc = "added" => pending \subseteq Persisted
    /\ ~has_row => snapshot = {}

IInv == TypeOK /\ OnlyCreated /\ AllClosed /\ OnDisk

\* In a closed set of changes everything is applied.
LEMMA ClosedIsApplied ==
    ASSUME NEW S, Closed(S) PROVE Applied(S) = S
  BY DEF Applied, Closed

\* The rows of the log after one more is appended.
LEMMA LoggedAppend ==
    ASSUME chat_log \in Seq(SUBSET Change), NEW S \in SUBSET Change,
           chat_log' = Append(chat_log, S)
    PROVE  Logged' = Logged \cup S
<1>1. /\ Len(chat_log') = Len(chat_log) + 1 /\ Len(chat_log) \in Nat
      /\ chat_log'[Len(chat_log) + 1] = S
      /\ \A i \in 1..Len(chat_log) : chat_log'[i] = chat_log[i]
  OBVIOUS
<1>2. Logged' = UNION {chat_log'[i] : i \in 1..(Len(chat_log) + 1)}
  BY <1>1 DEF Logged
<1>3. ASSUME NEW c PROVE c \in Logged' <=> c \in Logged \cup S
  BY <1>1, <1>2 DEF Logged
<1> QED
  BY <1>3

\* persist_chat puts the whole document on disk, and loses nothing.
LEMMA PersistChat ==
    ASSUME IInv, persist_chat, UNCHANGED snapshot
    PROVE  /\ Persisted' = Persisted \cup doc
           /\ last_saved' \in SUBSET Change
           /\ last_saved' \subseteq Persisted'
           /\ chat_log' \in Seq(SUBSET Change)
<1>1. CASE doc = last_saved /\ UNCHANGED <<chat_log, last_saved>>
  BY <1>1 DEF IInv, TypeOK, OnDisk, Persisted, Logged
<1>2. CASE /\ chat_log' = Append(chat_log, doc \ last_saved)
           /\ last_saved' = doc
  <2>1. Logged' = Logged \cup (doc \ last_saved)
    BY <1>2, LoggedAppend DEF IInv, TypeOK
  <2>2. Persisted' = Persisted \cup doc
    BY <2>1 DEF Persisted, IInv, OnDisk
  <2> QED
    BY <1>2, <2>2 DEF IInv, TypeOK
<1> QED
  BY <1>1, <1>2 DEF persist_chat

\* Loading, compacting or creating keeps everything on disk, and the document
\* it returns is closed and on disk.
LEMMA GetPersisted ==
    ASSUME IInv, get_persisted_doc_state
    PROVE  /\ Persisted \subseteq Persisted'
           /\ doc' \subseteq Persisted'
           /\ last_saved' = doc'
           /\ Persisted' \subseteq created' /\ created \subseteq created'
           /\ created' \in SUBSET Change
           /\ snapshot' \in SUBSET Change /\ has_row' \in BOOLEAN /\ has_row'
           /\ chat_log' \in Seq(SUBSET Change)
           /\ past' \in [Change -> SUBSET Change] /\ UNCHANGED list
           /\ AllClosed'
<1>0. Loadable = Persisted /\ Logged \subseteq Change /\ Persisted \in SUBSET Change
  <2>1. Loadable = Persisted
    BY ClosedIsApplied DEF IInv, AllClosed, Loadable
  <2>2. Persisted \in SUBSET Change
    BY DEF IInv, TypeOK, OnlyCreated
  <2> QED
    BY <2>1, <2>2 DEF Persisted
<1>1. CASE get_persisted_doc_state_loads
  <2>1. doc' = Persisted /\ last_saved' = Persisted
    BY <1>0, <1>1 DEF get_persisted_doc_state_loads
  <2>2. Persisted' = Persisted
    <3>1. CASE snapshot' = Loadable /\ chat_log' = <<>>
      <4>1. Logged' = {}
        BY <3>1 DEF Logged
      <4> QED
        BY <1>0, <3>1, <4>1 DEF Persisted
    <3>2. CASE UNCHANGED <<snapshot, chat_log>>
      BY <3>2 DEF Persisted, Logged
    <3> QED
      BY <1>1, <3>1, <3>2 DEF get_persisted_doc_state_loads
  <2>3. UNCHANGED <<past, list, created>>
    BY <1>1 DEF get_persisted_doc_state_loads, change_vars
  <2>4. AllClosed'
    BY <2>1, <2>2, <2>3 DEF IInv, AllClosed, Closed
  <2>5. snapshot' \in SUBSET Change /\ chat_log' \in Seq(SUBSET Change)
    <3>1. CASE snapshot' = Loadable /\ chat_log' = <<>>
      BY <1>0, <3>1
    <3>2. CASE UNCHANGED <<snapshot, chat_log>>
      BY <3>2 DEF IInv, TypeOK
    <3> QED
      BY <1>1, <3>1, <3>2 DEF get_persisted_doc_state_loads
  <2>6. has_row' \in BOOLEAN /\ has_row'
    BY <1>1 DEF get_persisted_doc_state_loads, IInv, TypeOK
  <2> QED
    BY <2>1, <2>2, <2>3, <2>4, <2>5, <2>6 DEF IInv, TypeOK, OnlyCreated
<1>2. ASSUME NEW c \in Change, get_persisted_doc_state_creates(c)
      PROVE  /\ Persisted' = Persisted \cup {c}
             /\ AllClosed'
  <2>1. /\ snapshot = {} /\ snapshot' = {c} /\ doc' = {c} /\ UNCHANGED chat_log
        /\ past' = [past EXCEPT ![c] = {}] /\ c \notin created
    BY <1>2 DEF get_persisted_doc_state_creates, IInv, OnDisk
  <2>2. Persisted' = Persisted \cup {c}
    BY <2>1 DEF Persisted, Logged
  <2>3. past'[c] = {} /\ \A d \in Persisted : past'[d] = past[d]
    BY <2>1, <1>0 DEF IInv, TypeOK, OnlyCreated
  <2>4. AllClosed'
    BY <2>1, <2>2, <2>3 DEF IInv, AllClosed, Closed
  <2> QED
    BY <2>2, <2>4
<1>3. ASSUME NEW c \in Change, get_persisted_doc_state_creates(c)
      PROVE  /\ doc' = {c} /\ last_saved' = {c} /\ has_row' \in BOOLEAN /\ has_row'
             /\ created' = created \cup {c} /\ snapshot' \in SUBSET Change
             /\ chat_log' \in Seq(SUBSET Change)
             /\ past' \in [Change -> SUBSET Change] /\ UNCHANGED list
  BY <1>3 DEF get_persisted_doc_state_creates, IInv, TypeOK
<1>4. CASE \E c \in Change : get_persisted_doc_state_creates(c)
  <2>1. PICK c \in Change : get_persisted_doc_state_creates(c)
    BY <1>4
  <2>2. Persisted' = Persisted \cup {c} /\ AllClosed'
    BY <1>2, <2>1
  <2>3. Persisted' \subseteq created' /\ created' \in SUBSET Change
    BY <1>3, <2>1, <2>2 DEF IInv, TypeOK, OnlyCreated
  <2> QED
    BY <1>3, <2>1, <2>2, <2>3
<1> QED
  BY <1>1, <1>4 DEF get_persisted_doc_state

\* What leaves the process is part of the document.
LEMMA Sent ==
    ASSUME IInv, generate_sync_message,
           doc' \subseteq created', created' \in SUBSET Change, created \subseteq created'
    PROVE  remote' \in SUBSET Change /\ remote' \subseteq created'
  BY DEF IInv, OnlyCreated, generate_sync_message

\* The steps that touch neither the tables, the document nor the changes made
\* keep the invariant, as long as they start no acknowledgement.
LEMMA PassiveStep ==
    ASSUME IInv, TypeOK',
           UNCHANGED <<snapshot, has_row, chat_log, doc, last_saved, past, created, acked>>,
           remote' \subseteq created, pending' \subseteq pending,
           pc' # "added"
    PROVE  IInv'
<1>1. Persisted' = Persisted
  BY DEF Persisted, Logged
<1>2. OnlyCreated'
  BY <1>1 DEF IInv, OnlyCreated
<1>3. AllClosed'
  BY <1>1 DEF IInv, AllClosed, Closed
<1>4. OnDisk'
  BY <1>1 DEF IInv, OnDisk
<1> QED
  BY <1>2, <1>3, <1>4 DEF IInv

\* A change made now has every other change's dependencies as they were.
LEMMA NewChange ==
    ASSUME IInv, NEW c \in Change \ created, NEW P, past' = [past EXCEPT ![c] = P]
    PROVE  /\ past'[c] = P
           /\ \A d \in Persisted \cup doc \cup remote : d # c /\ past'[d] = past[d]
  BY DEF IInv, TypeOK, OnlyCreated

\* Every step keeps the inductive invariant.
LEMMA InvStep == IInv /\ [Next]_vars => IInv'
<1> SUFFICES ASSUME IInv, [Next]_vars PROVE IInv'
  OBVIOUS
<1>0. TypeOK /\ OnlyCreated /\ AllClosed /\ OnDisk
  BY DEF IInv
<1>1. ASSUME get_persisted_doc_state, pc' = "idle", pending' = {}, UNCHANGED <<acked, refused>>,
             reset_doc_state' \in BOOLEAN, UNCHANGED remote \/ generate_sync_message
      PROVE  IInv'
  <2>1. /\ Persisted \subseteq Persisted' /\ doc' \subseteq Persisted' /\ last_saved' = doc'
        /\ Persisted' \subseteq created' /\ created \subseteq created'
        /\ created' \in SUBSET Change
    BY <1>1, GetPersisted
  <2>2. remote' \in SUBSET Change /\ remote' \subseteq created'
    BY <1>0, <1>1, <2>1, Sent DEF TypeOK, OnlyCreated
  <2>3. TypeOK'
    BY <1>0, <1>1, <2>1, <2>2, GetPersisted DEF TypeOK
  <2>4. OnlyCreated' /\ AllClosed'
    BY <1>1, <2>1, <2>2, GetPersisted DEF OnlyCreated
  <2>5. OnDisk'
    BY <1>0, <1>1, <2>1, GetPersisted DEF OnDisk
  <2> QED
    BY <2>3, <2>4, <2>5 DEF IInv
<1>2. CASE new
  <2>1. pending' = {}
    BY <1>0, <1>2 DEF new, TypeOK
  <2> QED
    BY <1>1, <1>2, <2>1 DEF new
<1>3. CASE reset_doc_state_to_persisted
  <2>1. pending' = {}
    BY <1>0, <1>3 DEF reset_doc_state_to_persisted, TypeOK
  <2> QED
    BY <1>1, <1>3, <2>1 DEF reset_doc_state_to_persisted
<1>4. ASSUME NEW c \in Change, add_message(c) PROVE IInv'
  <2>1. /\ c \in Change \ created /\ past' = [past EXCEPT ![c] = doc]
        /\ doc' = doc \cup {c} /\ created' = created \cup {c}
        /\ pending' = {c} /\ pc' = "adding"
        /\ UNCHANGED <<snapshot, has_row, chat_log, last_saved, reset_doc_state, remote, acked,
                       refused>>
    BY <1>4 DEF add_message, db_vars
  <2>2. Persisted' = Persisted
    BY <2>1 DEF Persisted, Logged
  <2>3. list' \in [Change -> Change \cup {NoList}]
    BY <1>0, <1>4 DEF add_message, TypeOK
  <2>4. TypeOK'
    BY <1>0, <2>1, <2>3 DEF TypeOK
  <2>5. OnlyCreated' /\ OnDisk'
    BY <1>0, <2>1, <2>2 DEF OnlyCreated, OnDisk
  <2>6. past'[c] = doc /\ \A d \in Persisted \cup doc : past'[d] = past[d]
    BY <2>1, NewChange
  <2>7. AllClosed'
    BY <1>0, <2>1, <2>2, <2>6 DEF AllClosed, Closed
  <2> QED
    BY <2>4, <2>5, <2>7 DEF IInv
<1>5. ASSUME NEW c \in Change, remote_change(c) PROVE IInv'
  <2>1. /\ c \in Change \ created /\ past' = [past EXCEPT ![c] = remote]
        /\ remote' = remote \cup {c} /\ created' = created \cup {c}
        /\ UNCHANGED <<snapshot, has_row, chat_log, doc, last_saved, reset_doc_state, pc,
                       pending, list, acked, refused>>
    BY <1>5 DEF remote_change, db_vars
  <2>2. Persisted' = Persisted
    BY <2>1 DEF Persisted, Logged
  <2>3. TypeOK'
    BY <1>0, <2>1 DEF TypeOK
  <2>4. OnlyCreated' /\ OnDisk'
    BY <1>0, <2>1, <2>2 DEF OnlyCreated, OnDisk
  <2>5. \A d \in Persisted \cup doc : past'[d] = past[d]
    BY <2>1, NewChange
  <2>6. AllClosed'
    BY <1>0, <2>1, <2>2, <2>5 DEF AllClosed, Closed
  <2> QED
    BY <2>3, <2>4, <2>6 DEF IInv
<1>6. CASE add_message_persisted \/ receive_persisted
  <2>1. /\ persist_chat
        /\ UNCHANGED <<snapshot, has_row, doc, reset_doc_state, pending, remote, past, list,
                       created, acked, refused>>
        /\ \/ pc = "adding" /\ pc' = "added"
           \/ pc = "receiving" /\ pc' = "received"
    BY <1>6 DEF add_message_persisted, receive_persisted, change_vars
  <2>2. /\ Persisted' = Persisted \cup doc /\ last_saved' \in SUBSET Change
        /\ last_saved' \subseteq Persisted' /\ chat_log' \in Seq(SUBSET Change)
    BY <2>1, PersistChat
  <2>3. TypeOK'
    BY <1>0, <2>1, <2>2 DEF TypeOK
  <2>4. OnlyCreated' /\ OnDisk'
    BY <1>0, <2>1, <2>2 DEF OnlyCreated, OnDisk
  <2>5. AllClosed'
    BY <1>0, <2>1, <2>2 DEF AllClosed, Closed
  <2> QED
    BY <2>3, <2>4, <2>5 DEF IInv
<1>7. CASE add_message_returns
  <2>1. /\ UNCHANGED <<snapshot, has_row, chat_log, doc, last_saved, reset_doc_state, past,
                       list, created, refused>>
        /\ acked' = acked \cup pending /\ pending' = {} /\ pc = "added" /\ pc' = "idle"
    BY <1>7 DEF add_message_returns, db_vars, change_vars
  <2>2. Persisted' = Persisted
    BY <2>1 DEF Persisted, Logged
  <2>3. remote' \in SUBSET Change /\ remote' \subseteq created'
    BY <1>0, <1>7, <2>1, Sent DEF add_message_returns, TypeOK, OnlyCreated
  <2>4. TypeOK'
    BY <1>0, <2>1, <2>3 DEF TypeOK
  <2>5. OnlyCreated' /\ OnDisk' /\ AllClosed'
    BY <1>0, <2>1, <2>2, <2>3 DEF OnlyCreated, OnDisk, AllClosed, Closed
  <2> QED
    BY <2>4, <2>5 DEF IInv
<1>8. ASSUME NEW S \in SUBSET remote, receive_sync_message(S) PROVE IInv'
  <2>1. /\ doc' = doc \cup S /\ pc = "idle" /\ pc' = "receiving"
        /\ \A c \in S : past[c] \subseteq doc \cup S
        /\ UNCHANGED <<snapshot, has_row, chat_log, last_saved, reset_doc_state, pending,
                       remote, past, list, created, acked, refused>>
    BY <1>8 DEF receive_sync_message, db_vars, change_vars
  <2>2. Persisted' = Persisted
    BY <2>1 DEF Persisted, Logged
  <2>3. TypeOK'
    BY <1>0, <2>1 DEF TypeOK
  <2>4. OnlyCreated' /\ OnDisk' /\ AllClosed'
    BY <1>0, <2>1, <2>2 DEF OnlyCreated, OnDisk, AllClosed, Closed
  <2> QED
    BY <2>3, <2>4 DEF IInv
<1>9. CASE receive_returns \/ receive_none \/ sync
  <2>1. /\ UNCHANGED <<snapshot, has_row, chat_log, doc, last_saved, pending, past, list,
                       created, acked, refused>>
        /\ pc \in {"received", "idle"} /\ pc' = "idle"
        /\ reset_doc_state' \in BOOLEAN
        /\ generate_sync_message
    BY <1>0, <1>9 DEF receive_returns, receive_none, sync, db_vars, change_vars, TypeOK
  <2>2. remote' \in SUBSET Change /\ remote' \subseteq created'
    BY <1>0, <2>1, Sent DEF TypeOK, OnlyCreated
  <2>3. TypeOK'
    BY <1>0, <2>1, <2>2 DEF TypeOK
  <2> QED
    BY <2>1, <2>2, <2>3, PassiveStep
<1>10. CASE add_message_fails \/ receive_fails \/ reset_fails
  <2>1. /\ UNCHANGED <<snapshot, has_row, chat_log, doc, last_saved, reset_doc_state, remote,
                       past, list, created, acked>>
        /\ pc' \in {"idle", "resetting"} /\ pending' = {} /\ refused' \in SUBSET Change
    BY <1>0, <1>10
    DEF add_message_fails, receive_fails, reset_fails, db_vars, change_vars, TypeOK
  <2>2. TypeOK'
    BY <1>0, <2>1 DEF TypeOK
  <2> QED
    BY <1>0, <2>1, <2>2, PassiveStep DEF OnlyCreated
<1>11. CASE stop
  <2>1. /\ UNCHANGED <<snapshot, has_row, chat_log, remote, past, list, created, acked, refused>>
        /\ doc' = {} /\ last_saved' = {} /\ pending' = {} /\ pc' = "down"
        /\ reset_doc_state' \in BOOLEAN
    BY <1>11 DEF stop, db_vars, change_vars
  <2>2. Persisted' = Persisted
    BY <2>1 DEF Persisted, Logged
  <2>3. TypeOK'
    BY <1>0, <2>1 DEF TypeOK
  <2>4. OnlyCreated' /\ OnDisk' /\ AllClosed'
    BY <1>0, <2>1, <2>2 DEF OnlyCreated, OnDisk, AllClosed, Closed
  <2> QED
    BY <2>3, <2>4 DEF IInv
<1>12. CASE UNCHANGED vars
  <2>1. Persisted' = Persisted
    BY <1>12 DEF Persisted, Logged, vars
  <2>2. TypeOK'
    BY <1>0, <1>12 DEF TypeOK, vars
  <2>3. OnlyCreated' /\ OnDisk' /\ AllClosed'
    BY <1>0, <1>12, <2>1 DEF OnlyCreated, OnDisk, AllClosed, Closed, vars
  <2> QED
    BY <2>2, <2>3 DEF IInv
<1> QED
  BY <1>2, <1>3, <1>4, <1>5, <1>6, <1>7, <1>8, <1>9, <1>10, <1>11, <1>12 DEF Next

\* The inductive invariant holds before the chat is first opened.
LEMMA InvInit == Init => IInv
<1> SUFFICES ASSUME Init PROVE IInv
  OBVIOUS
<1>1. Persisted = {}
  BY DEF Init, Persisted, Logged
<1>2. has_row \in BOOLEAN /\ reset_doc_state \in BOOLEAN
  BY DEF Init
<1>3. TypeOK
  BY <1>2 DEF Init, TypeOK
<1> QED
  BY <1>1, <1>3 DEF Init, IInv, OnlyCreated, AllClosed, Closed, OnDisk

\* The inductive invariant holds in every reachable state.
LEMMA Invariance == Spec => []IInv
  BY InvInit, InvStep, PTL DEF Spec

-----------------------------------------------------------------------------
(* The theorems.                                                           *)

\* Every reachable state of a repository is well typed, and a caller waits
\* exactly while its add_message is under way.
THEOREM TypeCorrect == Spec => []TypeOK
<1>1. IInv => TypeOK
  BY DEF IInv
<1> QED
  BY <1>1, Invariance, PTL

\* A load applies every change in the tables.
LEMMA LoadIsComplete == IInv => Loadable = Persisted
  BY ClosedIsApplied DEF IInv, AllClosed, Loadable

\* The tables are causally closed, whatever fails and wherever the process stops.
THEOREM TablesStayClosed == Spec => []TablesAreClosed
<1>1. IInv => TablesAreClosed
  BY LoadIsComplete DEF TablesAreClosed
<1> QED
  BY <1>1, Invariance, PTL

\* A message that was acknowledged once is found by every later load.
THEOREM AckedStaysDurable == Spec => []AckedIsDurable
<1>1. IInv => AckedIsDurable
  BY LoadIsComplete DEF IInv, OnDisk, AckedIsDurable
<1> QED
  BY <1>1, Invariance, PTL

\* The repository implements the durable chat: its history never shrinks, and
\* only what is part of it is acknowledged.
THEOREM Refinement == Spec => ImplementsDurableChat
<1>1. Init => Durable!Init
  <2> SUFFICES ASSUME Init PROVE Loadable = {} /\ acked = {}
    BY DEF Durable!Init
  <2>1. Persisted = {}
    BY DEF Init, Persisted, Logged
  <2> QED
    BY <2>1 DEF Init, Loadable, Applied
<1>2. ASSUME IInv, IInv', [Next]_vars PROVE [Durable!Next]_Durable!vars
  <2>0. Loadable = Persisted /\ Loadable' = Persisted' /\ Persisted' \in SUBSET Change
    <3>1. Loadable' = Persisted'
      BY <1>2, LoadIsComplete, ClosedIsApplied DEF IInv, AllClosed, Loadable, Applied, Closed
    <3> QED
      BY <1>2, <3>1, LoadIsComplete DEF IInv, TypeOK, OnlyCreated
  <2>1. ASSUME Persisted \subseteq Persisted', UNCHANGED acked
        PROVE  [Durable!Next]_Durable!vars
    BY <2>0, <2>1 DEF Durable!Next, Durable!Persist
  <2>2. CASE add_message_returns
    <3>1. Persisted' = Persisted
      BY <2>2 DEF add_message_returns, db_vars, Persisted, Logged
    <3>2. acked' \in SUBSET Persisted /\ acked \subseteq acked'
      BY <1>2, <2>2 DEF add_message_returns, IInv, OnDisk
    <3> QED
      BY <2>0, <3>1, <3>2 DEF Durable!Next, Durable!Acknowledge
  <2>3. CASE add_message_persisted \/ receive_persisted
    <3>1. persist_chat /\ UNCHANGED <<snapshot, acked>>
      BY <2>3 DEF add_message_persisted, receive_persisted
    <3> QED
      BY <1>2, <2>1, <3>1, PersistChat
  <2>4. CASE new \/ reset_doc_state_to_persisted
    <3>1. get_persisted_doc_state /\ UNCHANGED acked
      BY <2>4 DEF new, reset_doc_state_to_persisted
    <3> QED
      BY <1>2, <2>1, <3>1, GetPersisted
  <2>5. CASE UNCHANGED <<snapshot, chat_log, acked>>
    <3>1. Persisted' = Persisted
      BY <2>5 DEF Persisted, Logged
    <3> QED
      BY <2>1, <2>5, <3>1
  <2> QED
    BY <1>2, <2>2, <2>3, <2>4, <2>5
    DEF Next, add_message, remote_change, add_message_fails, receive_sync_message,
        receive_returns, receive_none, receive_fails, reset_fails, sync, stop, db_vars, vars
<1> QED
  BY <1>1, <1>2, Invariance, PTL DEF Spec, ImplementsDurableChat, Durable!Spec

-----------------------------------------------------------------------------
(* This endpoint's own messages.                                           *)

Own(S) == {c \in S : list[c] # NoList}

\* A running repository has a row, and all that is on disk in its document; the document
\* and the peer know only own messages that are on disk or were refused, and
\* the document also the one being added; without a refused message there is one
\* list.
OwnInv ==
    /\ \A c \in Change \ created : list[c] = NoList
    /\ \A c \in acked \cup pending : list[c] # NoList
    /\ has_row \/ (pc = "down" /\ Persisted = {})
    /\ pc = "down" \/ Persisted \subseteq doc
    /\ Own(doc) \subseteq Persisted \cup refused \cup pending
    /\ SentIsDurable
    /\ refused = {} => \A c, d \in Own(Persisted \cup doc) : list[c] = list[d]

\* A repository without an own message in flight sends only own messages that
\* are on disk or were refused.
LEMMA OwnSent ==
    ASSUME OwnInv, generate_sync_message, UNCHANGED <<list, refused>>,
           Persisted \subseteq Persisted', Own(doc') \subseteq Persisted' \cup refused
    PROVE  SentIsDurable'
  BY DEF OwnInv, Own, SentIsDurable, generate_sync_message

\* Every step keeps what is known of the own messages.
LEMMA OwnStep ==
    ASSUME IInv, IInv', OwnInv, [Next]_vars PROVE OwnInv'
<1>0. /\ TypeOK /\ OnlyCreated /\ OnDisk /\ TypeOK' /\ OnlyCreated' /\ Change \subseteq Nat
      /\ NoList \notin Change
  BY RepositoryAssumption DEF IInv, NoList
<1>1. ASSUME get_persisted_doc_state, pending = {}, pending' = {},
             UNCHANGED <<acked, refused>>
      PROVE  /\ Persisted \subseteq Persisted' /\ Own(doc') \subseteq Persisted'
             /\ SentIsDurable' => OwnInv'
  <2>1. /\ Persisted \subseteq Persisted' /\ doc' \subseteq Persisted'
        /\ created \subseteq created' /\ UNCHANGED list /\ has_row'
    BY <1>1, GetPersisted
  <2>2. /\ Persisted' \subseteq doc'
        /\ \A c \in Persisted' : c \in Persisted \/ list[c] = NoList
    <3>1. Loadable = Persisted
      BY ClosedIsApplied DEF IInv, AllClosed, Loadable
    <3>2. CASE get_persisted_doc_state_loads
      <4>1. doc' = Persisted
        BY <3>1, <3>2 DEF get_persisted_doc_state_loads
      <4>2. CASE snapshot' = Loadable /\ chat_log' = <<>>
        <5>1. Logged' = {}
          BY <4>2 DEF Logged
        <5> QED
          BY <3>1, <4>1, <4>2, <5>1 DEF Persisted
      <4>3. CASE UNCHANGED <<snapshot, chat_log>>
        BY <4>1, <4>3 DEF Persisted, Logged
      <4> QED
        BY <3>2, <4>2, <4>3 DEF get_persisted_doc_state_loads
    <3>3. ASSUME NEW c \in Change, get_persisted_doc_state_creates(c)
          PROVE  /\ Persisted' \subseteq doc'
                 /\ \A d \in Persisted' : d \in Persisted \/ list[d] = NoList
      <4>1. snapshot' = {c} /\ chat_log' = chat_log /\ doc' = {c} /\ c \notin created /\ ~has_row
        BY <3>3 DEF get_persisted_doc_state_creates
      <4>2. Persisted' = {c} \cup Logged
        BY <4>1 DEF Persisted, Logged
      <4> QED
        BY <4>1, <4>2 DEF OwnInv, Persisted
    <3> QED
      BY <1>1, <3>2, <3>3 DEF get_persisted_doc_state
  <2> QED
    BY <1>1, <2>1, <2>2 DEF OwnInv, Own
<1>2. CASE new
  <2>1. pending = {} /\ pending' = {} /\ UNCHANGED <<remote, acked, refused>>
    BY <1>0, <1>2 DEF new, TypeOK
  <2>2. UNCHANGED list
    BY <1>2, GetPersisted DEF new
  <2>3. SentIsDurable'
    BY <1>1, <1>2, <2>1, <2>2 DEF new, OwnInv, SentIsDurable
  <2> QED
    BY <1>1, <1>2, <2>1, <2>3 DEF new
<1>3. CASE reset_doc_state_to_persisted
  <2>1. pending = {} /\ pending' = {} /\ UNCHANGED <<acked, refused>>
    BY <1>0, <1>3 DEF reset_doc_state_to_persisted, TypeOK
  <2>2. UNCHANGED list
    BY <1>3, GetPersisted DEF reset_doc_state_to_persisted
  <2>3. Persisted \subseteq Persisted' /\ Own(doc') \subseteq Persisted' \cup refused
    BY <1>1, <1>3, <2>1 DEF reset_doc_state_to_persisted
  <2>4. SentIsDurable'
    BY <1>3, <2>1, <2>2, <2>3, OwnSent DEF reset_doc_state_to_persisted
  <2> QED
    BY <1>1, <1>3, <2>1, <2>4 DEF reset_doc_state_to_persisted
<1>4. ASSUME NEW c \in Change, add_message(c) PROVE OwnInv'
  <2>1. /\ c \in Change \ created /\ created' = created \cup {c} /\ doc' = doc \cup {c}
        /\ pending = {} /\ pending' = {c} /\ pc = "idle" /\ pc' = "adding"
        /\ UNCHANGED <<snapshot, has_row, chat_log, remote, acked, refused>>
    BY <1>0, <1>4 DEF add_message, db_vars, TypeOK
  <2>2. PICK l \in Change : ensure_peer_list(c, l) /\ list' = [list EXCEPT ![c] = l]
    BY <1>4 DEF add_message
  <2>3. list'[c] = l /\ l # NoList /\ \A d \in Change \ {c} : list'[d] = list[d]
    BY <1>0, <2>2 DEF TypeOK
  <2>4. Persisted' = Persisted
    BY <2>1 DEF Persisted, Logged
  <2>5. c \notin Persisted \cup doc \cup remote \cup acked
    BY <1>0, <2>1, <2>4 DEF OnlyCreated, OnDisk
  <2>6. ASSUME NEW d \in Persisted \cup doc \cup remote \cup acked PROVE list'[d] = list[d]
    <3>1. d \in Change /\ d # c
      BY <1>0, <2>5 DEF TypeOK, OnlyCreated
    <3> QED
      BY <2>3, <3>1
  <2>7. /\ \A d \in Change \ created' : list'[d] = NoList
        /\ \A d \in acked' \cup pending' : list'[d] # NoList
    BY <2>1, <2>3, <2>6 DEF OwnInv
  <2>8. SentIsDurable'
    BY <2>1, <2>4, <2>6 DEF OwnInv, SentIsDurable
  <2>9. \A d \in Own(doc)' : d \in Persisted \cup refused \/ d = c
    BY <2>1, <2>6 DEF OwnInv, Own
  <2>10. ASSUME refused = {}, NEW d \in Own(Persisted \cup doc)' PROVE list'[d] = l
    <3>1. CASE d = c
      BY <2>3, <3>1
    <3>2. CASE d # c
      <4>1. d \in Own(doc) /\ list'[d] = list[d]
        BY <2>1, <2>4, <2>6, <2>10, <3>2 DEF Own, OwnInv
      <4>2. list[d] \in Lists(doc)
        BY <4>1 DEF Own, Lists
      <4>3. l \in Lists(doc)
        BY <2>2, <4>2 DEF ensure_peer_list, get_peer_list
      <4>4. PICK e \in doc : list[e] = l
        BY <4>3 DEF Lists
      <4>5. e \in Own(doc)
        BY <2>3, <4>4 DEF Own
      <4> QED
        BY <2>10, <4>1, <4>4, <4>5 DEF OwnInv, Own
    <3> QED
      BY <3>1, <3>2
  <2> QED
    BY <2>1, <2>4, <2>7, <2>8, <2>9, <2>10 DEF OwnInv
<1>5. ASSUME NEW c \in Change, remote_change(c) PROVE OwnInv'
  <2>1. /\ remote' = remote \cup {c} /\ created' = created \cup {c} /\ c \notin created
        /\ UNCHANGED <<snapshot, has_row, chat_log, doc, pc, pending, list, acked, refused>>
    BY <1>5 DEF remote_change, db_vars
  <2>2. Persisted' = Persisted
    BY <2>1 DEF Persisted, Logged
  <2> QED
    BY <2>1, <2>2 DEF OwnInv, Own, SentIsDurable
<1>6. CASE add_message_persisted \/ receive_persisted
  <2>1. /\ persist_chat
        /\ UNCHANGED <<snapshot, has_row, doc, pending, remote, list, created, acked, refused>>
        /\ pc # "down" /\ pc' # "down"
    BY <1>6 DEF add_message_persisted, receive_persisted, change_vars
  <2>2. Persisted' = Persisted \cup doc
    BY <2>1, PersistChat
  <2> QED
    BY <2>1, <2>2 DEF OwnInv, Own, SentIsDurable
<1>7. CASE add_message_returns \/ receive_returns \/ receive_none \/ sync
  <2>1. /\ UNCHANGED <<snapshot, has_row, chat_log, doc, list, created, refused>>
        /\ acked' = acked \cup pending \/ acked' = acked
        /\ pending' = {} /\ pending \subseteq Persisted /\ pc # "down" /\ pc' # "down"
        /\ generate_sync_message
    BY <1>0, <1>7 DEF add_message_returns, receive_returns, receive_none, sync, db_vars,
                      change_vars, TypeOK, OnDisk
  <2>2. Persisted' = Persisted
    BY <2>1 DEF Persisted, Logged
  <2>3. Own(doc) \subseteq Persisted \cup refused
    BY <2>1 DEF OwnInv
  <2>4. SentIsDurable'
    BY <2>1, <2>2, <2>3, OwnSent
  <2> QED
    BY <2>1, <2>2, <2>3, <2>4 DEF OwnInv, Own
<1>8. ASSUME NEW S \in SUBSET remote, receive_sync_message(S) PROVE OwnInv'
  <2>1. /\ doc' = doc \cup S /\ pc = "idle" /\ pc' = "receiving"
        /\ UNCHANGED <<snapshot, has_row, chat_log, pending, remote, list, created, acked,
                       refused>>
    BY <1>8 DEF receive_sync_message, db_vars, change_vars
  <2>2. Persisted' = Persisted
    BY <2>1 DEF Persisted, Logged
  <2> QED
    BY <1>8, <2>1, <2>2 DEF OwnInv, Own, SentIsDurable
<1>9. CASE add_message_fails \/ receive_fails \/ reset_fails
  <2>1. /\ UNCHANGED <<snapshot, has_row, chat_log, doc, remote, list, created, acked>>
        /\ pc # "down" /\ pc' # "down" /\ pending' = {} /\ refused' = refused \cup pending
    BY <1>0, <1>9
    DEF add_message_fails, receive_fails, reset_fails, db_vars, change_vars, TypeOK
  <2>2. Persisted' = Persisted
    BY <2>1 DEF Persisted, Logged
  <2> QED
    BY <2>1, <2>2 DEF OwnInv, Own, SentIsDurable
<1>10. CASE stop
  <2>1. /\ UNCHANGED <<snapshot, has_row, chat_log, remote, list, created, acked, refused>>
        /\ doc' = {} /\ pending' = {} /\ pc # "down" /\ pc' = "down"
    BY <1>10 DEF stop, db_vars, change_vars
  <2>2. Persisted' = Persisted
    BY <2>1 DEF Persisted, Logged
  <2> QED
    BY <2>1, <2>2 DEF OwnInv, Own, SentIsDurable
<1>11. CASE UNCHANGED vars
  <2>1. Persisted' = Persisted
    BY <1>11 DEF Persisted, Logged, vars
  <2> QED
    BY <1>11, <2>1 DEF OwnInv, Own, SentIsDurable, vars
<1> QED
  BY <1>2, <1>3, <1>4, <1>5, <1>6, <1>7, <1>8, <1>9, <1>10, <1>11 DEF Next

\* What is known of the own messages holds in every reachable state.
LEMMA OwnInvariance == Spec => []OwnInv
<1>1. Init => OwnInv
  <2> SUFFICES ASSUME Init PROVE OwnInv
    OBVIOUS
  <2>1. Persisted = {}
    BY DEF Init, Persisted, Logged
  <2> QED
    BY <2>1 DEF Init, OwnInv, Own, SentIsDurable
<1> QED
  BY <1>1, OwnStep, Invariance, PTL DEF Spec

\* Whatever fails and wherever the process stops, the peer knows no own message
\* of this endpoint that is not on disk, unless its sender got the error.
THEOREM SentStaysDurable == Spec => []SentIsDurable
<1>1. OwnInv => SentIsDurable
  BY DEF OwnInv
<1> QED
  BY <1>1, OwnInvariance, PTL

\* Acknowledged messages stay in the list that get_messages reads, until an
\* add_message fails.
THEOREM AckedStaysVisible == Spec => []AckedIsVisible
<1>1. IInv /\ OwnInv => AckedIsVisible
  <2> SUFFICES ASSUME IInv, OwnInv, pc # "down", refused = {}, NEW c \in acked
               PROVE  c \in doc /\ get_peer_list(doc, list[c])
    BY DEF AckedIsVisible
  <2>1. c \in doc /\ c \in Own(doc) /\ list[c] \in Lists(doc) /\ list[c] \in Change
    BY DEF IInv, OnDisk, TypeOK, OwnInv, Own, Lists
  <2>2. ASSUME NEW m \in Lists(doc) PROVE m = list[c]
    BY <2>1, <2>2 DEF OwnInv, Own, Lists
  <2>3. list[c] \in Nat
    BY <2>1, RepositoryAssumption
  <2>4. \A m \in Lists(doc) : m <= list[c]
    BY <2>2, <2>3
  <2> QED
    BY <2>1, <2>4 DEF get_peer_list
<1> QED
  BY <1>1, OwnInvariance, Invariance, PTL
==============================================================================
