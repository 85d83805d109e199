---------------------------- MODULE AppActorProofs ----------------------------
(***************************************************************************)
(* Safety of the Application for any chats, callers and channel sizes:     *)
(* every waiting caller has a sender somewhere, every chat that waits for  *)
(* a dial has one queued, and shutdown() is complete when it returns.      *)
(***************************************************************************)
EXTENDS AppActor, TLAPS

-----------------------------------------------------------------------------
(* Sequences.                                                              *)

\* No caller is in the sequence twice.
Once(s) == \A i, j \in DOMAIN s : s[i] = s[j] /\ s[i] \in Caller => i = j

\* The elements after an Append.
LEMMA AppendSet ==
    ASSUME NEW S, NEW s \in Seq(S), NEW x \in S
    PROVE  /\ Append(s, x) \in Seq(S) /\ Len(Append(s, x)) = Len(s) + 1
           /\ Range(Append(s, x)) = Range(s) \cup {x}
           /\ (x \notin Caller \/ x \notin Range(s)) /\ Once(s) => Once(Append(s, x))
<1> DEFINE t == Append(s, x)
<1>1. /\ t \in Seq(S) /\ Len(t) = Len(s) + 1 /\ Len(s) \in Nat /\ DOMAIN s = 1..Len(s)
      /\ DOMAIN t = 1..(Len(s) + 1) /\ t[Len(s) + 1] = x /\ \A i \in 1..Len(s) : t[i] = s[i]
  OBVIOUS
<1> HIDE DEF t
<1>2. Range(t) = Range(s) \cup {x}
  BY <1>1 DEF Range
<1>3. ASSUME x \notin Caller \/ x \notin Range(s), Once(s) PROVE Once(t)
  BY <1>1, <1>3 DEF Range, Once
<1> QED
  BY <1>1, <1>2, <1>3 DEF t

\* The elements after the head was taken.
LEMMA TailSet ==
    ASSUME NEW S, NEW s \in Seq(S), s # <<>>, Once(s)
    PROVE  /\ Tail(s) \in Seq(S) /\ Len(Tail(s)) = Len(s) - 1
           /\ Head(s) \in Range(s) /\ Head(s) \in S
           /\ \A c \in Caller : c \in Range(Tail(s)) <=> c \in Range(s) /\ c # Head(s)
           /\ Once(Tail(s))
<1> DEFINE t == Tail(s)
<1>1. /\ t \in Seq(S) /\ Len(t) = Len(s) - 1 /\ Len(s) \in Nat \ {0} /\ DOMAIN s = 1..Len(s)
      /\ DOMAIN t = 1..(Len(s) - 1) /\ \A i \in 1..(Len(s) - 1) : t[i] = s[i + 1]
      /\ Head(s) = s[1] /\ s[1] \in S
  OBVIOUS
<1> HIDE DEF t
<1>2. Head(s) \in Range(s)
  BY <1>1 DEF Range
<1>3. ASSUME NEW c \in Caller, c \in Range(t) PROVE c \in Range(s) /\ c # Head(s)
  <2>1. PICK i \in 1..(Len(s) - 1) : s[i + 1] = c
    BY <1>1, <1>3 DEF Range
  <2>2. i + 1 \in DOMAIN s /\ 1 \in DOMAIN s /\ i + 1 # 1
    BY <1>1
  <2> QED
    BY <1>1, <2>1, <2>2 DEF Range, Once
<1>4. ASSUME NEW c \in Caller, c \in Range(s), c # Head(s) PROVE c \in Range(t)
  <2>1. PICK i \in 1..Len(s) : s[i] = c
    BY <1>1, <1>4 DEF Range
  <2>2. i - 1 \in 1..(Len(s) - 1) /\ s[(i - 1) + 1] = c
    BY <1>1, <1>4, <2>1
  <2>3. t[i - 1] = c /\ i - 1 \in DOMAIN t
    BY <1>1, <2>2
  <2> QED
    BY <2>3 DEF Range
<1>5. Once(t)
  <2> SUFFICES ASSUME NEW i \in DOMAIN t, NEW j \in DOMAIN t, t[i] = t[j], t[i] \in Caller
               PROVE  i = j
    BY DEF Once
  <2>1. /\ i + 1 \in DOMAIN s /\ j + 1 \in DOMAIN s /\ i \in Nat /\ j \in Nat
        /\ s[i + 1] = t[i] /\ s[j + 1] = t[j]
    BY <1>1
  <2>2. i + 1 = j + 1
    BY <2>1 DEF Once
  <2> QED
    BY <2>1, <2>2
<1> QED
  BY <1>1, <1>2, <1>3, <1>4, <1>5 DEF t

\* The elements after a caller gave up.
LEMMA AbandonSet ==
    ASSUME NEW s \in Seq(Who), Once(s), NEW c \in Caller,
           NEW t, t = [i \in DOMAIN s |-> IF s[i] = c THEN Gone ELSE s[i]]
    PROVE  /\ t \in Seq(Who) /\ Len(t) = Len(s)
           /\ \A d \in Caller : d \in Range(t) <=> d \in Range(s) /\ d # c
           /\ Once(t)
<1>1. /\ DOMAIN s = 1..Len(s) /\ Len(s) \in Nat /\ \A i \in 1..Len(s) : s[i] \in Who
  OBVIOUS
<1>2. t \in [1..Len(s) -> Who] /\ DOMAIN t = DOMAIN s
  BY <1>1 DEF Who
<1>3. t \in Seq(Who) /\ Len(t) = Len(s)
  BY <1>1, <1>2
<1>4. \A i \in DOMAIN s : t[i] = IF s[i] = c THEN Gone ELSE s[i]
  OBVIOUS
<1>5. \A d \in Caller : d \in Range(t) <=> d \in Range(s) /\ d # c
  BY <1>2, <1>4, AppAssumption DEF Range
<1>6. Once(t)
  BY <1>2, <1>4, AppAssumption DEF Once
<1> QED
  BY <1>3, <1>5, <1>6

-----------------------------------------------------------------------------
(* The inductive invariant, in parts.                                      *)

ReqWho == {r.who : r \in Range(request_rx)}

\* The request under way is about a chat without a manager; a manager that
\* writes has the request in front of its channel.
Busy ==
    /\ app \in {"opening", "passing"} => job.peer \in Peer
    /\ app = "opening" => chat_managers[job.peer] = "none"
    /\ app # "opening" => job.who \notin Caller
    /\ protocol \in {"dialing", "accepting"} => requests # <<>>
    /\ \A c \in Caller : Waiting(c) => peer[c] \in Peer
    /\ \A p \in Peer :
          /\ InHand(p) => in_rx[p] # <<>>
          /\ ~InHand(p) => Len(in_rx[p]) <= CHANNEL_BUFFER

\* A sender is in one place only.
Senders ==
    /\ WaitersHaveSenders
    /\ \A p \in Peer : Once(in_rx[p])
    /\ job.who \notin Caller \/ job.who \notin ReqWho

-----------------------------------------------------------------------------
(* What the shared parts of the actions do.                                *)

\* Exactly the caller that is answered changes.
LEMMA Answered ==
    ASSUME TypeOK, NEW who, NEW result \in {"done", "ok"}, Answer(who, result)
    PROVE  /\ call' \in [Caller -> {"done", "opening", "queued", "calling", "sent", "ok"}]
           /\ peer' \in [Caller -> Peer \cup {NoPeer}]
           /\ \A c \in Caller : c = who => call'[c] = result
           /\ \A c \in Caller : c # who => call'[c] = call[c] /\ peer'[c] = peer[c]
  BY DEF TypeOK, Answer

\* The end of a manager's actor answers every caller in its channel.
LEMMA Ended ==
    ASSUME TypeOK, NEW p \in Peer, End(p)
    PROVE  /\ call' \in [Caller -> {"done", "opening", "queued", "calling", "sent", "ok"}]
           /\ peer' \in [Caller -> Peer \cup {NoPeer}]
           /\ \A c \in Caller : c \in Range(in_rx[p]) => call'[c] = "done"
           /\ \A c \in Caller :
                 c \notin Range(in_rx[p]) => call'[c] = call[c] /\ peer'[c] = peer[c]
           /\ chat_managers' \in [Peer -> ManagerState]
           /\ conn' \in [Peer -> {"Disconnected", "Reconnecting", "Connected"}]
           /\ in_rx' \in [Peer -> Seq(Who)]
           /\ chat_managers'[p] = "ended" /\ in_rx'[p] = <<>> /\ conn'[p] = "Disconnected"
           /\ \A q \in Peer \ {p} : /\ chat_managers'[q] = chat_managers[q]
                                    /\ in_rx'[q] = in_rx[q] /\ conn'[q] = conn[q]
<1>1. <<>> \in Seq(Who)
  OBVIOUS
<1>2. /\ call' \in [Caller -> {"done", "opening", "queued", "calling", "sent", "ok"}]
      /\ peer' \in [Caller -> Peer \cup {NoPeer}]
      /\ \A c \in Caller : c \in Range(in_rx[p]) => call'[c] = "done"
      /\ \A c \in Caller :
            c \notin Range(in_rx[p]) => call'[c] = call[c] /\ peer'[c] = peer[c]
  BY DEF TypeOK, End
<1>3. /\ chat_managers' \in [Peer -> ManagerState]
      /\ conn' \in [Peer -> {"Disconnected", "Reconnecting", "Connected"}]
      /\ chat_managers'[p] = "ended" /\ conn'[p] = "Disconnected"
      /\ \A q \in Peer \ {p} : chat_managers'[q] = chat_managers[q] /\ conn'[q] = conn[q]
  BY DEF TypeOK, End, ManagerState
<1>4. /\ in_rx' \in [Peer -> Seq(Who)] /\ in_rx'[p] = <<>>
      /\ \A q \in Peer \ {p} : in_rx'[q] = in_rx[q]
  BY <1>1 DEF TypeOK, End
<1> QED
  BY <1>2, <1>3, <1>4

\* A request joins the channel of a live manager that has room.
LEMMA Queued ==
    ASSUME TypeOK, Busy, NEW p \in Peer, NEW x \in Who, Room(p),
           in_rx' = [in_rx EXCEPT ![p] = Append(@, x)]
    PROVE  /\ in_rx' \in [Peer -> Seq(Who)]
           /\ Range(in_rx'[p]) = Range(in_rx[p]) \cup {x}
           /\ in_rx'[p] # <<>>
           /\ Len(in_rx'[p]) <= CHANNEL_BUFFER + (IF InHand(p) THEN 1 ELSE 0)
           /\ (x \notin Caller \/ x \notin Range(in_rx[p])) /\ Once(in_rx[p]) => Once(in_rx'[p])
           /\ \A q \in Peer \ {p} : in_rx'[q] = in_rx[q]
<1>1. in_rx[p] \in Seq(Who) /\ in_rx'[p] = Append(in_rx[p], x) /\ Len(in_rx[p]) \in Nat
  BY DEF TypeOK
<1>2. /\ in_rx'[p] \in Seq(Who) /\ Len(in_rx'[p]) = Len(in_rx[p]) + 1
      /\ Range(in_rx'[p]) = Range(in_rx[p]) \cup {x}
      /\ (x \notin Caller \/ x \notin Range(in_rx[p])) /\ Once(in_rx[p]) => Once(in_rx'[p])
  BY <1>1, AppendSet
<1>3. in_rx' \in [Peer -> Seq(Who)] /\ \A q \in Peer \ {p} : in_rx'[q] = in_rx[q]
  BY <1>1, <1>2 DEF TypeOK
<1>4. Len(in_rx'[p]) <= CHANNEL_BUFFER + (IF InHand(p) THEN 1 ELSE 0)
  BY <1>1, <1>2, AppAssumption DEF Room
<1>5. in_rx'[p] # <<>>
  BY <1>1, <1>2
<1> QED
  BY <1>2, <1>3, <1>4, <1>5

\* The first request leaves the channel.
LEMMA Taken ==
    ASSUME TypeOK, NEW p \in Peer, in_rx[p] # <<>>, Once(in_rx[p]),
           in_rx' = [in_rx EXCEPT ![p] = Tail(@)]
    PROVE  /\ in_rx' \in [Peer -> Seq(Who)]
           /\ Len(in_rx'[p]) = Len(in_rx[p]) - 1
           /\ Head(in_rx[p]) \in Range(in_rx[p])
           /\ \A c \in Caller :
                 c \in Range(in_rx'[p]) <=> c \in Range(in_rx[p]) /\ c # Head(in_rx[p])
           /\ Once(in_rx'[p])
           /\ \A q \in Peer \ {p} : in_rx'[q] = in_rx[q]
<1>1. in_rx[p] \in Seq(Who) /\ in_rx'[p] = Tail(in_rx[p])
  BY DEF TypeOK
<1>2. /\ in_rx'[p] \in Seq(Who) /\ Len(in_rx'[p]) = Len(in_rx[p]) - 1
      /\ Head(in_rx[p]) \in Range(in_rx[p])
      /\ \A c \in Caller :
            c \in Range(in_rx'[p]) <=> c \in Range(in_rx[p]) /\ c # Head(in_rx[p])
      /\ Once(in_rx'[p])
  <2> DEFINE s == in_rx[p]
  <2>1. s \in Seq(Who) /\ s # <<>> /\ Once(s) /\ in_rx'[p] = Tail(s)
    BY <1>1
  <2> HIDE DEF s
  <2>2. /\ Tail(s) \in Seq(Who) /\ Len(Tail(s)) = Len(s) - 1
        /\ Head(s) \in Range(s)
        /\ \A c \in Caller : c \in Range(Tail(s)) <=> c \in Range(s) /\ c # Head(s)
        /\ Once(Tail(s))
    BY <2>1, TailSet
  <2> QED
    BY <2>1, <2>2 DEF s
<1>3. in_rx' \in [Peer -> Seq(Who)] /\ \A q \in Peer \ {p} : in_rx'[q] = in_rx[q]
  BY <1>1, <1>2 DEF TypeOK
<1> QED
  BY <1>2, <1>3

\* The one request in the AppActor's channel, if there is one.
LEMMA Requested ==
    ASSUME TypeOK
    PROVE  /\ request_rx = <<>> => ReqWho = {}
           /\ request_rx # <<>> => /\ Head(request_rx) \in [peer : Peer, who : Caller \cup {Gone}]
                                   /\ ReqWho = {Head(request_rx).who}
<1>1. CASE request_rx = <<>>
  BY <1>1 DEF ReqWho, Range
<1>2. CASE request_rx # <<>>
  <2>0. ASSUME NEW S, NEW s \in Seq(S), s # <<>>, Len(s) <= 1
        PROVE  DOMAIN s = {1} /\ Head(s) = s[1] /\ s[1] \in S
    <3>1. Len(s) \in Nat /\ Len(s) # 0
      BY <2>0
    <3>2. Len(s) = 1
      BY <2>0, <3>1
    <3>3. DOMAIN s = 1..1 /\ 1..1 = {1}
      BY <3>2
    <3> QED
      BY <2>0, <3>2, <3>3
  <2>1. /\ DOMAIN request_rx = {1} /\ Head(request_rx) = request_rx[1]
        /\ request_rx[1] \in [peer : Peer, who : Caller \cup {Gone}]
    BY <1>2, <2>0 DEF TypeOK
  <2>2. Range(request_rx) = {Head(request_rx)}
    BY <2>1 DEF Range
  <2> QED
    BY <1>2, <2>1, <2>2 DEF ReqWho
<1> QED
  BY <1>1, <1>2

Inv == TypeOK /\ Busy /\ Senders

-----------------------------------------------------------------------------
(* Steps that move no sender.                                              *)

\* While the callers, the requests and the managers' channels stay as they are,
\* so do the senders.
LEMMA SendersStay ==
    ASSUME Senders, UNCHANGED <<call, peer, request_rx, job, in_rx>> PROVE Senders'
<1>1. ReqWho' = ReqWho
  BY DEF ReqWho
<1> QED
  BY <1>1 DEF Senders, WaitersHaveSenders, ReqWho

\* The steps of the AppActor, of shutdown() and of the connections that touch no
\* request.
LEMMA QuietStep ==
    ASSUME Inv,
           \/ run_cancelled \/ pool_closed \/ application_dropped
           \/ \E s \in Shutter : shutdown(s) \/ shutdown_complete(s)
           \/ \E p \in Peer : reconnect(p) \/ transport_lost(p) \/ incoming(p)
           \/ protocol_takes \/ protocol_dialed \/ protocol_accepted \/ protocol_shutdown
           \/ UNCHANGED vars
    PROVE  Inv'
<1> USE DEF Inv, caller_vars, app_vars, manager_vars, protocol_vars, stop_vars
<1>0. TypeOK /\ Busy /\ Senders
  OBVIOUS
<1>1. ASSUME TypeOK', UNCHANGED <<call, peer, request_rx, job, in_rx, chat_managers>>,
             app' = app \/ app' \notin {"opening", "passing"},
             app = "opening" => app' = app,
             protocol' \in {"dialing", "accepting"} => requests' # <<>>
      PROVE  Inv'
  <2>1. Senders'
    BY <1>1, SendersStay
  <2>2. Busy'
    BY <1>1 DEF Busy, Waiting, InHand
  <2> QED
    BY <1>1, <2>1, <2>2
<1>2. CASE run_cancelled \/ pool_closed \/ application_dropped
  <2>1. TypeOK'
    BY <1>0, <1>2 DEF run_cancelled, pool_closed, application_dropped, TypeOK
  <2> QED
    BY <1>0, <1>1, <1>2, <2>1 DEF run_cancelled, pool_closed, application_dropped, Busy
<1>3. ASSUME NEW s \in Shutter, shutdown(s) \/ shutdown_complete(s) PROVE Inv'
  <2>1. cancelled' \in BOOLEAN
    BY <1>0, <1>3, Zenon DEF shutdown, shutdown_complete, TypeOK
  <2>2. TypeOK'
    BY <1>0, <1>3, <2>1 DEF shutdown, shutdown_complete, TypeOK
  <2> QED
    BY <1>0, <1>1, <1>3, <2>2 DEF shutdown, shutdown_complete, Busy
<1>4. ASSUME NEW p \in Peer, NEW r \in [kind : {"Dial", "Accept"}, peer : Peer],
             requests' = Append(requests, r)
      PROVE  requests' \in Seq([kind : {"Dial", "Accept"}, peer : Peer]) /\ requests' # <<>>
  BY <1>0, <1>4 DEF TypeOK
<1>5. ASSUME NEW p \in Peer, reconnect(p) PROVE Inv'
  <2>1. requests' \in Seq([kind : {"Dial", "Accept"}, peer : Peer]) /\ requests' # <<>>
    BY <1>4, <1>5 DEF reconnect, Dial
  <2>2. TypeOK'
    BY <1>0, <1>5, <2>1 DEF reconnect, TypeOK
  <2> QED
    BY <1>1, <1>5, <2>1, <2>2 DEF reconnect
<1>6. ASSUME NEW p \in Peer, transport_lost(p) PROVE Inv'
  <2>1. TypeOK'
    BY <1>0, <1>6 DEF transport_lost, TypeOK
  <2> QED
    BY <1>0, <1>1, <1>6, <2>1 DEF transport_lost, Busy
<1>7. ASSUME NEW p \in Peer, incoming(p) PROVE Inv'
  <2>1. requests' \in Seq([kind : {"Dial", "Accept"}, peer : Peer]) /\ requests' # <<>>
    BY <1>4, <1>7 DEF incoming, Accept
  <2>2. TypeOK'
    BY <1>0, <1>7, <2>1 DEF incoming, TypeOK
  <2> QED
    BY <1>1, <1>7, <2>1, <2>2 DEF incoming
<1>8. CASE protocol_takes
  <2>1. TypeOK'
    BY <1>0, <1>8 DEF protocol_takes, TypeOK
  <2> QED
    BY <1>1, <1>8, <2>1 DEF protocol_takes
<1>9. CASE protocol_dialed \/ protocol_accepted
  <2>1. requests # <<>>
    BY <1>0, <1>9 DEF protocol_dialed, protocol_accepted, Busy
  <2>2. /\ Head(requests) \in [kind : {"Dial", "Accept"}, peer : Peer]
        /\ requests' \in Seq([kind : {"Dial", "Accept"}, peer : Peer])
    <3>1. ASSUME NEW S, NEW s \in Seq(S), s # <<>> PROVE Head(s) \in S /\ Tail(s) \in Seq(S)
      BY <3>1
    <3>2. requests \in Seq([kind : {"Dial", "Accept"}, peer : Peer])
      BY <1>0 DEF TypeOK
    <3>3. requests' = Tail(requests)
      BY <1>9 DEF protocol_dialed, protocol_accepted
    <3> QED
      BY <2>1, <3>1, <3>2, <3>3
  <2>3. Head(requests).peer \in Peer
    BY <2>2
  <2>4. PICK established \in BOOLEAN :
            \/ dial_endpoint(Head(requests).peer, established)
            \/ accept(Head(requests).peer, established)
    BY <1>9 DEF protocol_dialed, protocol_accepted
  <2>5. /\ conn' \in [Peer -> {"Disconnected", "Reconnecting", "Connected"}]
        /\ accept_rx' \in Seq(Peer)
    <3>1. CASE dial_endpoint(Head(requests).peer, established)
      BY <1>0, <3>1 DEF dial_endpoint, TypeOK
    <3>2. CASE accept(Head(requests).peer, established)
      BY <1>0, <2>3, <3>2 DEF accept, TypeOK
    <3> QED
      BY <2>4, <3>1, <3>2
  <2>6. TypeOK'
    BY <1>0, <1>9, <2>2, <2>5 DEF protocol_dialed, protocol_accepted, TypeOK
  <2> QED
    BY <1>1, <1>9, <2>6 DEF protocol_dialed, protocol_accepted
<1>10. CASE protocol_shutdown
  <2>1. requests' \in Seq([kind : {"Dial", "Accept"}, peer : Peer])
    BY <1>10 DEF protocol_shutdown
  <2>2. conn' \in [Peer -> {"Disconnected", "Reconnecting", "Connected"}]
    BY <1>0, <1>10 DEF protocol_shutdown, TypeOK
  <2>3. TypeOK'
    BY <1>0, <1>10, <2>1, <2>2 DEF protocol_shutdown, TypeOK
  <2> QED
    BY <1>1, <1>10, <2>3 DEF protocol_shutdown
<1>11. CASE UNCHANGED vars
  <2>1. TypeOK'
    BY <1>0, <1>11 DEF vars, TypeOK
  <2> QED
    BY <1>0, <1>1, <1>11, <2>1 DEF vars, Busy
<1> QED
  BY <1>2, <1>3, <1>5, <1>6, <1>7, <1>8, <1>9, <1>10, <1>11

-----------------------------------------------------------------------------
(* Steps of the callers.                                                   *)

\* A caller may change between states in which nobody holds a sender for it.
LEMMA CallersMove ==
    ASSUME Senders, UNCHANGED <<request_rx, job, in_rx>>,
           \A c \in Caller : /\ call'[c] = "queued" <=> call[c] = "queued"
                             /\ call'[c] = "sent" <=> call[c] = "sent"
                             /\ call[c] = "sent" => peer'[c] = peer[c]
    PROVE  Senders'
<1>1. ReqWho' = ReqWho
  BY DEF ReqWho
<1> QED
  BY <1>1 DEF Senders, WaitersHaveSenders, ReqWho

\* A call starts, or fails before its request is sent.
LEMMA CallStep ==
    ASSUME Inv, NEW c \in Caller,
           \/ \E p \in Peer : chat_manager(c, p) \/ manager_call(c, p)
           \/ chat_manager_refused(c) \/ manager_call_refused(c)
    PROVE  Inv'
<1> USE DEF Inv, app_vars, manager_vars, protocol_vars, stop_vars
<1>0. TypeOK /\ Busy /\ Senders
  OBVIOUS
<1>1. UNCHANGED <<app_vars, manager_vars, protocol_vars, stop_vars>>
  BY DEF chat_manager, manager_call, chat_manager_refused, manager_call_refused
<1>2. ASSUME NEW p \in Peer, chat_manager(c, p) \/ manager_call(c, p)
      PROVE  /\ call' \in [Caller -> {"done", "opening", "queued", "calling", "sent", "ok"}]
             /\ peer' \in [Caller -> Peer \cup {NoPeer}]
             /\ call[c] \in {"done", "ok"}
             /\ call'[c] \in {"opening", "calling"} /\ peer'[c] = p
             /\ \A d \in Caller \ {c} : call'[d] = call[d] /\ peer'[d] = peer[d]
  BY <1>0, <1>2 DEF chat_manager, manager_call, Finished, Waiting, TypeOK
<1>3. ASSUME chat_manager_refused(c) \/ manager_call_refused(c)
      PROVE  /\ call' \in [Caller -> {"done", "opening", "queued", "calling", "sent", "ok"}]
             /\ peer' \in [Caller -> Peer \cup {NoPeer}]
             /\ call[c] \in {"opening", "calling"} /\ call'[c] = "done"
             /\ \A d \in Caller \ {c} : call'[d] = call[d] /\ peer'[d] = peer[d]
  BY <1>0, <1>3, Answered DEF chat_manager_refused, manager_call_refused
<1>4. /\ call' \in [Caller -> {"done", "opening", "queued", "calling", "sent", "ok"}]
      /\ peer' \in [Caller -> Peer \cup {NoPeer}]
      /\ call[c] \notin {"queued", "sent"} /\ call'[c] \in {"done", "opening", "calling"}
      /\ call'[c] = "done" \/ peer'[c] \in Peer
      /\ \A d \in Caller \ {c} : call'[d] = call[d] /\ peer'[d] = peer[d]
  BY <1>2, <1>3
<1>5. TypeOK'
  BY <1>0, <1>1, <1>4 DEF TypeOK
<1>6. Busy'
  BY <1>0, <1>1, <1>4 DEF Busy, Waiting, InHand
<1>7. Senders'
  BY <1>0, <1>1, <1>4, CallersMove
<1> QED
  BY <1>5, <1>6, <1>7

\* A request is sent to the AppActor or to a manager.
LEMMA SendStep ==
    ASSUME Inv, NEW c \in Caller, chat_manager_sent(c) \/ manager_call_sent(c) PROVE Inv'
<1> USE DEF Inv, app_vars, protocol_vars, stop_vars
<1>0. TypeOK /\ Busy /\ Senders
  OBVIOUS
<1>1. CASE chat_manager_sent(c)
  <2>1. /\ call[c] = "opening" /\ request_rx = <<>>
        /\ request_rx' = <<[peer |-> peer[c], who |-> c]>>
        /\ call' = [call EXCEPT ![c] = "queued"]
        /\ UNCHANGED <<peer, app, job, chat_managers, in_rx, conn, requests, accept_rx,
                       protocol, cancelled, pool, join>>
    BY <1>1 DEF chat_manager_sent, manager_vars
  <2>2. peer[c] \in Peer
    BY <1>0, <2>1 DEF Busy, Waiting
  <2>3. [peer |-> peer[c], who |-> c] \in [peer : Peer, who : Caller \cup {Gone}]
    BY <2>2
  <2>4. request_rx' \in Seq([peer : Peer, who : Caller \cup {Gone}]) /\ Len(request_rx') <= 1
    BY <2>1, <2>3
  <2>5. /\ call' \in [Caller -> {"done", "opening", "queued", "calling", "sent", "ok"}]
        /\ call'[c] = "queued" /\ \A d \in Caller \ {c} : call'[d] = call[d]
    BY <1>0, <2>1 DEF TypeOK
  <2>6. TypeOK'
    BY <1>0, <2>1, <2>4, <2>5 DEF TypeOK
  <2>7. Busy'
    BY <1>0, <2>1, <2>2, <2>5 DEF Busy, Waiting, InHand
  <2>8. ReqWho = {} /\ ReqWho' = {c}
    <3>1. DOMAIN request_rx' = {1} /\ request_rx'[1].who = c
      BY <2>1
    <3>2. Range(request_rx)' = {request_rx'[1]}
      BY <3>1 DEF Range
    <3> QED
      BY <1>0, <2>1, <3>1, <3>2, Requested DEF ReqWho
  <2>9. job.who # c
    BY <1>0, <2>1 DEF Senders, WaitersHaveSenders
  <2>10. WaitersHaveSenders'
    BY <1>0, <2>1, <2>5, <2>8 DEF Senders, WaitersHaveSenders, ReqWho
  <2>11. Senders'
    BY <1>0, <2>1, <2>8, <2>9, <2>10 DEF Senders
  <2> QED
    BY <2>6, <2>7, <2>11
<1>2. CASE manager_call_sent(c)
  <2>1. /\ call[c] = "calling" /\ Alive(peer[c]) /\ Room(peer[c])
        /\ in_rx' = [in_rx EXCEPT ![peer[c]] = Append(@, c)]
        /\ call' = [call EXCEPT ![c] = "sent"]
        /\ UNCHANGED <<peer, request_rx, app, job, chat_managers, conn, requests, accept_rx,
                       protocol, cancelled, pool, join>>
    BY <1>2 DEF manager_call_sent
  <2>2. peer[c] \in Peer /\ c \in Who
    BY <1>0, <2>1 DEF Busy, Waiting, Who
  <2>3. /\ in_rx' \in [Peer -> Seq(Who)]
        /\ Range(in_rx'[peer[c]]) = Range(in_rx[peer[c]]) \cup {c}
        /\ in_rx'[peer[c]] # <<>>
        /\ Len(in_rx'[peer[c]])
             <= CHANNEL_BUFFER + (IF InHand(peer[c]) THEN 1 ELSE 0)
        /\ c \notin Range(in_rx[peer[c]]) /\ Once(in_rx[peer[c]]) => Once(in_rx'[peer[c]])
        /\ \A q \in Peer \ {peer[c]} : in_rx'[q] = in_rx[q]
    BY <1>0, <2>1, <2>2, Queued
  <2>4. /\ call' \in [Caller -> {"done", "opening", "queued", "calling", "sent", "ok"}]
        /\ call'[c] = "sent" /\ \A d \in Caller \ {c} : call'[d] = call[d]
    BY <1>0, <2>1 DEF TypeOK
  <2>5. \A q \in Peer : /\ InHand(q) => in_rx'[q] # <<>>
                        /\ ~InHand(q) => Len(in_rx'[q]) <= CHANNEL_BUFFER
                        /\ Len(in_rx'[q]) <= CHANNEL_BUFFER + 1
    <3>1. ASSUME NEW q \in Peer, q # peer[c]
          PROVE  /\ InHand(q) => in_rx'[q] # <<>>
                 /\ ~InHand(q) => Len(in_rx'[q]) <= CHANNEL_BUFFER
                 /\ Len(in_rx'[q]) <= CHANNEL_BUFFER + 1
      BY <1>0, <2>3, <3>1 DEF Busy, TypeOK
    <3>2. /\ InHand(peer[c]) => in_rx'[peer[c]] # <<>>
          /\ ~InHand(peer[c]) => Len(in_rx'[peer[c]]) <= CHANNEL_BUFFER
          /\ Len(in_rx'[peer[c]]) <= CHANNEL_BUFFER + 1
      <4>1. Len(in_rx'[peer[c]]) \in Nat
        BY <2>2, <2>3
      <4>2. ASSUME NEW n \in Nat, n <= CHANNEL_BUFFER PROVE n <= CHANNEL_BUFFER + 1
        BY <4>2, AppAssumption
      <4>3. CHANNEL_BUFFER + 0 = CHANNEL_BUFFER
        BY AppAssumption
      <4>4. CASE InHand(peer[c])
        BY <2>3, <4>4
      <4>5. CASE ~InHand(peer[c])
        <5>1. Len(in_rx'[peer[c]]) <= CHANNEL_BUFFER
          BY <2>3, <4>3, <4>5
        <5> QED
          BY <4>1, <4>2, <4>5, <5>1
      <4> QED
        BY <4>4, <4>5
    <3> QED
      BY <3>1, <3>2
  <2>6. TypeOK'
    BY <1>0, <2>1, <2>3, <2>4, <2>5 DEF TypeOK
  <2>7. Busy'
    BY <1>0, <2>1, <2>2, <2>4, <2>5 DEF Busy, Waiting, InHand
  <2>8. c \notin Range(in_rx[peer[c]])
    BY <1>0, <2>1, <2>2 DEF Senders, WaitersHaveSenders
  <2>9. WaitersHaveSenders'
    BY <1>0, <2>1, <2>2, <2>3, <2>4, ZenonT(40) DEF Senders, WaitersHaveSenders
  <2>10. (\A q \in Peer : Once(in_rx[q]))' /\ ReqWho' = ReqWho
    <3>1. ReqWho' = ReqWho
      BY <2>1 DEF ReqWho
    <3>2. ASSUME NEW q \in Peer PROVE Once(in_rx'[q])
      <4>1. Once(in_rx[q])
        BY <1>0 DEF Senders
      <4>2. CASE q = peer[c]
        BY <2>3, <2>8, <4>1, <4>2
      <4>3. CASE q # peer[c]
        BY <2>3, <4>1, <4>3
      <4> QED
        BY <4>2, <4>3
    <3> QED
      BY <3>1, <3>2 DEF Once
  <2>11. Senders'
    BY <1>0, <2>1, <2>9, <2>10 DEF Senders
  <2> QED
    BY <2>6, <2>7, <2>11
<1> QED
  BY <1>1, <1>2

\* A caller gives up: its sender stays, as nobody's.
LEMMA GiveUpStep ==
    ASSUME Inv, NEW c \in Caller, give_up(c) PROVE Inv'
<1> USE DEF Inv
<1>0. TypeOK /\ Busy /\ Senders /\ Gone \notin Caller
  BY AppAssumption
<1> DEFINE Abandon(w) == IF w = c THEN Gone ELSE w
<1>1. /\ Answer(c, "done")
      /\ request_rx' = [i \in DOMAIN request_rx |->
                           [request_rx[i] EXCEPT !.who = Abandon(request_rx[i].who)]]
      /\ job' = [job EXCEPT !.who = Abandon(job.who)]
      /\ in_rx' = [p \in Peer |-> [i \in DOMAIN in_rx[p] |-> Abandon(in_rx[p][i])]]
      /\ UNCHANGED <<app, chat_managers, conn, requests, accept_rx, protocol, cancelled, pool,
                     join>>
  BY DEF give_up, protocol_vars, stop_vars
<1>2. /\ call' \in [Caller -> {"done", "opening", "queued", "calling", "sent", "ok"}]
      /\ peer' \in [Caller -> Peer \cup {NoPeer}]
      /\ call'[c] = "done"
      /\ \A d \in Caller \ {c} : call'[d] = call[d] /\ peer'[d] = peer[d]
  BY <1>0, <1>1, Answered
<1>3. ASSUME NEW p \in Peer
      PROVE  /\ in_rx'[p] \in Seq(Who) /\ Len(in_rx'[p]) = Len(in_rx[p])
             /\ \A d \in Caller : d \in Range(in_rx'[p]) <=> d \in Range(in_rx[p]) /\ d # c
             /\ Once(in_rx'[p])
  <2>1. in_rx[p] \in Seq(Who) /\ Once(in_rx[p])
    BY <1>0 DEF TypeOK, Senders
  <2>2. in_rx'[p] = [i \in DOMAIN in_rx[p] |-> IF in_rx[p][i] = c THEN Gone ELSE in_rx[p][i]]
    BY <1>1
  <2> QED
    BY <2>1, <2>2, AbandonSet
<1>4. /\ job' \in Job /\ job'.peer = job.peer /\ job'.who = Abandon(job.who)
  BY <1>0, <1>1 DEF TypeOK, Job, Who
<1>5. /\ request_rx' \in Seq([peer : Peer, who : Caller \cup {Gone}]) /\ Len(request_rx') <= 1
      /\ \A d \in Caller : d \in ReqWho' <=> d \in ReqWho /\ d # c
  <2> DEFINE Req == [peer : Peer, who : Caller \cup {Gone}]
  <2>1. /\ request_rx \in Seq(Req) /\ Len(request_rx) \in Nat /\ Len(request_rx) <= 1
        /\ DOMAIN request_rx = 1..Len(request_rx)
        /\ \A i \in 1..Len(request_rx) : request_rx[i] \in Req
    <3>1. ASSUME NEW S, NEW t \in Seq(S)
          PROVE  Len(t) \in Nat /\ DOMAIN t = 1..Len(t) /\ \A i \in 1..Len(t) : t[i] \in S
      BY <3>1
    <3>2. request_rx \in Seq(Req) /\ Len(request_rx) <= 1
      BY <1>0 DEF TypeOK
    <3> HIDE DEF Req
    <3> QED
      BY <3>1, <3>2
  <2>2. \A i \in 1..Len(request_rx) : /\ request_rx'[i] \in Req
                                      /\ request_rx'[i].who = Abandon(request_rx[i].who)
    BY <1>1, <2>1
  <2>3. request_rx' \in [1..Len(request_rx) -> Req]
    BY <1>1, <2>1, <2>2
  <2>4. request_rx' \in Seq(Req) /\ Len(request_rx') = Len(request_rx)
    BY <2>1, <2>3
  <2>5. \A d \in Caller : d \in ReqWho' <=> d \in ReqWho /\ d # c
    <3>1. \A d : d \in ReqWho <=> \E i \in 1..Len(request_rx) : d = request_rx[i].who
      BY <2>1 DEF ReqWho, Range
    <3>2. \A d : d \in ReqWho' <=> \E i \in 1..Len(request_rx) : d = request_rx'[i].who
      BY <2>1, <2>3 DEF ReqWho, Range
    <3> QED
      BY <1>0, <2>2, <3>1, <3>2
  <2> QED
    BY <2>1, <2>4, <2>5
<1> HIDE DEF Abandon
<1>6. \A d \in Caller : d = job'.who <=> d = job.who /\ d # c
  BY <1>0, <1>4 DEF Abandon
<1>7. in_rx' \in [Peer -> Seq(Who)]
  BY <1>1, <1>3
<1>8. TypeOK'
  BY <1>0, <1>1, <1>2, <1>3, <1>4, <1>5, <1>7 DEF TypeOK
<1>9. Busy'
  <2>1. \A p \in Peer : in_rx[p] # <<>> => in_rx'[p] # <<>>
    BY <1>0, <1>3 DEF TypeOK
  <2> QED
    BY <1>0, <1>1, <1>2, <1>3, <1>4, <1>6, <2>1 DEF Busy, Waiting, InHand
<1>10. WaitersHaveSenders'
  <2> SUFFICES ASSUME NEW d \in Caller
               PROVE  /\ call'[d] = "queued" <=> d \in ReqWho' \cup {job'.who}
                      /\ \A p \in Peer : (call'[d] = "sent" /\ peer'[d] = p)
                                           <=> d \in Range(in_rx'[p])
    BY DEF WaitersHaveSenders, ReqWho
  <2>1. /\ call[d] = "queued" <=> d \in ReqWho \cup {job.who}
        /\ \A p \in Peer : (call[d] = "sent" /\ peer[d] = p) <=> d \in Range(in_rx[p])
    BY <1>0 DEF Senders, WaitersHaveSenders, ReqWho
  <2>2. CASE d = c
    BY <1>2, <1>3, <1>5, <1>6, <2>2
  <2>3. CASE d # c
    BY <1>2, <1>3, <1>5, <1>6, <2>1, <2>3
  <2> QED
    BY <2>2, <2>3
<1>11. Senders'
  BY <1>0, <1>3, <1>5, <1>6, <1>10 DEF Senders
<1> QED
  BY <1>8, <1>9, <1>11

-----------------------------------------------------------------------------
(* Steps of the AppActor.                                                  *)

\* A request or a handle is taken.
LEMMA TakeStep ==
    ASSUME Inv, handle_actor_request \/ handle_accepted PROVE Inv'
<1> USE DEF Inv, manager_vars, protocol_vars, stop_vars, caller_vars
<1>0. TypeOK /\ Busy /\ Senders
  OBVIOUS
<1>1. CASE handle_actor_request
  <2> DEFINE r == Head(request_rx)
  <2>1. /\ app = "select" /\ request_rx # <<>> /\ request_rx' = <<>>
        /\ UNCHANGED <<manager_vars, protocol_vars, stop_vars>>
    BY <1>1 DEF handle_actor_request
  <2>2. /\ r \in [peer : Peer, who : Caller \cup {Gone}] /\ ReqWho = {r.who} /\ ReqWho' = {}
        /\ request_rx' \in Seq([peer : Peer, who : Caller \cup {Gone}])
        /\ Len(request_rx') <= 1
    <3>1. ReqWho' = {}
      BY <2>1 DEF ReqWho, Range
    <3> QED
      BY <1>0, <2>1, <3>1, Requested
  <2>3. /\ r.peer \in Peer /\ r.who \in Caller \cup {Gone} /\ job.who \notin Caller
        /\ r \in Job
    BY <1>0, <2>1, <2>2 DEF Busy, Job, Who
  <2> HIDE DEF r
  <2>4. CASE Answer(r.who, "ok") /\ UNCHANGED <<app, job>>
    <3>1. /\ call' \in [Caller -> {"done", "opening", "queued", "calling", "sent", "ok"}]
          /\ peer' \in [Caller -> Peer \cup {NoPeer}]
          /\ \A d \in Caller : d = r.who => call'[d] = "ok"
          /\ \A d \in Caller : d # r.who => call'[d] = call[d] /\ peer'[d] = peer[d]
      BY <1>0, <2>4, Answered
    <3>2. TypeOK'
      BY <1>0, <2>1, <2>2, <2>4, <3>1 DEF TypeOK
    <3>3. Busy'
      BY <1>0, <2>1, <2>4, <3>1 DEF Busy, Waiting, InHand
    <3>4. WaitersHaveSenders'
      BY <1>0, <2>1, <2>2, <2>3, <2>4, <3>1 DEF Senders, WaitersHaveSenders, ReqWho
    <3> QED
      BY <1>0, <2>1, <2>2, <2>4, <3>2, <3>3, <3>4 DEF Senders
  <2>5. CASE /\ chat_managers[r.peer] = "none" /\ app' = "opening" /\ job' = r
             /\ UNCHANGED caller_vars
    <3>1. TypeOK'
      BY <1>0, <2>1, <2>2, <2>3, <2>5 DEF TypeOK
    <3>2. Busy'
      BY <1>0, <2>1, <2>3, <2>5 DEF Busy, Waiting, InHand
    <3>3. WaitersHaveSenders'
      BY <1>0, <2>1, <2>2, <2>3, <2>5 DEF Senders, WaitersHaveSenders, ReqWho
    <3> QED
      BY <1>0, <2>1, <2>2, <3>1, <3>2, <3>3 DEF Senders
  <2> QED
    BY <1>1, <2>4, <2>5 DEF handle_actor_request, r
<1>2. CASE handle_accepted
  <2>1. /\ app = "select" /\ accept_rx # <<>> /\ accept_rx' = Tail(accept_rx)
        /\ job' = [peer |-> Head(accept_rx), who |-> Handle]
        /\ app' = IF chat_managers[Head(accept_rx)] = "none" THEN "opening" ELSE "passing"
        /\ UNCHANGED <<call, peer, request_rx, chat_managers, in_rx, conn, requests, protocol,
                       cancelled, pool, join>>
    BY <1>2 DEF handle_accepted
  <2>2. Head(accept_rx) \in Peer /\ accept_rx' \in Seq(Peer)
    BY <1>0, <2>1 DEF TypeOK
  <2>3. /\ job'.peer \in Peer /\ job'.who = Handle /\ Handle \notin Caller /\ job' \in Job
        /\ job.who \notin Caller /\ job'.peer = Head(accept_rx)
    BY <1>0, <2>1, <2>2, AppAssumption DEF Job, Who, Busy
  <2>4. TypeOK'
    BY <1>0, <2>1, <2>2, <2>3 DEF TypeOK
  <2>5. Busy'
    BY <1>0, <2>1, <2>3 DEF Busy, Waiting, InHand
  <2>6. ReqWho' = ReqWho
    BY <2>1 DEF ReqWho
  <2>7. WaitersHaveSenders'
    BY <1>0, <2>1, <2>3, <2>6 DEF Senders, WaitersHaveSenders, ReqWho
  <2> QED
    BY <1>0, <2>1, <2>3, <2>4, <2>5, <2>7 DEF Senders
<1> QED
  BY <1>1, <1>2

\* A handle is passed on or dropped.
LEMMA PassStep ==
    ASSUME Inv, pass_accepted_conn_handle PROVE Inv'
<1> USE DEF Inv
<1>0. /\ TypeOK /\ Busy /\ Senders
      /\ Handle \notin Caller /\ Gone \notin Caller /\ Handle \in Who
  BY AppAssumption DEF Who
<1>1. /\ app = "passing" /\ app' = "select" /\ job' = NoJob
      /\ UNCHANGED <<call, peer, request_rx, chat_managers, conn, requests, accept_rx, protocol,
                     cancelled, pool, join>>
  BY DEF pass_accepted_conn_handle, caller_vars, protocol_vars, stop_vars
<1>2. /\ job'.who \notin Caller /\ job.who \notin Caller /\ job' \in Job
      /\ job.peer \in Peer /\ ReqWho' = ReqWho
  BY <1>0, <1>1 DEF NoJob, Job, Who, Busy, ReqWho
<1> DEFINE p == job.peer
<1>3. CASE UNCHANGED in_rx
  <2>1. TypeOK'
    BY <1>0, <1>1, <1>2, <1>3 DEF TypeOK
  <2>2. Busy'
    BY <1>0, <1>1, <1>2, <1>3 DEF Busy, Waiting, InHand
  <2>3. WaitersHaveSenders'
    BY <1>0, <1>1, <1>2, <1>3 DEF Senders, WaitersHaveSenders, ReqWho
  <2> QED
    BY <1>0, <1>2, <1>3, <2>1, <2>2, <2>3 DEF Senders
<1>4. CASE Room(p) /\ in_rx' = [in_rx EXCEPT ![p] = Append(@, Handle)]
  <2>1. p \in Peer
    BY <1>2
  <2> HIDE DEF p
  <2>2. /\ in_rx' \in [Peer -> Seq(Who)]
        /\ Range(in_rx'[p]) = Range(in_rx[p]) \cup {Handle}
        /\ in_rx'[p] # <<>>
        /\ Len(in_rx'[p]) <= CHANNEL_BUFFER + (IF InHand(p) THEN 1 ELSE 0)
        /\ Once(in_rx[p]) => Once(in_rx'[p])
        /\ \A q \in Peer \ {p} : in_rx'[q] = in_rx[q]
    BY <1>0, <1>4, <2>1, Queued
  <2>3. ASSUME NEW q \in Peer
        PROVE  /\ InHand(q) => in_rx'[q] # <<>>
               /\ ~InHand(q) => Len(in_rx'[q]) <= CHANNEL_BUFFER
               /\ Len(in_rx'[q]) <= CHANNEL_BUFFER + 1
               /\ Once(in_rx'[q])
               /\ \A c \in Caller : c \in Range(in_rx'[q]) <=> c \in Range(in_rx[q])
    <3>1. CASE q = p
      <4>1. Len(in_rx'[p]) \in Nat
        BY <2>1, <2>2
      <4> QED
        BY <1>0, <2>1, <2>2, <3>1, <4>1, AppAssumption DEF Senders
    <3>2. CASE q # p
      BY <1>0, <2>2, <3>2 DEF Busy, TypeOK, Senders
    <3> QED
      BY <3>1, <3>2
  <2>4. TypeOK'
    BY <1>0, <1>1, <1>2, <2>2, <2>3 DEF TypeOK
  <2>5. Busy'
    BY <1>0, <1>1, <1>2, <2>3 DEF Busy, Waiting, InHand
  <2>6. WaitersHaveSenders'
    BY <1>0, <1>1, <1>2, <2>3 DEF Senders, WaitersHaveSenders, ReqWho
  <2> QED
    BY <1>2, <2>3, <2>4, <2>5, <2>6 DEF Senders
<1> QED
  BY <1>3, <1>4 DEF pass_accepted_conn_handle, p

\* handle_chat_manager returns, with a manager or an error.
LEMMA CreateStep ==
    ASSUME Inv, manager_created \/ manager_not_created PROVE Inv'
<1> USE DEF Inv
<1>0. TypeOK /\ Busy /\ Senders /\ Handle \notin Caller /\ Gone \notin Caller
  BY AppAssumption
<1>1. /\ app = "opening" /\ app' = "select" /\ job' = NoJob
      /\ Answer(job.who, "ok") \/ Answer(job.who, "done")
      /\ UNCHANGED <<request_rx, in_rx, accept_rx, protocol, cancelled, pool, join>>
  BY DEF manager_created, manager_not_created, manager_vars, protocol_vars, stop_vars
<1>2. /\ job'.who \notin Caller /\ job' \in Job /\ job.peer \in Peer /\ ReqWho' = ReqWho
      /\ chat_managers[job.peer] = "none"
  BY <1>0, <1>1 DEF NoJob, Job, Who, Busy, ReqWho
<1>3. /\ call' \in [Caller -> {"done", "opening", "queued", "calling", "sent", "ok"}]
      /\ peer' \in [Caller -> Peer \cup {NoPeer}]
      /\ \A d \in Caller : d = job.who => call'[d] \in {"done", "ok"}
      /\ \A d \in Caller : d # job.who => call'[d] = call[d] /\ peer'[d] = peer[d]
  BY <1>0, <1>1, Answered
<1>4. /\ chat_managers' \in [Peer -> ManagerState]
      /\ conn' \in [Peer -> {"Disconnected", "Reconnecting", "Connected"}]
      /\ requests' \in Seq([kind : {"Dial", "Accept"}, peer : Peer])
      /\ requests # <<>> => requests' # <<>>
      /\ \A p \in Peer : InHand(p)' <=> InHand(p)
  <2>1. CASE manager_not_created
    BY <1>0, <2>1 DEF manager_not_created, manager_vars, protocol_vars, TypeOK, InHand, ManagerState
  <2>2. CASE manager_created
    <3>1. /\ chat_managers' \in [Peer -> ManagerState]
          /\ conn' \in [Peer -> {"Disconnected", "Reconnecting", "Connected"}]
          /\ \A p \in Peer : InHand(p)' <=> InHand(p)
      BY <1>0, <1>2, <2>2 DEF manager_created, TypeOK, InHand, ManagerState
    <3>2. /\ requests' \in Seq([kind : {"Dial", "Accept"}, peer : Peer])
          /\ requests # <<>> => requests' # <<>>
      <4>1. ASSUME NEW S, NEW t \in Seq(S), NEW x \in S
            PROVE  Append(t, x) \in Seq(S) /\ Append(t, x) # <<>>
        <5>1. Append(t, x) \in Seq(S) /\ Len(Append(t, x)) = Len(t) + 1 /\ Len(t) \in Nat
          BY <4>1
        <5> QED
          BY <5>1
      <4>2. requests \in Seq([kind : {"Dial", "Accept"}, peer : Peer])
        BY <1>0 DEF TypeOK
      <4>3. Dial(job.peer) \in [kind : {"Dial", "Accept"}, peer : Peer]
        BY <1>2 DEF Dial
      <4>4. requests' = requests \/ requests' = Append(requests, Dial(job.peer))
        BY <2>2 DEF manager_created
      <4> QED
        BY <4>1, <4>2, <4>3, <4>4, ZenonT(40)
    <3> QED
      BY <3>1, <3>2
  <2> QED
    BY <2>1, <2>2
<1>5. TypeOK'
  BY <1>0, <1>1, <1>2, <1>3, <1>4 DEF TypeOK
<1>6. Busy'
  BY <1>0, <1>1, <1>2, <1>3, <1>4 DEF Busy, Waiting
<1>7. WaitersHaveSenders'
  <2> SUFFICES ASSUME NEW d \in Caller
               PROVE  /\ call'[d] = "queued" <=> d \in ReqWho' \cup {job'.who}
                      /\ \A p \in Peer : (call'[d] = "sent" /\ peer'[d] = p)
                                           <=> d \in Range(in_rx'[p])
    BY DEF WaitersHaveSenders, ReqWho
  <2>1. /\ call[d] = "queued" <=> d \in ReqWho \cup {job.who}
        /\ \A p \in Peer : (call[d] = "sent" /\ peer[d] = p) <=> d \in Range(in_rx[p])
    BY <1>0 DEF Senders, WaitersHaveSenders, ReqWho
  <2>2. CASE d = job.who
    <3>1. d \notin ReqWho /\ call[d] = "queued" /\ call'[d] \in {"done", "ok"}
      BY <1>0, <1>3, <2>1, <2>2 DEF Senders
    <3> QED
      BY <1>1, <1>2, <2>1, <3>1
  <2>3. CASE d # job.who
    BY <1>1, <1>2, <1>3, <2>1, <2>3
  <2> QED
    BY <2>2, <2>3
<1> QED
  BY <1>0, <1>1, <1>2, <1>5, <1>6, <1>7 DEF Senders

\* The AppActor ends, with the request in its channel.
LEMMA CleanupStep ==
    ASSUME Inv, cleanup PROVE Inv'
<1> USE DEF Inv
<1>0. TypeOK /\ Busy /\ Senders /\ Gone \notin Caller
  BY AppAssumption
<1>1. /\ app = "router" /\ app' = "ended" /\ protocol = "ended"
      /\ Answer(IF request_rx = <<>> THEN Gone ELSE Head(request_rx).who, "done")
      /\ request_rx' = <<>> /\ accept_rx' = <<>>
      /\ conn' = [p \in Peer |-> "Disconnected"]
      /\ UNCHANGED <<job, chat_managers, in_rx, requests, protocol, cancelled, pool, join>>
  BY DEF cleanup, stop_vars
<1>2. /\ ReqWho' = {} /\ accept_rx' \in Seq(Peer) /\ Len(request_rx') <= 1
      /\ request_rx' \in Seq([peer : Peer, who : Caller \cup {Gone}])
      /\ job.who \notin Caller
  BY <1>0, <1>1, SMTT(30) DEF ReqWho, Range, Busy
<1>3. /\ call' \in [Caller -> {"done", "opening", "queued", "calling", "sent", "ok"}]
      /\ peer' \in [Caller -> Peer \cup {NoPeer}]
      /\ \A d \in Caller : d \in ReqWho => call'[d] = "done"
      /\ \A d \in Caller : d \notin ReqWho => call'[d] = call[d] /\ peer'[d] = peer[d]
  <2>1. CASE request_rx = <<>>
    BY <1>0, <1>1, <2>1, Answered, Requested
  <2>2. CASE request_rx # <<>>
    BY <1>0, <1>1, <2>2, Answered, Requested
  <2> QED
    BY <2>1, <2>2
<1>4. TypeOK'
  BY <1>0, <1>1, <1>2, <1>3 DEF TypeOK
<1>5. Busy'
  BY <1>0, <1>1, <1>2, <1>3 DEF Busy, Waiting, InHand
<1>6. WaitersHaveSenders'
  BY <1>0, <1>1, <1>2, <1>3 DEF Senders, WaitersHaveSenders, ReqWho
<1> QED
  BY <1>0, <1>1, <1>2, <1>4, <1>5, <1>6 DEF Senders

-----------------------------------------------------------------------------
(* Steps of the managers.                                                  *)

manager_step(p) ==
    \/ manager_actor(p) \/ handle_incomming_message(p) \/ manager_orphaned(p)
    \/ handle_outgoing_sync_message(p) \/ send_message_done(p)

\* A manager's actor ends.
LEMMA EndStep ==
    ASSUME Inv, NEW p \in Peer, chat_managers[p] # "none", End(p),
           UNCHANGED <<app_vars, protocol_vars, stop_vars>>
    PROVE  Inv'
<1> USE DEF Inv, app_vars, protocol_vars, stop_vars
<1>0. TypeOK /\ Busy /\ Senders
  OBVIOUS
<1>1. /\ call' \in [Caller -> {"done", "opening", "queued", "calling", "sent", "ok"}]
      /\ peer' \in [Caller -> Peer \cup {NoPeer}]
      /\ \A c \in Caller : c \in Range(in_rx[p]) => call'[c] = "done"
      /\ \A c \in Caller :
            c \notin Range(in_rx[p]) => call'[c] = call[c] /\ peer'[c] = peer[c]
      /\ chat_managers' \in [Peer -> ManagerState]
      /\ conn' \in [Peer -> {"Disconnected", "Reconnecting", "Connected"}]
      /\ in_rx' \in [Peer -> Seq(Who)]
      /\ chat_managers'[p] = "ended" /\ in_rx'[p] = <<>>
      /\ \A q \in Peer \ {p} : chat_managers'[q] = chat_managers[q] /\ in_rx'[q] = in_rx[q]
  BY <1>0, Ended
<1>2. Len(in_rx'[p]) = 0 /\ Range(in_rx'[p]) = {} /\ Once(in_rx'[p])
  <2>1. Len(<<>>) = 0 /\ DOMAIN <<>> = {}
    OBVIOUS
  <2>2. in_rx'[p] = <<>>
    BY <1>1
  <2> QED
    BY <2>1, <2>2 DEF Range, Once
<1>3. ASSUME NEW q \in Peer
      PROVE  /\ InHand(q)' => in_rx'[q] # <<>>
             /\ ~InHand(q)' => Len(in_rx'[q]) <= CHANNEL_BUFFER
             /\ Len(in_rx'[q]) <= CHANNEL_BUFFER + 1
  <2>1. CASE q = p
    <3>1. ~InHand(q)' /\ Len(in_rx'[q]) = 0
      BY <1>1, <1>2, <2>1 DEF InHand
    <3>2. 0 <= CHANNEL_BUFFER /\ 0 <= CHANNEL_BUFFER + 1
      BY AppAssumption
    <3> QED
      BY <3>1, <3>2
  <2>2. CASE q # p
    <3>1. in_rx'[q] = in_rx[q] /\ chat_managers'[q] = chat_managers[q]
      BY <1>1, <2>2
    <3>2. /\ InHand(q) => in_rx[q] # <<>>
          /\ ~InHand(q) => Len(in_rx[q]) <= CHANNEL_BUFFER
      BY <1>0 DEF Busy
    <3>3. Len(in_rx[q]) <= CHANNEL_BUFFER + 1
      BY <1>0 DEF TypeOK
    <3> QED
      BY <3>1, <3>2, <3>3 DEF InHand
  <2> QED
    BY <2>1, <2>2
<1>4. TypeOK'
  BY <1>0, <1>1, <1>3 DEF TypeOK
<1>6. Busy'
  BY <1>0, <1>1, <1>3 DEF Busy, Waiting
<1>7. ReqWho' = ReqWho
  BY DEF ReqWho
<1>8. WaitersHaveSenders'
  <2> SUFFICES ASSUME NEW d \in Caller
               PROVE  /\ call'[d] = "queued" <=> d \in ReqWho' \cup {job'.who}
                      /\ \A q \in Peer : (call'[d] = "sent" /\ peer'[d] = q)
                                           <=> d \in Range(in_rx'[q])
    BY DEF WaitersHaveSenders, ReqWho
  <2>1. /\ call[d] = "queued" <=> d \in ReqWho \cup {job.who}
        /\ \A q \in Peer : (call[d] = "sent" /\ peer[d] = q) <=> d \in Range(in_rx[q])
    BY <1>0 DEF Senders, WaitersHaveSenders, ReqWho
  <2>2. CASE d \in Range(in_rx[p])
    <3>1. call'[d] = "done" /\ call[d] = "sent" /\ peer[d] = p
      BY <1>1, <2>1, <2>2
    <3>2. ASSUME NEW q \in Peer PROVE d \notin Range(in_rx'[q])
      <4>1. CASE q = p
        BY <1>2, <4>1
      <4>2. CASE q # p
        BY <1>1, <2>1, <3>1, <4>2, ZenonT(40)
      <4> QED
        BY <4>1, <4>2
    <3> QED
      BY <1>7, <2>1, <3>1, <3>2
  <2>3. CASE d \notin Range(in_rx[p])
    BY <1>1, <1>2, <1>7, <2>1, <2>3
  <2> QED
    BY <2>2, <2>3
<1> QED
  BY <1>0, <1>1, <1>2, <1>4, <1>6, <1>7, <1>8 DEF Senders

\* The first request leaves the channel of a manager and its caller, if it is
\* one, is answered.
LEMMA HeadStep ==
    ASSUME Inv, NEW p \in Peer, in_rx[p] # <<>>, chat_managers[p] \in {"running", "writing", "replying"},
           Answer(Head(in_rx[p]), "done"),
           in_rx' = [in_rx EXCEPT ![p] = Tail(@)],
           chat_managers' = [chat_managers EXCEPT ![p] = "running"],
           conn' \in [Peer -> {"Disconnected", "Reconnecting", "Connected"}],
           UNCHANGED <<app_vars, protocol_vars, stop_vars>>
    PROVE  Inv'
<1> USE DEF Inv, app_vars, protocol_vars, stop_vars
<1>0. TypeOK /\ Busy /\ Senders /\ Once(in_rx[p])
  BY DEF Senders
<1> DEFINE h == Head(in_rx[p])
<1>1. /\ call' \in [Caller -> {"done", "opening", "queued", "calling", "sent", "ok"}]
      /\ peer' \in [Caller -> Peer \cup {NoPeer}]
      /\ \A c \in Caller : c = h => call'[c] = "done"
      /\ \A c \in Caller : c # h => call'[c] = call[c] /\ peer'[c] = peer[c]
  BY <1>0, Answered
<1>2. /\ in_rx' \in [Peer -> Seq(Who)]
      /\ Len(in_rx'[p]) = Len(in_rx[p]) - 1
      /\ h \in Range(in_rx[p])
      /\ \A c \in Caller : c \in Range(in_rx'[p]) <=> c \in Range(in_rx[p]) /\ c # h
      /\ Once(in_rx'[p])
      /\ \A q \in Peer \ {p} : in_rx'[q] = in_rx[q]
  BY <1>0, Taken
<1> HIDE DEF h
<1>3. /\ chat_managers' \in [Peer -> ManagerState]
      /\ chat_managers'[p] = "running"
      /\ \A q \in Peer \ {p} : chat_managers'[q] = chat_managers[q]
  BY <1>0 DEF TypeOK, ManagerState
<1>4. Len(in_rx'[p]) <= CHANNEL_BUFFER
  <2>1. Len(in_rx[p]) \in Nat /\ Len(in_rx[p]) <= CHANNEL_BUFFER + 1
    BY <1>0 DEF TypeOK
  <2> QED
    BY <1>2, <2>1, AppAssumption
<1>5. ASSUME NEW q \in Peer
      PROVE  /\ InHand(q)' => in_rx'[q] # <<>>
             /\ ~InHand(q)' => Len(in_rx'[q]) <= CHANNEL_BUFFER
             /\ Len(in_rx'[q]) <= CHANNEL_BUFFER + 1
             /\ Once(in_rx'[q])
  <2>1. CASE q = p
    <3>1. Len(in_rx'[p]) \in Nat
      BY <1>2
    <3> QED
      BY <1>2, <1>3, <1>4, <2>1, <3>1, AppAssumption DEF InHand
  <2>2. CASE q # p
    <3>1. in_rx'[q] = in_rx[q] /\ chat_managers'[q] = chat_managers[q]
      BY <1>2, <1>3, <2>2
    <3>2. /\ InHand(q) => in_rx[q] # <<>>
          /\ ~InHand(q) => Len(in_rx[q]) <= CHANNEL_BUFFER
      BY <1>0 DEF Busy
    <3>3. Len(in_rx[q]) <= CHANNEL_BUFFER + 1
      BY <1>0 DEF TypeOK
    <3>4. Once(in_rx[q])
      BY <1>0 DEF Senders
    <3> QED
      BY <3>1, <3>2, <3>3, <3>4 DEF InHand
  <2> QED
    BY <2>1, <2>2
<1>6. TypeOK'
  BY <1>0, <1>1, <1>2, <1>3, <1>5 DEF TypeOK
<1>7. Busy'
  BY <1>0, <1>1, <1>3, <1>5 DEF Busy, Waiting
<1>8. ReqWho' = ReqWho
  BY DEF ReqWho
<1>9. WaitersHaveSenders'
  <2> SUFFICES ASSUME NEW d \in Caller
               PROVE  /\ call'[d] = "queued" <=> d \in ReqWho' \cup {job'.who}
                      /\ \A q \in Peer : (call'[d] = "sent" /\ peer'[d] = q)
                                           <=> d \in Range(in_rx'[q])
    BY DEF WaitersHaveSenders, ReqWho
  <2>1. /\ call[d] = "queued" <=> d \in ReqWho \cup {job.who}
        /\ \A q \in Peer : (call[d] = "sent" /\ peer[d] = q) <=> d \in Range(in_rx[q])
    BY <1>0 DEF Senders, WaitersHaveSenders, ReqWho
  <2>2. CASE d = h
    BY <1>1, <1>2, <1>8, <2>1, <2>2, SMTT(30)
  <2>3. CASE d # h
    BY <1>1, <1>2, <1>8, <2>1, <2>3, ZenonT(40)
  <2> QED
    BY <2>2, <2>3
<1> QED
  BY <1>0, <1>5, <1>6, <1>7, <1>8, <1>9 DEF Senders

\* A manager handles a request, or ends.
LEMMA ManagerStep ==
    ASSUME Inv, NEW p \in Peer, manager_step(p) PROVE Inv'
<1>0. TypeOK /\ Busy /\ Senders /\ Handle \notin Caller
  BY AppAssumption DEF Inv
<1>1. CASE manager_cancelled(p) \/ manager_orphaned(p)
  BY <1>1, EndStep DEF manager_cancelled, manager_orphaned
<1>2. ASSUME Reply(p), in_rx[p] # <<>>, chat_managers[p] \in {"running", "writing", "replying"},
             UNCHANGED <<app_vars, protocol_vars, stop_vars>>
      PROVE  Inv'
  <2>1. CASE End(p)
    BY <1>2, <2>1, EndStep
  <2>2. CASE /\ Answer(Head(in_rx[p]), "done")
             /\ in_rx' = [in_rx EXCEPT ![p] = Tail(@)]
             /\ chat_managers' = [chat_managers EXCEPT ![p] = "running"]
             /\ UNCHANGED conn
    <3>1. conn' \in [Peer -> {"Disconnected", "Reconnecting", "Connected"}]
      BY <1>0, <2>2 DEF TypeOK
    <3> QED
      BY <1>2, <2>2, <3>1, HeadStep
  <2> QED
    BY <1>2, <2>1, <2>2 DEF Reply
<1>3. ASSUME NEW s \in {"running", "writing", "receiving", "replying", "sending"},
             chat_managers[p] # "none",
             chat_managers' = [chat_managers EXCEPT ![p] = s],
             s \in {"writing", "replying"} => in_rx[p] # <<>>,
             s \notin {"writing", "replying"} => ~InHand(p),
             UNCHANGED <<caller_vars, app_vars, in_rx, conn, protocol_vars, stop_vars>>
      PROVE  Inv'
  <2> USE DEF caller_vars, app_vars, protocol_vars, stop_vars
  <2>1. /\ chat_managers' \in [Peer -> ManagerState]
        /\ chat_managers'[p] = s
        /\ \A q \in Peer \ {p} : chat_managers'[q] = chat_managers[q]
    BY <1>0, <1>3 DEF TypeOK, ManagerState
  <2>2. TypeOK'
    BY <1>0, <1>3, <2>1 DEF TypeOK
  <2>3. \A q \in Peer : /\ InHand(q)' => in_rx[q] # <<>>
                        /\ ~InHand(q)' => Len(in_rx[q]) <= CHANNEL_BUFFER
    BY <1>0, <1>3, <2>1 DEF Busy, InHand
  <2>4. Busy'
    BY <1>0, <1>3, <2>1, <2>3 DEF Busy, Waiting
  <2>5. Senders'
    BY <1>0, <1>3, SendersStay
  <2> QED
    BY <2>2, <2>4, <2>5 DEF Inv
<1>4. CASE handle_outgoing_message(p)
  <2>1. /\ chat_managers[p] = "running" /\ in_rx[p] # <<>>
        /\ UNCHANGED <<app_vars, protocol_vars, stop_vars>>
    BY <1>4 DEF handle_outgoing_message
  <2>2. CASE Reply(p)
    BY <1>2, <2>1, <2>2
  <2>3. CASE /\ Head(in_rx[p]) = Handle
             /\ conn' = [conn EXCEPT ![p] = "Connected"]
             /\ in_rx' = [in_rx EXCEPT ![p] = Tail(@)]
             /\ UNCHANGED <<caller_vars, chat_managers>>
    <3>1. conn' \in [Peer -> {"Disconnected", "Reconnecting", "Connected"}]
      BY <1>0, <2>3 DEF TypeOK
    <3>2. Answer(Head(in_rx[p]), "done")
      BY <1>0, <2>3 DEF Answer, TypeOK, caller_vars
    <3>3. chat_managers' = [chat_managers EXCEPT ![p] = "running"]
      BY <1>0, <2>1, <2>3 DEF TypeOK
    <3> QED
      BY <2>1, <2>3, <3>1, <3>2, <3>3, HeadStep
  <2>4. CASE /\ chat_managers' = [chat_managers EXCEPT ![p] = "writing"]
             /\ UNCHANGED <<caller_vars, in_rx, conn>>
    BY <1>3, <2>1, <2>4
  <2> QED
    BY <1>4, <2>2, <2>3, <2>4 DEF handle_outgoing_message
<1>5. CASE add_message_done(p)
  <2>1. /\ chat_managers[p] = "writing" /\ in_rx[p] # <<>>
        /\ UNCHANGED <<app_vars, protocol_vars, stop_vars>>
    BY <1>0, <1>5 DEF add_message_done, Busy, InHand
  <2> QED
    BY <1>2, <1>3, <1>5, <2>1 DEF add_message_done
<1>6. CASE send_message_done(p)
  <2>1. UNCHANGED <<app_vars, protocol_vars, stop_vars>>
    BY <1>6 DEF send_message_done
  <2>2. CASE chat_managers[p] = "replying" /\ Reply(p)
    <3>1. in_rx[p] # <<>>
      BY <1>0, <2>2 DEF Busy, InHand
    <3> QED
      BY <1>2, <2>1, <2>2, <3>1
  <2>3. CASE /\ chat_managers[p] = "sending"
             /\ chat_managers' = [chat_managers EXCEPT ![p] = "running"]
             /\ UNCHANGED <<caller_vars, in_rx, conn>>
    BY <1>3, <2>1, <2>3 DEF InHand
  <2> QED
    BY <1>6, <2>2, <2>3 DEF send_message_done
<1>7. CASE \/ handle_incomming_message(p) \/ receive_sync_message_done(p)
           \/ handle_outgoing_sync_message(p)
  <2>1. /\ chat_managers[p] \in {"running", "receiving"}
        /\ \E s \in {"running", "receiving", "sending"} :
              chat_managers' = [chat_managers EXCEPT ![p] = s]
        /\ UNCHANGED <<caller_vars, app_vars, in_rx, conn, protocol_vars, stop_vars>>
    BY <1>7 DEF handle_incomming_message, receive_sync_message_done,
                handle_outgoing_sync_message
  <2> QED
    BY <1>3, <2>1 DEF InHand
<1> QED
  BY <1>1, <1>4, <1>5, <1>6, <1>7 DEF manager_step, manager_actor

-----------------------------------------------------------------------------
(* The end of the application.                                             *)

\* How far the shutdown is: whoever called shutdown() has cancelled the token;
\* the pool follows the AppActor, unless the Application was dropped; with a
\* closed pool nobody writes, and after a shutdown no chat is connected.
Stopping ==
    /\ \A s \in Shutter : join[s] # "idle" => cancelled
    /\ \A s \in Shutter : join[s] = "returned" => app = "ended"
    /\ app \in {"select", "opening", "passing"} => pool = "open"
    /\ app = "closing" => pool = "closing"
    /\ app \in {"router", "ended"} => pool = "closed" \/ (pool = "open" /\ ~cancelled)
    /\ pool # "open" => cancelled
    /\ pool = "closed" => \A p \in Peer : ~Querying(p)
    /\ app = "ended" => protocol = "ended"
    /\ app = "ended" /\ cancelled => \A p \in Peer : conn[p] = "Disconnected"

\* What a manager's step may do to its state and its connection.
LEMMA ManagerMoves ==
    ASSUME TypeOK, NEW p \in Peer, manager_step(p)
    PROVE  /\ UNCHANGED <<app, protocol, cancelled, pool, join>>
           /\ \A q \in Peer : /\ Querying(q)' => Querying(q) \/ pool = "open"
                              /\ conn'[q] = "Disconnected" \/ conn'[q] = conn[q] \/ ~cancelled
<1> USE DEF app_vars, protocol_vars, stop_vars
<1>1. ASSUME End(p)
      PROVE  \A q \in Peer : /\ Querying(q)' => Querying(q)
                             /\ conn'[q] = "Disconnected" \/ conn'[q] = conn[q]
  BY <1>1 DEF End, Querying, TypeOK
<1>2. ASSUME Reply(p)
      PROVE  \A q \in Peer : /\ Querying(q)' => Querying(q)
                             /\ conn'[q] = "Disconnected" \/ conn'[q] = conn[q]
  BY <1>1, <1>2 DEF Reply, Querying, TypeOK
<1>3. CASE manager_cancelled(p) \/ manager_orphaned(p)
  BY <1>1, <1>3 DEF manager_cancelled, manager_orphaned
<1>4. CASE add_message_done(p) \/ send_message_done(p)
  <2>1. UNCHANGED <<app, protocol, cancelled, pool, join>>
    BY <1>4 DEF add_message_done, send_message_done
  <2>2. CASE Reply(p)
    BY <1>2, <2>1, <2>2
  <2>3. CASE ~Reply(p)
    BY <1>4, <2>1, <2>3 DEF add_message_done, send_message_done, Querying, TypeOK
  <2> QED
    BY <2>2, <2>3
<1>5. CASE handle_outgoing_message(p)
  <2>1. ~cancelled /\ UNCHANGED <<app, protocol, cancelled, pool, join>>
    BY <1>5 DEF handle_outgoing_message
  <2>2. ASSUME NEW q \in Peer
        PROVE  Querying(q)' => Querying(q) \/ pool = "open"
    BY <1>2, <1>5 DEF handle_outgoing_message, Querying, TypeOK
  <2> QED
    BY <2>1, <2>2
<1>6. CASE \/ handle_incomming_message(p) \/ receive_sync_message_done(p)
           \/ handle_outgoing_sync_message(p)
  BY <1>6 DEF handle_incomming_message, receive_sync_message_done,
              handle_outgoing_sync_message, Querying, TypeOK
<1> QED
  BY <1>3, <1>4, <1>5, <1>6 DEF manager_step, manager_actor

\* Every step keeps the order of the shutdown.
LEMMA StoppingStep ==
    ASSUME TypeOK, Busy, Stopping, [Next]_vars PROVE Stopping'
<1> USE DEF app_vars, manager_vars, protocol_vars, stop_vars
<1>1. ASSUME NEW p \in Peer, manager_step(p) PROVE Stopping'
  BY <1>1, ManagerMoves DEF Stopping, Querying
<1>2. ASSUME UNCHANGED <<app, chat_managers, conn, protocol, cancelled, pool, join>>
      PROVE  Stopping'
  BY <1>2 DEF Stopping, Querying
<1>3. ASSUME NEW c \in Caller,
             \/ \E p \in Peer : chat_manager(c, p) \/ manager_call(c, p)
             \/ enqueue(c) \/ give_up(c)
      PROVE  Stopping'
  <2>1. UNCHANGED <<app, chat_managers, conn, protocol, cancelled, pool, join>>
    BY <1>3 DEF chat_manager, manager_call, enqueue, chat_manager_sent, chat_manager_refused,
                manager_call_sent, manager_call_refused, give_up
  <2> QED
    BY <1>2, <2>1
<1>4. CASE handle_actor_request \/ handle_accepted \/ pass_accepted_conn_handle
             \/ manager_not_created
  <2>1. /\ app \in {"select", "opening", "passing"} /\ app' \in {"select", "opening", "passing"}
        /\ UNCHANGED <<chat_managers, conn, protocol, cancelled, pool, join>>
    BY <1>4 DEF handle_actor_request, handle_accepted, pass_accepted_conn_handle,
                manager_not_created
  <2> QED
    BY <2>1 DEF Stopping, Querying
<1>5. CASE manager_created
  <2>1. /\ app = "opening" /\ app' = "select"
        /\ UNCHANGED <<protocol, cancelled, pool, join>>
    BY <1>5 DEF manager_created
  <2> QED
    BY <2>1 DEF Stopping, Querying
<1>6. CASE run_cancelled \/ pool_closed
  <2>1. /\ UNCHANGED <<chat_managers, conn, protocol, cancelled, join>>
        /\ \/ app = "select" /\ cancelled /\ app' = "closing" /\ pool' = "closing"
           \/ /\ app = "closing" /\ app' = "router" /\ pool' = "closed"
              /\ \A p \in Peer : ~Querying(p)
    BY <1>6 DEF run_cancelled, pool_closed
  <2> QED
    BY <2>1 DEF Stopping, Querying
<1>7. CASE cleanup
  <2>1. /\ app = "router" /\ app' = "ended" /\ protocol = "ended"
        /\ \A p \in Peer : conn'[p] = "Disconnected"
        /\ UNCHANGED <<chat_managers, protocol, cancelled, pool, join>>
    BY <1>7 DEF cleanup
  <2> QED
    BY <2>1 DEF Stopping, Querying
<1>8. CASE application_dropped
  <2>1. /\ app = "select" /\ ~cancelled /\ app' = "router"
        /\ UNCHANGED <<chat_managers, conn, protocol, cancelled, pool, join>>
    BY <1>8 DEF application_dropped
  <2> QED
    BY <2>1 DEF Stopping, Querying
<1>9. ASSUME NEW s \in Shutter, shutdown(s) PROVE Stopping'
  <2>1. /\ cancelled' /\ ~Dropped
        /\ \A t \in Shutter : join'[t] = "returned" => join[t] = "returned"
        /\ UNCHANGED <<app, chat_managers, conn, protocol, pool>>
    BY <1>9 DEF shutdown, TypeOK
  <2>2. app \in {"router", "ended"} => pool = "closed" /\ cancelled
    BY <2>1 DEF Stopping, Dropped
  <2> QED
    BY <2>1, <2>2 DEF Stopping, Querying
<1>10. ASSUME NEW s \in Shutter, shutdown_complete(s) PROVE Stopping'
  <2>1. /\ app = "ended" /\ join[s] = "joining" /\ \A t \in Shutter \ {s} : join'[t] = join[t]
        /\ UNCHANGED <<app, chat_managers, conn, protocol, cancelled, pool>>
    BY <1>10 DEF shutdown_complete, TypeOK
  <2>2. cancelled
    BY <2>1 DEF Stopping, Querying
  <2> QED
    BY <2>1, <2>2 DEF Stopping, Querying
<1>11. ASSUME NEW p \in Peer, reconnect(p) \/ transport_lost(p) \/ incoming(p)
       PROVE  Stopping'
  <2>1. UNCHANGED <<app, chat_managers, protocol, cancelled, pool, join>>
    BY <1>11 DEF reconnect, transport_lost, incoming
  <2>2. app = "ended" => \A q \in Peer : conn'[q] = conn[q] \/ conn'[q] = "Disconnected"
    BY <1>11 DEF reconnect, transport_lost, incoming, TypeOK, Stopping
  <2> QED
    BY <2>1, <2>2 DEF Stopping, Querying
<1>12. CASE protocol_takes \/ protocol_dialed \/ protocol_accepted \/ protocol_shutdown
  <2>1. /\ UNCHANGED <<app, chat_managers, cancelled, pool, join>>
        /\ protocol # "ended"
    BY <1>12 DEF protocol_takes, protocol_dialed, protocol_accepted, protocol_shutdown
  <2> QED
    BY <2>1 DEF Stopping, Querying
<1>13. CASE UNCHANGED vars
  BY <1>2, <1>13 DEF vars
<1> QED
  BY <1>1, <1>3, <1>4, <1>5, <1>6, <1>7, <1>8, <1>9, <1>10, <1>11, <1>12, <1>13
  DEF Next, app_actor, manager_step, protocol_actor

-----------------------------------------------------------------------------
(* The queue of the protocol actor.                                        *)

\* A chat that is Reconnecting has a live manager and its dial in the queue, and
\* an accept under way is the first request.
Dialing ==
    /\ ReconnectingIsQueued
    /\ \A p \in Peer : conn[p] = "Reconnecting" => Alive(p)
    /\ protocol = "accepting" => Head(requests).kind = "Accept"

\* Only the head leaves a queue.
LEMMA RestStays ==
    ASSUME NEW S, NEW s \in Seq(S), s # <<>>, NEW x \in Range(s), x # Head(s)
    PROVE  x \in Range(Tail(s))
<1>1. /\ DOMAIN s = 1..Len(s) /\ Len(s) \in Nat \ {0} /\ Head(s) = s[1]
      /\ DOMAIN Tail(s) = 1..(Len(s) - 1) /\ \A i \in 1..(Len(s) - 1) : Tail(s)[i] = s[i + 1]
  OBVIOUS
<1>2. PICK i \in 1..Len(s) : s[i] = x
  BY <1>1 DEF Range
<1>3. i - 1 \in 1..(Len(s) - 1) /\ (i - 1) + 1 = i
  BY <1>1, <1>2
<1> QED
  BY <1>1, <1>2, <1>3 DEF Range

\* A request joins the queue, which keeps its head.
LEMMA RequestJoins ==
    ASSUME NEW S, NEW s \in Seq(S), NEW x \in S
    PROVE  /\ Range(Append(s, x)) = Range(s) \cup {x}
           /\ s # <<>> => Head(Append(s, x)) = Head(s)
<1>1. Range(Append(s, x)) = Range(s) \cup {x}
  BY AppendSet
<1>2. s # <<>> => Head(Append(s, x)) = Head(s)
  OBVIOUS
<1> QED
  BY <1>1, <1>2

\* Steps that touch neither the queue nor its actor and start no dial.
LEMMA DialsKept ==
    ASSUME Dialing, UNCHANGED <<requests, protocol>>,
           \A p \in Peer : conn'[p] = "Reconnecting" =>
                              /\ conn[p] = "Reconnecting"
                              /\ Alive(p) => Alive(p)'
    PROVE  Dialing'
  BY DEF Dialing, ReconnectingIsQueued, Dial

\* A manager's step ends its own dial only.
LEMMA ManagerKeepsDials ==
    ASSUME TypeOK, NEW p \in Peer, manager_step(p)
    PROVE  /\ UNCHANGED <<requests, protocol>>
           /\ \A q \in Peer : conn'[q] = "Reconnecting" =>
                                 /\ conn[q] = "Reconnecting"
                                 /\ Alive(q) => Alive(q)'
<1> USE DEF protocol_vars
<1>1. ASSUME End(p)
      PROVE  \A q \in Peer : conn'[q] = "Reconnecting" =>
                                conn[q] = "Reconnecting" /\ (Alive(q) => Alive(q)')
  BY <1>1 DEF End, Alive, TypeOK
<1>2. ASSUME Reply(p)
      PROVE  \A q \in Peer : conn'[q] = "Reconnecting" =>
                                conn[q] = "Reconnecting" /\ (Alive(q) => Alive(q)')
  BY <1>1, <1>2 DEF Reply, Alive, TypeOK
<1>3. ASSUME NEW s \in {"running", "writing", "receiving", "replying", "sending"},
             chat_managers' = [chat_managers EXCEPT ![p] = s], UNCHANGED conn
      PROVE  \A q \in Peer : conn'[q] = "Reconnecting" =>
                                conn[q] = "Reconnecting" /\ (Alive(q) => Alive(q)')
  BY <1>3 DEF Alive, TypeOK
<1>4. CASE manager_cancelled(p) \/ manager_orphaned(p)
  BY <1>1, <1>4 DEF manager_cancelled, manager_orphaned
<1>5. CASE handle_outgoing_message(p)
  <2>1. UNCHANGED <<requests, protocol>>
    BY <1>5 DEF handle_outgoing_message
  <2>2. CASE conn' = [conn EXCEPT ![p] = "Connected"] /\ UNCHANGED chat_managers
    BY <2>1, <2>2 DEF Alive, TypeOK
  <2> QED
    BY <1>2, <1>3, <1>5, <2>1, <2>2 DEF handle_outgoing_message
<1>6. CASE add_message_done(p) \/ send_message_done(p)
  BY <1>2, <1>3, <1>6 DEF add_message_done, send_message_done
<1>7. CASE \/ handle_incomming_message(p) \/ receive_sync_message_done(p)
           \/ handle_outgoing_sync_message(p)
  BY <1>3, <1>7 DEF handle_incomming_message, receive_sync_message_done,
                    handle_outgoing_sync_message
<1> QED
  BY <1>4, <1>5, <1>6, <1>7 DEF manager_step, manager_actor

\* Every step keeps the dials of the chats that wait for one.
LEMMA DialingStep ==
    ASSUME TypeOK, Busy, Dialing, [Next]_vars PROVE Dialing'
<1> DEFINE Request == [kind : {"Dial", "Accept"}, peer : Peer]
<1> USE DEF app_vars, manager_vars, protocol_vars, stop_vars
<1>0. /\ requests \in Seq(Request) /\ chat_managers \in [Peer -> ManagerState]
      /\ conn \in [Peer -> {"Disconnected", "Reconnecting", "Connected"}]
      /\ protocol \in {"dialing", "accepting"} => requests # <<>>
  BY DEF TypeOK, Busy
<1>1. ASSUME NEW p \in Peer, manager_step(p) PROVE Dialing'
  BY <1>1, ManagerKeepsDials, DialsKept
<1>2. ASSUME UNCHANGED <<requests, protocol, chat_managers, conn>> PROVE Dialing'
  BY <1>2, DialsKept DEF Alive
<1>3. ASSUME NEW c \in Caller,
             \/ \E p \in Peer : chat_manager(c, p) \/ manager_call(c, p)
             \/ enqueue(c) \/ give_up(c)
      PROVE  Dialing'
  <2>1. UNCHANGED <<requests, protocol, chat_managers, conn>>
    BY <1>3 DEF chat_manager, manager_call, enqueue, chat_manager_sent, chat_manager_refused,
                manager_call_sent, manager_call_refused, give_up
  <2> QED
    BY <1>2, <2>1
<1>4. CASE \/ handle_actor_request \/ handle_accepted \/ pass_accepted_conn_handle
           \/ manager_not_created \/ run_cancelled \/ pool_closed \/ application_dropped
           \/ \E s \in Shutter : shutdown(s) \/ shutdown_complete(s)
           \/ UNCHANGED vars
  <2>1. UNCHANGED <<requests, protocol, chat_managers, conn>>
    BY <1>4 DEF handle_actor_request, handle_accepted, pass_accepted_conn_handle,
                manager_not_created, run_cancelled, pool_closed, application_dropped,
                shutdown, shutdown_complete, vars
  <2> QED
    BY <1>2, <2>1
<1>5. ASSUME NEW r \in Request, requests' = Append(requests, r), UNCHANGED protocol
      PROVE  /\ Range(requests)' = Range(requests) \cup {r}
             /\ protocol' = "accepting" => Head(requests').kind = "Accept"
  <2> HIDE DEF Request
  <2>1. /\ Range(requests') = Range(requests) \cup {r}
        /\ requests # <<>> => Head(requests') = Head(requests)
    BY <1>0, <1>5, RequestJoins
  <2> QED
    BY <1>0, <1>5, <2>1 DEF Dialing, Range
<1>6. CASE manager_created
  <2>1. /\ job.peer \in Peer /\ Dial(job.peer) \in Request /\ UNCHANGED protocol
        /\ chat_managers' = [chat_managers EXCEPT ![job.peer] = "running"]
    BY <1>6 DEF manager_created, Busy, Dial
  <2>2. \A p \in Peer : Alive(p) => Alive(p)'
    BY <1>0, <2>1 DEF Alive
  <2>3. CASE job.who = Handle
    <3>1. /\ UNCHANGED requests
          /\ \A p \in Peer : conn'[p] = "Reconnecting" => conn[p] = "Reconnecting"
      BY <1>0, <1>6, <2>3 DEF manager_created
    <3> QED
      BY <2>1, <2>2, <3>1, DialsKept
  <2>4. CASE job.who # Handle
    <3>1. PICK j \in Peer : j = job.peer
      BY <2>1
    <3>2. /\ requests' = Append(requests, Dial(j))
          /\ conn' = [conn EXCEPT ![j] = "Reconnecting"]
      BY <1>6, <2>4, <3>1 DEF manager_created
    <3>3. /\ Alive(j)' /\ \A p \in Peer \ {j} : conn'[p] = conn[p]
      BY <1>0, <2>1, <3>1, <3>2 DEF Alive
    <3>4. /\ Range(requests)' = Range(requests) \cup {Dial(j)}
          /\ protocol' = "accepting" => Head(requests').kind = "Accept"
      BY <1>5, <2>1, <3>1, <3>2
    <3>5. ASSUME NEW p \in Peer, conn'[p] = "Reconnecting"
          PROVE  Dial(p) \in Range(requests)' /\ Alive(p)'
      <4>1. CASE p = j
        BY <3>3, <3>4, <4>1
      <4>2. CASE p # j
        BY <2>2, <3>3, <3>4, <3>5, <4>2 DEF Dialing, ReconnectingIsQueued
      <4> QED
        BY <4>1, <4>2
    <3> QED
      BY <3>4, <3>5 DEF Dialing, ReconnectingIsQueued, Dial
  <2> QED
    BY <2>3, <2>4
<1>7. ASSUME NEW p \in Peer, reconnect(p) PROVE Dialing'
  <2>1. /\ requests' = Append(requests, Dial(p)) /\ Dial(p) \in Request /\ Alive(p)
        /\ UNCHANGED <<protocol, chat_managers>>
        /\ \A q \in Peer \ {p} : conn'[q] = conn[q]
    BY <1>0, <1>7 DEF reconnect, Dial, Alive
  <2>2. /\ Range(requests)' = Range(requests) \cup {Dial(p)}
        /\ protocol' = "accepting" => Head(requests').kind = "Accept"
    BY <1>5, <2>1
  <2> QED
    BY <2>1, <2>2 DEF Dialing, ReconnectingIsQueued, Dial, Alive
<1>8. ASSUME NEW p \in Peer, incoming(p) PROVE Dialing'
  <2>1. /\ requests' = Append(requests, Accept(p)) /\ Accept(p) \in Request
        /\ UNCHANGED <<protocol, chat_managers, conn>>
    BY <1>8 DEF incoming, Accept
  <2>2. /\ Range(requests)' = Range(requests) \cup {Accept(p)}
        /\ protocol' = "accepting" => Head(requests').kind = "Accept"
    BY <1>5, <2>1
  <2> QED
    BY <2>1, <2>2 DEF Dialing, ReconnectingIsQueued, Dial, Alive
<1>9. ASSUME NEW p \in Peer, transport_lost(p) PROVE Dialing'
  BY <1>0, <1>9, DialsKept DEF transport_lost, Alive
<1>10. CASE protocol_takes
  <2>1. UNCHANGED <<requests, chat_managers, conn>> /\ requests # <<>>
    BY <1>10 DEF protocol_takes
  <2>2. Head(requests) \in Request
    <3> HIDE DEF Request
    <3> QED
      BY <1>0, <2>1
  <2>3. protocol' = "accepting" => Head(requests).kind = "Accept"
    BY <1>10, <2>2 DEF protocol_takes
  <2> QED
    BY <2>1, <2>3 DEF Dialing, ReconnectingIsQueued, Dial, Alive
<1>11. CASE protocol_dialed \/ protocol_accepted
  <2>1. /\ requests # <<>> /\ requests' = Tail(requests) /\ protocol' = "select"
        /\ UNCHANGED chat_managers
    BY <1>0, <1>11 DEF protocol_dialed, protocol_accepted
  <2>2. ASSUME NEW p \in Peer, conn'[p] = "Reconnecting"
        PROVE  conn[p] = "Reconnecting" /\ Dial(p) # Head(requests)
    <3>1. CASE protocol_accepted
      <4>1. UNCHANGED conn /\ Head(requests).kind = "Accept"
        BY <3>1 DEF protocol_accepted, accept, Dialing
      <4> QED
        BY <2>2, <4>1 DEF Dial
    <3>2. CASE protocol_dialed
      <4> DEFINE h == Head(requests).peer
      <4>1. PICK established \in BOOLEAN : dial_endpoint(h, established)
        BY <3>2 DEF protocol_dialed
      <4>2. conn' = [conn EXCEPT ![h] = IF ~Alive(h) THEN @
                                        ELSE IF established THEN "Connected"
                                        ELSE IF @ = "Reconnecting" THEN "Disconnected" ELSE @]
        BY <4>1 DEF dial_endpoint
      <4> HIDE DEF h
      <4>3. conn[p] = "Reconnecting" /\ p # h
        BY <1>0, <2>2, <4>2 DEF Dialing
      <4> QED
        BY <4>3 DEF Dial, h
    <3> QED
      BY <1>11, <3>1, <3>2
  <2>3. ASSUME NEW p \in Peer, conn'[p] = "Reconnecting" PROVE Dial(p) \in Range(requests')
    <3>1. Dial(p) \in Range(requests) /\ Dial(p) # Head(requests)
      BY <2>2, <2>3 DEF Dialing, ReconnectingIsQueued
    <3> HIDE DEF Request
    <3> QED
      BY <1>0, <2>1, <3>1, RestStays
  <2> QED
    BY <2>1, <2>2, <2>3 DEF Dialing, ReconnectingIsQueued, Dial, Alive
<1>12. CASE protocol_shutdown \/ cleanup
  <2>1. /\ \A p \in Peer : conn'[p] # "Reconnecting"
        /\ protocol' = "ended"
    BY <1>12 DEF protocol_shutdown, cleanup
  <2> QED
    BY <2>1 DEF Dialing, ReconnectingIsQueued
<1> QED
  BY <1>1, <1>3, <1>4, <1>6, <1>7, <1>8, <1>9, <1>10, <1>11, <1>12
  DEF Next, app_actor, manager_step, protocol_actor

-----------------------------------------------------------------------------
(* The theorems.                                                           *)

\* The inductive invariant holds in every reachable state.
LEMMA Invariance == Spec => [](Inv /\ Stopping /\ Dialing)
<1>1. Init => Inv /\ Stopping /\ Dialing
  <2> SUFFICES ASSUME Init PROVE Inv /\ Stopping /\ Dialing
    OBVIOUS
  <2>1. cancelled \in BOOLEAN /\ ~cancelled
    BY Zenon DEF Init
  <2>2. /\ request_rx \in Seq([peer : Peer, who : Caller \cup {Gone}]) /\ Len(request_rx) <= 1
        /\ requests \in Seq([kind : {"Dial", "Accept"}, peer : Peer])
        /\ accept_rx \in Seq(Peer)
        /\ in_rx \in [Peer -> Seq(Who)]
        /\ \A p \in Peer : in_rx[p] = <<>> /\ Len(in_rx[p]) = 0
    BY DEF Init
  <2>3. job \in Job /\ job.who \notin Caller
    BY AppAssumption DEF Init, NoJob, Job, Who
  <2>4. TypeOK
    BY <2>1, <2>2, <2>3, AppAssumption DEF Init, TypeOK, ManagerState
  <2>5. Busy
    BY <2>2, <2>3, AppAssumption DEF Init, Busy, Waiting, InHand
  <2>6. Range(request_rx) = {} /\ \A p \in Peer : Range(in_rx[p]) = {} /\ Once(in_rx[p])
    BY <2>2 DEF Init, Range, Once
  <2>7. Senders
    BY <2>3, <2>6 DEF Init, Senders, WaitersHaveSenders, ReqWho
  <2>8. Stopping
    BY <2>1 DEF Init, Stopping
  <2>9. Dialing
    BY DEF Init, Dialing, ReconnectingIsQueued
  <2> QED
    BY <2>4, <2>5, <2>7, <2>8, <2>9 DEF Inv
<1>2. ASSUME Inv, [Next]_vars PROVE Inv'
  BY <1>2, QuietStep, CallStep, SendStep, GiveUpStep, TakeStep, PassStep, CreateStep,
     CleanupStep, ManagerStep
  DEF Next, enqueue, app_actor, manager_step, protocol_actor
<1>3. ASSUME Inv, Stopping, [Next]_vars PROVE Stopping'
  BY <1>3, StoppingStep DEF Inv
<1>4. ASSUME Inv, Dialing, [Next]_vars PROVE Dialing'
  BY <1>4, DialingStep DEF Inv
<1> QED
  BY <1>1, <1>2, <1>3, <1>4, PTL DEF Spec

\* Every reachable state is well formed, and no channel exceeds its capacity.
THEOREM TypeCorrect == Spec => []TypeOK
<1>1. Inv => TypeOK
  BY DEF Inv
<1> QED
  BY <1>1, Invariance, PTL

\* No caller waits for an answer that nobody can send.
THEOREM NoLostCaller == Spec => []WaitersHaveSenders
<1>1. Inv => WaitersHaveSenders
  BY DEF Inv, Senders
<1> QED
  BY <1>1, Invariance, PTL

\* With any number of chats on the one protocol actor, no chat that waits for a
\* dial has lost it.
THEOREM NoLostDial == Spec => []ReconnectingIsQueued
<1>1. Dialing => ReconnectingIsQueued
  BY DEF Dialing
<1> QED
  BY <1>1, Invariance, PTL

\* When shutdown() returns to the caller that waited, nothing writes, dials or
\* is connected any more.
THEOREM ShutdownStaysComplete == Spec => []ShutdownIsComplete
<1>1. Stopping => ShutdownIsComplete
  BY DEF Stopping, Querying, ShutdownIsComplete
<1> QED
  BY <1>1, Invariance, PTL
==============================================================================
