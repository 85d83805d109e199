---------------------------- MODULE ChatPeersProofs ----------------------------
(***************************************************************************)
(* Agreement of the two endpoints of a chat, for any number of transports, *)
(* dials and faults: both decide a glare for the same transport, no end of *)
(* a transport leaks, and a chat at rest has one transport.                *)
(***************************************************************************)
EXTENDS ChatPeers, FiniteSetTheorems, TLAPS

-----------------------------------------------------------------------------
(* Sequences and the dials in them.                                        *)

\* The elements after an Append.
LEMMA AppendRange ==
    ASSUME NEW S, NEW s \in Seq(S), NEW x \in S
    PROVE  Append(s, x) \in Seq(S) /\ Range(Append(s, x)) = Range(s) \cup {x}
<1> DEFINE t == Append(s, x)
<1>1. /\ t \in Seq(S) /\ Len(s) \in Nat /\ DOMAIN s = 1..Len(s)
      /\ DOMAIN t = 1..(Len(s) + 1) /\ t[Len(s) + 1] = x /\ \A i \in 1..Len(s) : t[i] = s[i]
  OBVIOUS
<1> HIDE DEF t
<1>2. Range(t) = Range(s) \cup {x}
  BY <1>1 DEF Range
<1> QED
  BY <1>1, <1>2 DEF t

\* The elements after the head was taken.
LEMMA TailRange ==
    ASSUME NEW S, NEW s \in Seq(S), s # <<>>
    PROVE  Tail(s) \in Seq(S) /\ Head(s) \in S /\ Range(s) = Range(Tail(s)) \cup {Head(s)}
<1> DEFINE t == Tail(s)
<1>1. /\ t \in Seq(S) /\ Len(s) \in Nat \ {0} /\ DOMAIN s = 1..Len(s)
      /\ DOMAIN t = 1..(Len(s) - 1) /\ \A i \in 1..(Len(s) - 1) : t[i] = s[i + 1]
      /\ Head(s) = s[1] /\ s[1] \in S
  OBVIOUS
<1> HIDE DEF t
<1>2. ASSUME NEW x, x \in Range(s) PROVE x \in Range(t) \cup {Head(s)}
  <2>1. PICK i \in 1..Len(s) : s[i] = x
    BY <1>1, <1>2 DEF Range
  <2>2. CASE i = 1
    BY <1>1, <2>1, <2>2
  <2>3. CASE i # 1
    <3>1. i - 1 \in DOMAIN t /\ t[i - 1] = s[(i - 1) + 1] /\ (i - 1) + 1 = i
      BY <1>1, <2>1, <2>3
    <3> QED
      BY <2>1, <3>1 DEF Range
  <2> QED
    BY <2>2, <2>3
<1>3. ASSUME NEW x, x \in Range(t) \cup {Head(s)} PROVE x \in Range(s)
  <2>1. CASE x = Head(s)
    BY <1>1, <2>1 DEF Range
  <2>2. CASE x \in Range(t)
    <3>1. PICK i \in 1..(Len(s) - 1) : s[i + 1] = x
      BY <1>1, <2>2 DEF Range
    <3>2. i + 1 \in DOMAIN s
      BY <1>1
    <3> QED
      BY <3>1, <3>2 DEF Range
  <2> QED
    BY <1>3, <2>1, <2>2
<1> QED
  BY <1>1, <1>2, <1>3 DEF t

\* A request to dial is not a request to accept.
LEMMA DialIsNotAccept ==
    /\ Dial \in Requests
    /\ \A c \in Conn : Accept(c) \in Requests /\ Accept(c) # Dial
    /\ \A r \in Requests : r.kind = "Accept" => r.conn \in Conn /\ r = Accept(r.conn)
    /\ \A c, d \in Conn : Accept(c) = Accept(d) => c = d
<1>1. \A c \in Conn : Accept(c).kind = "Accept" /\ Accept(c).conn = c /\ Dial.kind = "Dial"
  BY DEF Accept, Dial
<1>2. ASSUME NEW r \in Requests, r.kind = "Accept"
      PROVE  r.conn \in Conn /\ r = Accept(r.conn)
  <2>1. PICK c \in Conn : r = Accept(c)
    BY <1>2 DEF Requests, Dial
  <2> QED
    BY <1>1, <2>1
<1>3. \A c \in Conn : Accept(c) # Dial
  BY <1>1
<1> QED
  BY <1>1, <1>2, <1>3 DEF Requests

\* The dials in a queue can be counted.
LEMMA DialsFinite ==
    ASSUME NEW s \in Seq(Requests)
    PROVE  IsFiniteSet(DialsAt(s)) /\ Cardinality(DialsAt(s)) \in Nat
<1>1. DialsAt(s) \in SUBSET (1..Len(s)) /\ Len(s) \in Nat
  BY DEF DialsAt
<1>2. IsFiniteSet(1..Len(s))
  BY <1>1, FS_Interval
<1>3. IsFiniteSet(DialsAt(s))
  BY <1>1, <1>2, FS_Subset
<1> QED
  BY <1>3, FS_CardinalityType

\* Appending a dial adds one, appending anything else adds none.
LEMMA DialsAppend ==
    ASSUME NEW s \in Seq(Requests), NEW r \in Requests
    PROVE  Cardinality(DialsAt(Append(s, r))) =
               Cardinality(DialsAt(s)) + (IF r = Dial THEN 1 ELSE 0)
<1> DEFINE t == Append(s, r)
<1>1. /\ Len(s) \in Nat /\ DOMAIN s = 1..Len(s) /\ DOMAIN t = 1..(Len(s) + 1)
      /\ t[Len(s) + 1] = r /\ \A i \in 1..Len(s) : t[i] = s[i]
  OBVIOUS
<1> HIDE DEF t
<1>2. CASE r = Dial
  <2>1. DialsAt(t) = DialsAt(s) \cup {Len(s) + 1} /\ Len(s) + 1 \notin DialsAt(s)
    BY <1>1, <1>2 DEF DialsAt
  <2>2. Cardinality(DialsAt(t)) = Cardinality(DialsAt(s)) + 1
    BY <2>1, DialsFinite, FS_AddElement
  <2> QED
    BY <1>2, <2>2 DEF t
<1>3. CASE r # Dial
  <2>1. DialsAt(t) = DialsAt(s)
    BY <1>1, <1>3 DEF DialsAt
  <2> QED
    BY <1>3, <2>1, DialsFinite DEF t
<1> QED
  BY <1>2, <1>3

\* Taking the head off removes one, if it was a dial.
LEMMA DialsTail ==
    ASSUME NEW s \in Seq(Requests), s # <<>>
    PROVE  Cardinality(DialsAt(Tail(s))) =
               Cardinality(DialsAt(s)) - (IF Head(s) = Dial THEN 1 ELSE 0)
<1> DEFINE t == Tail(s)
           A == DialsAt(t)
           B == DialsAt(s) \ {1}
           f == [i \in A |-> i + 1]
<1>1. /\ Len(s) \in Nat \ {0} /\ DOMAIN s = 1..Len(s) /\ t \in Seq(Requests)
      /\ DOMAIN t = 1..(Len(s) - 1) /\ \A i \in 1..(Len(s) - 1) : t[i] = s[i + 1]
      /\ Head(s) = s[1]
  OBVIOUS
<1> HIDE DEF t
<1>2. \A i \in A : i \in Nat /\ i + 1 \in B
  BY <1>1 DEF DialsAt
<1>3. \A j \in B : j - 1 \in A /\ (j - 1) + 1 = j
  <2> TAKE j \in B
  <2>1. j \in 2..Len(s) /\ s[j] = Dial
    BY <1>1 DEF DialsAt
  <2>2. j - 1 \in 1..(Len(s) - 1) /\ (j - 1) + 1 = j
    BY <1>1, <2>1
  <2>3. t[j - 1] = Dial
    BY <1>1, <2>1, <2>2
  <2> QED
    BY <1>1, <2>2, <2>3 DEF DialsAt
<1>4. f \in Bijection(A, B)
  <2>1. f \in [A -> B]
    BY <1>2
  <2>2. \A i, j \in A : f[i] = f[j] => i = j
    BY <1>2
  <2>3. \A j \in B : \E i \in A : f[i] = j
    BY <1>3
  <2> HIDE DEF f
  <2> QED
    BY <2>1, <2>2, <2>3 DEF Bijection, Injection, Surjection, IsInjective
<1>5. Cardinality(A) = Cardinality(B)
  <2>1. ExistsBijection(A, B)
    BY <1>4 DEF ExistsBijection
  <2> QED
    BY <1>1, <2>1, DialsFinite, FS_Bijection
<1>6. Cardinality(B) = Cardinality(DialsAt(s)) - (IF 1 \in DialsAt(s) THEN 1 ELSE 0)
  <2>1. IsFiniteSet(DialsAt(s)) /\ Cardinality(DialsAt(s)) \in Nat
    BY DialsFinite
  <2>2. Cardinality(B) = IF 1 \in DialsAt(s) THEN Cardinality(DialsAt(s)) - 1
                                            ELSE Cardinality(DialsAt(s))
    BY <2>1, FS_RemoveElement
  <2> QED
    BY <2>1, <2>2
<1>7. 1 \in DialsAt(s) <=> Head(s) = Dial
  BY <1>1 DEF DialsAt
<1> QED
  BY <1>5, <1>6, <1>7 DEF t

-----------------------------------------------------------------------------
(* The tie-breaker.                                                        *)

\* Of two transports, one dialled by each endpoint, the endpoint that has `a`
\* and is offered `b` ends with the one on which the endpoint that has `b` and
\* is offered `a` ends as well (update_handle): they never swap, and neither
\* closes the transport the other one kept.
THEOREM GlareAgreement ==
    ASSUME NEW n \in Node, NEW a \in Conn, NEW b \in Conn,
           dialer \in [Conn -> Node], dialer[a] # dialer[b]
    PROVE  should_switch(n, Other(n), origin(n, a), origin(n, b))
             <=> ~should_switch(Other(n), n, origin(Other(n), b), origin(Other(n), a))
<1>1. dialer[a] \in {1, 2} /\ dialer[b] \in {1, 2} /\ n \in {1, 2}
  BY DEF Node
<1>2. CASE n = 1
  BY <1>1, <1>2 DEF should_switch, origin, Other
<1>3. CASE n = 2
  BY <1>1, <1>3 DEF should_switch, origin, Other
<1> QED
  BY <1>1, <1>2, <1>3

-----------------------------------------------------------------------------
(* The inductive invariant.                                                *)

\* The dials under way are counted and within the bound, so that a failure can
\* always be recorded.
DialsBounded ==
    \A n \in Node : IsFiniteSet(dialed[n]) /\ Outstanding(n) <= MaxDials

IInv == TypeOK /\ DialsBounded /\ EndsAreHeld

LEMMA InvInit == Init => IInv
<1> SUFFICES ASSUME Init PROVE IInv
  OBVIOUS
<1>1. TypeOK
  BY PeersAssumption DEF Init, TypeOK, Node
<1>2. DialsBounded
  <2>1. ASSUME NEW n \in Node
        PROVE  dialed[n] = {} /\ failed[n] = 0 /\ DialsAt(requests[n]) = {}
    BY DEF Init, DialsAt
  <2> QED
    BY <2>1, FS_EmptySet, PeersAssumption DEF DialsBounded, Outstanding
<1>3. EndsAreHeld
  BY DEF Init, EndsAreHeld
<1> QED
  BY <1>1, <1>2, <1>3 DEF IInv

\* The three numbers of Outstanding
LEMMA Counts ==
    ASSUME IInv, NEW n \in Node
    PROVE  /\ Cardinality(dialed[n]) \in Nat /\ failed[n] \in Nat
           /\ Cardinality(DialsAt(requests[n])) \in Nat
           /\ requests[n] \in Seq(Requests) /\ MaxDials \in Nat
           /\ Cardinality(dialed[n]) + failed[n] + Cardinality(DialsAt(requests[n])) <= MaxDials
<1>1. requests[n] \in Seq(Requests) /\ failed[n] \in Nat /\ MaxDials \in Nat
  BY PeersAssumption DEF IInv, TypeOK
<1>2. Cardinality(dialed[n]) \in Nat
  BY FS_CardinalityType DEF IInv, DialsBounded
<1> QED
  BY <1>1, <1>2, DialsFinite DEF IInv, DialsBounded, Outstanding

\* Steps that touch no dial
LEMMA SameDials ==
    ASSUME IInv, UNCHANGED <<dialed, failed>>,
           \A n \in Node : Cardinality(DialsAt(requests'[n])) = Cardinality(DialsAt(requests[n]))
    PROVE  DialsBounded'
  BY DEF IInv, DialsBounded, Outstanding

\* update_handle keeps one of the two transports and closes the local end of
\* the other.
LEMMA UpdateHandle ==
    ASSUME TypeOK, NEW n \in Node, NEW c \in Conn, update_handle(n, c)
    PROVE  /\ state' \in [Node -> {"Disconnected", "Connected", "Reconnecting"}]
           /\ handle' \in [Node -> Conn \cup {NoConn}]
           /\ \A m \in Node : (state'[m] = "Connected") = (handle'[m] # NoConn)
           /\ up' \in [Conn -> SUBSET Node]
           /\ \A d \in Conn : up'[d] \subseteq up[d]
           /\ \A m \in Node : m # n => handle'[m] = handle[m]
           /\ \A d \in Conn : n \in up'[d] => handle'[n] = d \/ (d # handle[n] /\ d # c)
<1>1. c # NoConn
  BY PeersAssumption
<1>2. CASE /\ state' = [state EXCEPT ![n] = "Connected"]
           /\ handle' = [handle EXCEPT ![n] = c]
           /\ up' = shutdown(n, handle[n])
  <2>1. /\ state' \in [Node -> {"Disconnected", "Connected", "Reconnecting"}]
        /\ handle' \in [Node -> Conn \cup {NoConn}]
        /\ \A m \in Node : (state'[m] = "Connected") = (handle'[m] # NoConn)
        /\ \A m \in Node : m # n => handle'[m] = handle[m]
        /\ handle'[n] = c
    BY <1>1, <1>2 DEF TypeOK
  <2>2. /\ up' \in [Conn -> SUBSET Node]
        /\ \A d \in Conn : up'[d] = IF d = handle[n] THEN up[d] \ {n} ELSE up[d]
    BY <1>2 DEF TypeOK, shutdown
  <2> QED
    BY <2>1, <2>2
<1>3. CASE up' = shutdown(n, c) /\ UNCHANGED <<state, handle>>
  <2>1. /\ up' \in [Conn -> SUBSET Node]
        /\ \A d \in Conn : up'[d] = IF d = c THEN up[d] \ {n} ELSE up[d]
    BY <1>3 DEF TypeOK, shutdown
  <2> QED
    BY <1>3, <2>1 DEF TypeOK
<1> QED
  BY <1>2, <1>3 DEF update_handle

\* reconnect appends one dial.
LEMMA Reconnect ==
    ASSUME IInv, NEW n \in Node, reconnect(n), UNCHANGED <<dialed, failed>>
    PROVE  /\ state' \in [Node -> {"Disconnected", "Connected", "Reconnecting"}]
           /\ \A m \in Node : (state'[m] = "Connected") = (state[m] = "Connected")
           /\ requests' \in [Node -> Seq(Requests)]
           /\ \A m \in Node : Range(requests[m]) \subseteq Range(requests'[m])
           /\ DialsBounded'
<1>1. requests[n] \in Seq(Requests) /\ Dial \in Requests
  BY DialIsNotAccept DEF IInv, TypeOK
<1> DEFINE q == Append(requests[n], Dial)
<1>2. q \in Seq(Requests) /\ Range(requests[n]) \subseteq Range(q)
  BY <1>1, AppendRange
<1>3. Cardinality(DialsAt(q)) = Cardinality(DialsAt(requests[n])) + 1
  BY <1>1, DialsAppend
<1> HIDE DEF q
<1>4. requests' = [requests EXCEPT ![n] = q] /\ requests \in [Node -> Seq(Requests)]
  BY DEF reconnect, q, IInv, TypeOK
<1>5. /\ state' \in [Node -> {"Disconnected", "Connected", "Reconnecting"}]
      /\ \A m \in Node : (state'[m] = "Connected") = (state[m] = "Connected")
  BY DEF reconnect, IInv, TypeOK
<1>6. ASSUME NEW m \in Node PROVE IsFiniteSet(dialed'[m]) /\ Outstanding(m)' <= MaxDials
  <2>1. CASE m = n
    <3>1. Outstanding(n) < MaxDials
      BY DEF reconnect
    <3>2. requests'[n] = q
      BY <1>4
    <3>3. Outstanding(n)' = Outstanding(n) + 1
      BY <1>3, <3>2, Counts DEF Outstanding
    <3>4. Outstanding(n) \in Nat /\ MaxDials \in Nat
      BY Counts DEF Outstanding
    <3> QED
      BY <2>1, <3>1, <3>3, <3>4 DEF IInv, DialsBounded
  <2>2. CASE m # n
    BY <1>4, <2>2 DEF IInv, DialsBounded, Outstanding
  <2> QED
    BY <2>1, <2>2
<1>7. requests' \in [Node -> Seq(Requests)] /\ \A m \in Node : Range(requests[m]) \subseteq Range(requests'[m])
  BY <1>2, <1>4
<1> QED
  BY <1>5, <1>6, <1>7 DEF DialsBounded

-----------------------------------------------------------------------------
(* The steps of the connection.                                            *)

\* Ends that were held and still run are held.
LEMMA StillHeld ==
    ASSUME IInv, up' \in [Conn -> SUBSET Node],
           \A d \in Conn : up'[d] \subseteq up[d],
           \A d \in Conn, m \in Node : m \in up'[d] /\ Holds(m, d) => Holds(m, d)'
    PROVE  EndsAreHeld'
  BY DEF IInv, EndsAreHeld

LEMMA DialAnsweredStep ==
    ASSUME IInv, NEW n \in Node, NEW c \in Conn, dial_answered(n, c)
    PROVE  IInv'
<1> USE DEF dial_answered
<1>1. TypeOK
  BY DEF IInv
<1>2. /\ state' \in [Node -> {"Disconnected", "Connected", "Reconnecting"}]
      /\ handle' \in [Node -> Conn \cup {NoConn}]
      /\ \A m \in Node : (state'[m] = "Connected") = (handle'[m] # NoConn)
      /\ up' \in [Conn -> SUBSET Node]
      /\ \A d \in Conn : up'[d] \subseteq up[d]
      /\ \A m \in Node : m # n => handle'[m] = handle[m]
      /\ \A d \in Conn : n \in up'[d] => handle'[n] = d \/ (d # handle[n] /\ d # c)
  BY <1>1, UpdateHandle
<1>3. /\ dialed' \in [Node -> SUBSET Conn]
      /\ \A m \in Node : dialed'[m] = IF m = n THEN dialed[n] \ {c} ELSE dialed[m]
  BY <1>1 DEF TypeOK
<1>4. TypeOK'
  BY <1>1, <1>2, <1>3 DEF TypeOK
<1>5. ASSUME NEW m \in Node PROVE IsFiniteSet(dialed'[m]) /\ Outstanding(m)' <= MaxDials
  <2>1. IsFiniteSet(dialed[m]) /\ dialed'[m] \in SUBSET dialed[m]
    BY <1>3 DEF IInv, DialsBounded
  <2>2. IsFiniteSet(dialed'[m]) /\ Cardinality(dialed'[m]) <= Cardinality(dialed[m])
    BY <2>1, FS_Subset
  <2>3. Cardinality(dialed'[m]) \in Nat
    BY <2>2, FS_CardinalityType
  <2> QED
    BY <2>2, <2>3, Counts DEF Outstanding
<1>6. ASSUME NEW d \in Conn, NEW m \in Node, m \in up'[d], Holds(m, d) PROVE Holds(m, d)'
  BY <1>2, <1>3, <1>6 DEF Holds
<1> QED
  BY <1>2, <1>4, <1>5, <1>6, StillHeld DEF IInv, DialsBounded

LEMMA DialRefusedStep ==
    ASSUME IInv, NEW n \in Node, dial_refused(n)
    PROVE  IInv'
<1> USE DEF dial_refused
<1>1. failed[n] \in 1..MaxDials /\ failed \in [Node -> 0..MaxDials]
  BY PeersAssumption DEF IInv, TypeOK
<1>2. /\ failed' \in [Node -> 0..MaxDials]
      /\ \A m \in Node : failed'[m] \in Nat /\ failed'[m] <= failed[m]
  BY <1>1, PeersAssumption
<1>3. /\ state' \in [Node -> {"Disconnected", "Connected", "Reconnecting"}]
      /\ \A m \in Node : (state'[m] = "Connected") = (state[m] = "Connected")
  BY DEF IInv, TypeOK
<1>4. TypeOK'
  BY <1>2, <1>3 DEF IInv, TypeOK
<1>5. ASSUME NEW m \in Node PROVE IsFiniteSet(dialed'[m]) /\ Outstanding(m)' <= MaxDials
  <2>1. IsFiniteSet(dialed'[m])
    BY DEF IInv, DialsBounded
  <2>2. Outstanding(m)' =
            Cardinality(dialed[m]) + failed'[m] + Cardinality(DialsAt(requests[m]))
    BY DEF Outstanding
  <2>3. /\ Cardinality(dialed[m]) \in Nat /\ failed[m] \in Nat
        /\ Cardinality(DialsAt(requests[m])) \in Nat /\ MaxDials \in Nat
        /\ Cardinality(dialed[m]) + failed[m] + Cardinality(DialsAt(requests[m])) <= MaxDials
    BY Counts
  <2> QED
    BY <1>2, <2>1, <2>2, <2>3
<1>6. EndsAreHeld'
  BY DEF IInv, EndsAreHeld, Holds
<1> QED
  BY <1>4, <1>5, <1>6 DEF IInv, DialsBounded

LEMMA ReceiveFailsStep ==
    ASSUME IInv, NEW n \in Node, receive_fails(n)
    PROVE  IInv'
<1> USE DEF receive_fails
<1>1. /\ state' \in [Node -> {"Disconnected", "Connected", "Reconnecting"}]
      /\ handle' \in [Node -> Conn \cup {NoConn}]
      /\ \A m \in Node : (state'[m] = "Connected") = (handle'[m] # NoConn)
      /\ \A m \in Node : m # n => handle'[m] = handle[m]
  BY DEF IInv, TypeOK
<1>2. TypeOK'
  BY <1>1 DEF IInv, TypeOK
<1>3. DialsBounded'
  BY SameDials
<1>4. ASSUME NEW d \in Conn, NEW m \in Node, m \in up'[d], Holds(m, d) PROVE Holds(m, d)'
  BY <1>1, <1>4 DEF Holds
<1>5. EndsAreHeld'
  BY <1>2, <1>4, StillHeld DEF TypeOK
<1> QED
  BY <1>2, <1>3, <1>5 DEF IInv

-----------------------------------------------------------------------------
(* The steps of the protocol actor.                                        *)

LEMMA DialEndpointStep ==
    ASSUME IInv, NEW n \in Node, NEW c \in Conn, dial_endpoint(n, c)
    PROVE  IInv'
<1> USE DEF dial_endpoint
<1> DEFINE o == Other(n)
           q == Tail(requests[n])
           p == Append(requests[o], Accept(c))
<1>1. o \in Node /\ o # n /\ Node = {n, o}
  BY DEF Other, Node
<1>2. requests \in [Node -> Seq(Requests)] /\ requests[n] # <<>> /\ Head(requests[n]) = Dial
  BY DEF IInv, TypeOK
<1>3. q \in Seq(Requests) /\ Range(requests[n]) = Range(q) \cup {Dial}
  BY <1>2, TailRange
<1>4. p \in Seq(Requests) /\ Range(p) = Range(requests[o]) \cup {Accept(c)}
  BY <1>1, <1>2, AppendRange, DialIsNotAccept
<1>5. /\ Cardinality(DialsAt(q)) = Cardinality(DialsAt(requests[n])) - 1
      /\ Cardinality(DialsAt(p)) = Cardinality(DialsAt(requests[o]))
  <2>1. Cardinality(DialsAt(q)) = Cardinality(DialsAt(requests[n])) - 1
    BY <1>2, DialsTail
  <2>2. Cardinality(DialsAt(p)) = Cardinality(DialsAt(requests[o])) + 0
    BY <1>1, <1>2, DialsAppend, DialIsNotAccept
  <2> QED
    BY <1>1, <2>1, <2>2, Counts
<1>6. requests' = [requests EXCEPT ![n] = q, ![o] = p]
  BY <1>1, <1>2
<1> HIDE DEF q, p, o
<1>7. requests' \in [Node -> Seq(Requests)] /\ requests'[n] = q /\ requests'[o] = p
  BY <1>1, <1>2, <1>3, <1>4, <1>6
<1>8. /\ dialed' \in [Node -> SUBSET Conn]
      /\ dialed'[n] = dialed[n] \cup {c} /\ dialed'[o] = dialed[o]
  BY <1>1 DEF IInv, TypeOK
<1>9. /\ up' \in [Conn -> SUBSET Node] /\ dialer' \in [Conn -> Node]
      /\ \A d \in Conn : d # c => up'[d] = up[d]
  BY DEF IInv, TypeOK
<1>10. TypeOK'
  BY <1>7, <1>8, <1>9 DEF IInv, TypeOK
<1>11. IsFiniteSet(dialed'[n]) /\ Outstanding(n)' <= MaxDials
  <2>1. IsFiniteSet(dialed[n]) /\ c \notin dialed[n]
    BY DEF IInv, DialsBounded, Referenced, Holds
  <2>2. IsFiniteSet(dialed'[n]) /\ Cardinality(dialed'[n]) = Cardinality(dialed[n]) + 1
    BY <1>8, <2>1, FS_AddElement
  <2>3. Outstanding(n)' = Cardinality(dialed'[n]) + failed[n] + Cardinality(DialsAt(q))
    BY <1>7 DEF Outstanding
  <2>4. /\ Cardinality(dialed[n]) \in Nat /\ failed[n] \in Nat
        /\ Cardinality(DialsAt(requests[n])) \in Nat /\ MaxDials \in Nat
        /\ Cardinality(dialed[n]) + failed[n] + Cardinality(DialsAt(requests[n])) <= MaxDials
    BY Counts
  <2> QED
    BY <1>5, <2>2, <2>3, <2>4
<1>12. IsFiniteSet(dialed'[o]) /\ Outstanding(o)' <= MaxDials
  <2>1. IsFiniteSet(dialed'[o])
    BY <1>1, <1>8 DEF IInv, DialsBounded
  <2> QED
    BY <1>1, <1>5, <1>7, <1>8, <2>1, Counts DEF Outstanding
<1>13. ASSUME NEW d \in Conn, NEW m \in Node, m \in up'[d] PROVE Holds(m, d)'
  <2>1. CASE d = c
    <3>1. CASE m = n
      BY <1>8, <2>1, <3>1 DEF Holds
    <3>2. CASE m = o
      BY <1>4, <1>7, <2>1, <3>2 DEF Holds
    <3> QED
      BY <1>1, <3>1, <3>2
  <2>2. CASE d # c
    <3>1. Holds(m, d)
      BY <1>9, <1>13, <2>2 DEF IInv, EndsAreHeld
    <3>2. Accept(d) # Dial
      BY DialIsNotAccept
    <3>3. CASE m = n
      BY <1>3, <1>7, <1>8, <3>1, <3>2, <3>3 DEF Holds
    <3>4. CASE m = o
      BY <1>4, <1>7, <1>8, <3>1, <3>4 DEF Holds
    <3> QED
      BY <1>1, <3>3, <3>4
  <2> QED
    BY <2>1, <2>2
<1>14. EndsAreHeld'
  BY <1>9, <1>13 DEF EndsAreHeld
<1>15. DialsBounded'
  BY <1>1, <1>11, <1>12 DEF DialsBounded
<1> QED
  BY <1>10, <1>14, <1>15 DEF IInv

LEMMA DialFailsStep ==
    ASSUME IInv, NEW n \in Node, dial_endpoint_fails(n)
    PROVE  IInv'
<1> USE DEF dial_endpoint_fails
<1> DEFINE q == Tail(requests[n])
<1>1. requests \in [Node -> Seq(Requests)] /\ requests[n] # <<>> /\ Head(requests[n]) = Dial
  BY DEF IInv, TypeOK
<1>2. q \in Seq(Requests) /\ Range(requests[n]) = Range(q) \cup {Dial}
  BY <1>1, TailRange
<1>3. Cardinality(DialsAt(q)) = Cardinality(DialsAt(requests[n])) - 1
  BY <1>1, DialsTail
<1>4. Cardinality(DialsAt(q)) \in Nat
  BY <1>2, DialsFinite
<1>5. requests' = [requests EXCEPT ![n] = q]
  OBVIOUS
<1> HIDE DEF q
<1>6. requests' \in [Node -> Seq(Requests)] /\ requests'[n] = q
  BY <1>1, <1>2, <1>5
<1>7. /\ Cardinality(dialed[n]) \in Nat /\ failed[n] \in Nat
      /\ Cardinality(DialsAt(requests[n])) \in Nat /\ MaxDials \in Nat
      /\ Cardinality(dialed[n]) + failed[n] + Cardinality(DialsAt(requests[n])) <= MaxDials
  BY Counts
<1>8. failed[n] + 1 \in 0..MaxDials
  BY <1>3, <1>4, <1>7
<1>9. failed' \in [Node -> 0..MaxDials] /\ failed'[n] = failed[n] + 1
  BY <1>8 DEF IInv, TypeOK
<1>10. faults' \in 0..MaxFaults
  BY PeersAssumption DEF IInv, TypeOK
<1>11. TypeOK'
  BY <1>6, <1>9, <1>10 DEF IInv, TypeOK
<1>12. ASSUME NEW m \in Node PROVE IsFiniteSet(dialed'[m]) /\ Outstanding(m)' <= MaxDials
  <2>1. CASE m = n
    <3>1. Outstanding(n)' = Cardinality(dialed[n]) + failed'[n] + Cardinality(DialsAt(q))
      BY <1>6 DEF Outstanding
    <3>2. Outstanding(n)' <= MaxDials
      BY <1>3, <1>7, <1>9, <3>1
    <3> QED
      BY <2>1, <3>2 DEF IInv, DialsBounded
  <2>2. CASE m # n
    BY <1>5, <2>2 DEF IInv, DialsBounded, Outstanding, TypeOK
  <2> QED
    BY <2>1, <2>2
<1>13. ASSUME NEW d \in Conn, NEW m \in Node, m \in up'[d], Holds(m, d) PROVE Holds(m, d)'
  <2>1. Accept(d) # Dial
    BY DialIsNotAccept
  <2>2. CASE m = n
    BY <1>2, <1>6, <1>13, <2>1, <2>2 DEF Holds
  <2>3. CASE m # n
    BY <1>1, <1>5, <1>13, <2>3 DEF Holds
  <2> QED
    BY <2>2, <2>3
<1>14. EndsAreHeld'
  BY <1>11, <1>13, StillHeld DEF TypeOK
<1> QED
  BY <1>11, <1>12, <1>14 DEF IInv, DialsBounded

LEMMA AcceptStep ==
    ASSUME IInv, NEW n \in Node, accept(n)
    PROVE  IInv'
<1> USE DEF accept
<1> DEFINE q == Tail(requests[n])
           c == Head(requests[n]).conn
           b == IF n \in up[c] THEN Append(inbox[n], c) ELSE inbox[n]
<1>1. requests \in [Node -> Seq(Requests)] /\ requests[n] # <<>> /\ inbox \in [Node -> Seq(Conn)]
  BY DEF IInv, TypeOK
<1>2. /\ q \in Seq(Requests) /\ Head(requests[n]) \in Requests
      /\ Range(requests[n]) = Range(q) \cup {Head(requests[n])}
  BY <1>1, TailRange
<1>3. c \in Conn /\ Head(requests[n]) = Accept(c) /\ Accept(c) # Dial
  BY <1>2, DialIsNotAccept
<1>4. Cardinality(DialsAt(q)) = Cardinality(DialsAt(requests[n]))
  <2>1. Cardinality(DialsAt(q)) = Cardinality(DialsAt(requests[n])) - 0
    BY <1>1, <1>3, DialsTail
  <2> QED
    BY <2>1, Counts
<1>5. /\ b \in Seq(Conn) /\ Range(inbox[n]) \subseteq Range(b)
      /\ n \in up[c] => c \in Range(b)
  <2>1. Append(inbox[n], c) \in Seq(Conn) /\ Range(Append(inbox[n], c)) = Range(inbox[n]) \cup {c}
    BY <1>1, <1>3, AppendRange
  <2> QED
    BY <1>1, <2>1
<1>6. requests' = [requests EXCEPT ![n] = q] /\ inbox' = [inbox EXCEPT ![n] = b]
  OBVIOUS
<1> HIDE DEF q, b, c
<1>7. /\ requests' \in [Node -> Seq(Requests)] /\ requests'[n] = q
      /\ inbox' \in [Node -> Seq(Conn)] /\ inbox'[n] = b
      /\ \A m \in Node : m # n => requests'[m] = requests[m] /\ inbox'[m] = inbox[m]
  BY <1>1, <1>2, <1>5, <1>6
<1>8. TypeOK'
  BY <1>7 DEF IInv, TypeOK
<1>9. DialsBounded'
  <2>1. \A m \in Node : Cardinality(DialsAt(requests'[m])) = Cardinality(DialsAt(requests[m]))
    BY <1>4, <1>7
  <2> QED
    BY <2>1, SameDials
<1>10. ASSUME NEW d \in Conn, NEW m \in Node, m \in up'[d], Holds(m, d) PROVE Holds(m, d)'
  <2>1. CASE m = n
    <3>1. CASE d = c
      BY <1>5, <1>7, <1>10, <2>1, <3>1 DEF Holds
    <3>2. CASE d # c
      <4>1. Accept(d) # Accept(c)
        BY <1>3, <3>2, DialIsNotAccept
      <4> QED
        BY <1>2, <1>3, <1>5, <1>7, <1>10, <2>1, <4>1 DEF Holds
    <3> QED
      BY <3>1, <3>2
  <2>2. CASE m # n
    BY <1>7, <1>10, <2>2 DEF Holds
  <2> QED
    BY <2>1, <2>2
<1>11. EndsAreHeld'
  BY <1>8, <1>10, StillHeld DEF TypeOK
<1> QED
  BY <1>8, <1>9, <1>11 DEF IInv

-----------------------------------------------------------------------------
(* The steps of the AppActor, the manager, the network and the process.    *)

LEMMA HandleAcceptedStep ==
    ASSUME IInv, NEW n \in Node, handle_accepted(n)
    PROVE  IInv'
<1> USE DEF handle_accepted
<1> DEFINE c == Head(inbox[n])
           b == Tail(inbox[n])
<1>1. TypeOK /\ inbox \in [Node -> Seq(Conn)] /\ inbox[n] # <<>>
  BY DEF IInv, TypeOK
<1>2. b \in Seq(Conn) /\ c \in Conn /\ Range(inbox[n]) = Range(b) \cup {c}
  BY <1>1, TailRange
<1>3. update_handle(n, c) /\ inbox' = [inbox EXCEPT ![n] = b]
  OBVIOUS
<1> HIDE DEF b, c
<1>4. /\ state' \in [Node -> {"Disconnected", "Connected", "Reconnecting"}]
      /\ handle' \in [Node -> Conn \cup {NoConn}]
      /\ \A m \in Node : (state'[m] = "Connected") = (handle'[m] # NoConn)
      /\ up' \in [Conn -> SUBSET Node]
      /\ \A d \in Conn : up'[d] \subseteq up[d]
      /\ \A m \in Node : m # n => handle'[m] = handle[m]
      /\ \A d \in Conn : n \in up'[d] => handle'[n] = d \/ (d # handle[n] /\ d # c)
  BY <1>1, <1>2, <1>3, UpdateHandle
<1>5. /\ inbox' \in [Node -> Seq(Conn)] /\ inbox'[n] = b
      /\ \A m \in Node : m # n => inbox'[m] = inbox[m]
  BY <1>1, <1>2, <1>3
<1>6. manager' \in [Node -> BOOLEAN]
  BY <1>1 DEF TypeOK
<1>7. TypeOK'
  BY <1>1, <1>4, <1>5, <1>6 DEF TypeOK
<1>8. DialsBounded'
  BY SameDials
<1>9. ASSUME NEW d \in Conn, NEW m \in Node, m \in up'[d], Holds(m, d) PROVE Holds(m, d)'
  <2>1. CASE m = n
    BY <1>2, <1>4, <1>5, <1>9, <2>1 DEF Holds
  <2>2. CASE m # n
    BY <1>4, <1>5, <1>9, <2>2 DEF Holds
  <2> QED
    BY <2>1, <2>2
<1>10. EndsAreHeld'
  BY <1>4, <1>9, StillHeld
<1> QED
  BY <1>7, <1>8, <1>10 DEF IInv

\* chat_manager and tick: both ask for a dial.
LEMMA ReconnectStep ==
    ASSUME IInv, NEW n \in Node, chat_manager(n) \/ tick(n)
    PROVE  IInv'
<1>1. /\ reconnect(n) /\ UNCHANGED <<handle, dialed, failed, inbox, dialer, up, faults>>
      /\ manager' = manager \/ manager' = [manager EXCEPT ![n] = TRUE]
  BY DEF chat_manager, tick
<1>2. /\ state' \in [Node -> {"Disconnected", "Connected", "Reconnecting"}]
      /\ \A m \in Node : (state'[m] = "Connected") = (state[m] = "Connected")
      /\ requests' \in [Node -> Seq(Requests)]
      /\ \A m \in Node : Range(requests[m]) \subseteq Range(requests'[m])
      /\ DialsBounded'
  BY <1>1, Reconnect
<1>3. manager' \in [Node -> BOOLEAN]
  BY <1>1 DEF IInv, TypeOK
<1>4. TypeOK'
  BY <1>1, <1>2, <1>3 DEF IInv, TypeOK
<1>5. EndsAreHeld'
  BY <1>1, <1>2 DEF IInv, TypeOK, EndsAreHeld, Holds
<1> QED
  BY <1>2, <1>4, <1>5 DEF IInv

\* An end that is gone needs no holder.
LEMMA NetworkStep ==
    ASSUME IInv, NEW c \in Conn, peer_closed(c) \/ \E n \in Node : transport_breaks(n, c)
    PROVE  IInv'
<1>1. UNCHANGED <<manager, state, handle, requests, dialed, failed, inbox, dialer>>
  BY DEF peer_closed, transport_breaks
<1>2. faults' \in 0..MaxFaults
  BY PeersAssumption DEF peer_closed, transport_breaks, IInv, TypeOK
<1>3. up' \in [Conn -> SUBSET Node] /\ \A d \in Conn : up'[d] \subseteq up[d]
  <2>1. PICK E \in SUBSET up[c] : up' = [up EXCEPT ![c] = E]
    BY DEF peer_closed, transport_breaks
  <2> QED
    BY <2>1 DEF IInv, TypeOK
<1>4. TypeOK'
  BY <1>1, <1>2, <1>3 DEF IInv, TypeOK
<1>5. DialsBounded'
  BY <1>1, SameDials
<1>6. EndsAreHeld'
  BY <1>1, <1>3, StillHeld DEF Holds
<1> QED
  BY <1>4, <1>5, <1>6 DEF IInv

LEMMA RestartStep ==
    ASSUME IInv, NEW n \in Node, restart(n)
    PROVE  IInv'
<1> USE DEF restart
<1>1. /\ manager' \in [Node -> BOOLEAN]
      /\ state' \in [Node -> {"Disconnected", "Connected", "Reconnecting"}]
      /\ handle' \in [Node -> Conn \cup {NoConn}]
      /\ \A m \in Node : (state'[m] = "Connected") = (handle'[m] # NoConn)
  BY DEF IInv, TypeOK
<1>2. /\ requests' \in [Node -> Seq(Requests)] /\ dialed' \in [Node -> SUBSET Conn]
      /\ failed' \in [Node -> 0..MaxDials] /\ inbox' \in [Node -> Seq(Conn)]
  BY PeersAssumption DEF IInv, TypeOK
<1>3. /\ up' \in [Conn -> SUBSET Node] /\ faults' \in 0..MaxFaults
      /\ \A d \in Conn : up'[d] = up[d] \ {n}
  BY PeersAssumption DEF IInv, TypeOK
<1>4. TypeOK'
  BY <1>1, <1>2, <1>3 DEF IInv, TypeOK
<1>5. ASSUME NEW m \in Node PROVE IsFiniteSet(dialed'[m]) /\ Outstanding(m)' <= MaxDials
  <2>1. CASE m = n
    <3>1. dialed'[n] = {} /\ failed'[n] = 0 /\ requests'[n] = <<>>
      BY DEF IInv, TypeOK
    <3>2. DialsAt(requests'[n]) = {}
      BY <3>1 DEF DialsAt
    <3>3. IsFiniteSet({}) /\ Cardinality({}) = 0 /\ MaxDials \in Nat
      BY FS_EmptySet, PeersAssumption
    <3>4. Outstanding(n)' = Cardinality({}) + 0 + Cardinality({})
      BY <3>1, <3>2 DEF Outstanding
    <3>5. Outstanding(n)' <= MaxDials
      BY <3>3, <3>4
    <3> QED
      BY <2>1, <3>1, <3>3, <3>5
  <2>2. CASE m # n
    BY <2>2 DEF IInv, TypeOK, DialsBounded, Outstanding
  <2> QED
    BY <2>1, <2>2
<1>6. ASSUME NEW d \in Conn, NEW m \in Node, m \in up'[d], Holds(m, d) PROVE Holds(m, d)'
  BY <1>3, <1>6 DEF IInv, TypeOK, Holds
<1>7. EndsAreHeld'
  BY <1>3, <1>6, StillHeld
<1> QED
  BY <1>4, <1>5, <1>7 DEF IInv, DialsBounded

-----------------------------------------------------------------------------
(* The theorems.                                                           *)

LEMMA InvStep == IInv /\ [Next]_vars => IInv'
<1> SUFFICES ASSUME IInv, [Next]_vars PROVE IInv'
  OBVIOUS
<1>1. ASSUME NEW n \in Node, NEW c \in Conn, dial_answered(n, c) PROVE IInv'
  BY <1>1, DialAnsweredStep
<1>2. ASSUME NEW n \in Node, dial_refused(n) PROVE IInv'
  BY <1>2, DialRefusedStep
<1>3. ASSUME NEW n \in Node, receive_fails(n) PROVE IInv'
  BY <1>3, ReceiveFailsStep
<1>4. ASSUME NEW n \in Node, protocol_actor(n) PROVE IInv'
  BY <1>4, AcceptStep, DialFailsStep, DialEndpointStep DEF protocol_actor
<1>5. ASSUME NEW n \in Node, handle_accepted(n) PROVE IInv'
  BY <1>5, HandleAcceptedStep
<1>6. ASSUME NEW n \in Node, chat_manager(n) \/ tick(n) PROVE IInv'
  BY <1>6, ReconnectStep
<1>7. ASSUME NEW n \in Node, restart(n) PROVE IInv'
  BY <1>7, RestartStep
<1>8. ASSUME NEW c \in Conn, peer_closed(c) \/ \E n \in Node : transport_breaks(n, c) PROVE IInv'
  BY <1>8, NetworkStep
<1>9. CASE UNCHANGED vars
  BY <1>9 DEF vars, IInv, TypeOK, DialsBounded, Outstanding, EndsAreHeld, Holds
<1> QED
  BY <1>1, <1>2, <1>3, <1>4, <1>5, <1>6, <1>7, <1>8, <1>9 DEF Next

LEMMA Invariance == Spec => []IInv
  BY InvInit, InvStep, PTL DEF Spec

\* The endpoints are connected exactly while they have a handle, and a failed
\* dial is only ever answered to a dial that was asked for.
THEOREM TypeCorrect == Spec => []TypeOK
<1>1. IInv => TypeOK
  BY DEF IInv
<1> QED
  BY <1>1, Invariance, PTL

\* No end of a transport leaks (update_handle, accept, handle_chat_manager and
\* the reconnect tasks hand every handle on or close it).
THEOREM NoLeakedEnd == Spec => []EndsAreHeld
<1>1. IInv => EndsAreHeld
  BY DEF IInv
<1> QED
  BY <1>1, Invariance, PTL

\* What a node holds when nothing is under way is its current handle.
LEMMA QuietHolds ==
    ASSUME Quiet, NEW n \in Node, NEW c, Holds(n, c)
    PROVE  handle[n] = c
<1>1. dialed[n] = {} /\ Range(inbox[n]) = {} /\ Range(requests[n]) = {}
  BY DEF Quiet, HandedOver, Range
<1> QED
  BY <1>1 DEF Holds

\* Once nothing is under way, a transport that runs at both ends is the current
\* one of both endpoints.
THEOREM Agreement == Spec => []QuietMeansAgreement
<1>1. ASSUME IInv PROVE QuietMeansAgreement
  <2> SUFFICES ASSUME Quiet, NEW c \in Conn, up[c] = Node, NEW n \in Node
               PROVE  handle[n] = c
    BY DEF QuietMeansAgreement
  <2>1. Holds(n, c)
    BY <1>1 DEF IInv, EndsAreHeld
  <2> QED
    BY <2>1, QuietHolds
<1> QED
  BY <1>1, Invariance, PTL
==============================================================================
