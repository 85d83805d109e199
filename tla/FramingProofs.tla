----------------------------- MODULE FramingProofs -----------------------------
(***************************************************************************)
(* The framing of one direction of a transport, for any messages, sizes,   *)
(* prefix length and limit: the reader hands on what the writer was given, *)
(* in order, it never rejects what the writer let through, and it ends     *)
(* with None only between two frames.                                      *)
(*                                                                         *)
(* The argument gives every byte its position in the whole stream.  `start`*)
(* says how many bytes precede the frame of each message; it is not part   *)
(* of the state, the invariant only says that it exists.                   *)
(***************************************************************************)
EXTENDS Framing, TLAPS

-----------------------------------------------------------------------------
(* The inductive invariant.                                                *)

Byte == [part : {"len", "body"}, msg : Msg, at : Nat]

FrameLen(m) == LenBytes + Size[m]

\* The k-th byte of the frame of m
FrameByte(m, k) ==
    IF k <= LenBytes THEN [part |-> "len", msg |-> m, at |-> k]
                     ELSE [part |-> "body", msg |-> m, at |-> k - LenBytes]

\* `start` is where the frames of msgs begin.
Layout(start, msgs) ==
    /\ start \in [Nat -> Nat]
    /\ \A i \in 1..Len(msgs) : start[i + 1] = start[i] + FrameLen(msgs[i])
    /\ \A i, j \in 1..(Len(msgs) + 1) : i <= j => start[i] <= start[j]

\* The bytes s, which follow the first p bytes of the stream, are the bytes of
\* the frames of msgs at their positions.
Carries(start, msgs, s, p) ==
    \A i \in 1..Len(msgs) : \A k \in 1..FrameLen(msgs[i]) : \A j \in 1..Len(s) :
        p + j = start[i] + k => s[j] = FrameByte(msgs[i], k)

\* The frames that have been begun are those of the first messages sent.
Frames == Len(written) + (IF out = <<>> THEN 0 ELSE 1)

Begun == SubSeq(sent, 1, Frames)

Types ==
    /\ sent \in Seq(Msg) /\ write_rx \in Seq(Msg)
    /\ written \in Seq(Msg) /\ received \in Seq(Msg)
    /\ out \in Seq(Byte) /\ stream \in Seq(Byte) /\ recv_buf \in Seq(Byte)
    /\ sender \in {"running", "ended"} /\ lost \in BOOLEAN
    /\ reader \in {"prefix", "body", "none", "Io"}
    /\ size \in Nat

\* While the send task runs the write channel has the messages after those
\* begun; a frame is cut short only by losing the connection.
Writing ==
    /\ Frames <= Len(sent)
    /\ \A i \in 1..Len(written) : written[i] = sent[i]
    /\ \A i \in 1..Frames : Size[sent[i]] < max_message_size
    /\ sender = "running" =>
          /\ Len(sent) = Frames + Len(write_rx)
          /\ \A i \in 1..Len(write_rx) : write_rx[i] = sent[Frames + i]
    /\ sender = "ended" /\ ~lost => out = <<>>
    /\ lost => sender = "ended" /\ stream = <<>>

\* The reader is in the frame after the last message received.
Reading ==
    /\ Len(received) <= Frames
    /\ \A i \in 1..Len(received) : received[i] = sent[i]
    /\ reader = "prefix" => recv_buf = <<>>
    /\ reader = "body" =>
          /\ Len(received) < Frames
          /\ size = Size[sent[Len(received) + 1]]
          /\ Len(recv_buf) <= size
    /\ reader = "none" => sender = "ended" /\ received = written /\ out = <<>>
    /\ reader = "Io" => lost

\* The bytes taken from the stream so far
Position(start) ==
    start[Len(received) + 1] + (IF reader = "prefix" THEN 0 ELSE LenBytes + Len(recv_buf))

\* Nothing is lost, repeated or moved between the writer's buffer and the
\* reader's.
Flow(start) ==
    /\ reader = "body" => Carries(start, Begun, recv_buf, start[Len(received) + 1] + LenBytes)
    /\ reader \in {"prefix", "body"} /\ ~lost =>
          /\ Carries(start, Begun, stream \o out, Position(start))
          /\ Position(start) + Len(stream) + Len(out) = start[Frames + 1]

IInv ==
    /\ Types /\ Writing /\ Reading
    /\ \E start : Layout(start, Begun) /\ Flow(start)

-----------------------------------------------------------------------------
(* Sequences of bytes.                                                     *)

\* A sequence cut in two
LEMMA Cut ==
    ASSUME NEW S, NEW s \in Seq(S), NEW k \in 0..Len(s)
    PROVE  /\ SubSeq(s, 1, k) \in Seq(S) /\ Len(SubSeq(s, 1, k)) = k
           /\ \A i \in 1..k : SubSeq(s, 1, k)[i] = s[i]
           /\ SubSeq(s, k + 1, Len(s)) \in Seq(S) /\ Len(SubSeq(s, k + 1, Len(s))) = Len(s) - k
           /\ \A i \in 1..(Len(s) - k) : SubSeq(s, k + 1, Len(s))[i] = s[k + i]
  OBVIOUS

\* Two sequences one after the other
LEMMA Joined ==
    ASSUME NEW S, NEW s \in Seq(S), NEW t \in Seq(S)
    PROVE  /\ s \o t \in Seq(S) /\ Len(s \o t) = Len(s) + Len(t)
           /\ \A i \in 1..Len(s) : (s \o t)[i] = s[i]
           /\ \A i \in 1..Len(t) : (s \o t)[Len(s) + i] = t[i]
  OBVIOUS

\* Sequences with the same elements are equal.
LEMMA SameSeq ==
    ASSUME NEW S, NEW s \in Seq(S), NEW t \in Seq(S), Len(s) = Len(t),
           \A i \in 1..Len(s) : s[i] = t[i]
    PROVE  s = t
  OBVIOUS

\* Cutting the front off the first of two sequences ...
LEMMA CutFront ==
    ASSUME NEW S, NEW s \in Seq(S), NEW t \in Seq(S), NEW k \in 0..Len(s)
    PROVE  /\ SubSeq(s \o t, 1, k) = SubSeq(s, 1, k)
           /\ SubSeq(s \o t, k + 1, Len(s \o t)) = SubSeq(s, k + 1, Len(s)) \o t
<1> DEFINE u == s \o t
           a == SubSeq(u, 1, k)
           b == SubSeq(s, 1, k)
           c == SubSeq(u, k + 1, Len(u))
           d == SubSeq(s, k + 1, Len(s))
           e == d \o t
<1>1. k \in Nat /\ Len(s) \in Nat /\ Len(t) \in Nat /\ k <= Len(s)
  OBVIOUS
<1>2. /\ u \in Seq(S) /\ Len(u) = Len(s) + Len(t)
      /\ \A i \in 1..Len(s) : u[i] = s[i]
      /\ \A i \in 1..Len(t) : u[Len(s) + i] = t[i]
  BY Joined
<1> HIDE DEF u
<1>3. k \in 0..Len(u)
  BY <1>1, <1>2
<1>4. /\ a \in Seq(S) /\ Len(a) = k /\ \A i \in 1..k : a[i] = u[i]
      /\ c \in Seq(S) /\ Len(c) = Len(u) - k /\ \A i \in 1..(Len(u) - k) : c[i] = u[k + i]
  BY <1>2, <1>3, Cut
<1>5. /\ b \in Seq(S) /\ Len(b) = k /\ \A i \in 1..k : b[i] = s[i]
      /\ d \in Seq(S) /\ Len(d) = Len(s) - k /\ \A i \in 1..(Len(s) - k) : d[i] = s[k + i]
  BY Cut
<1> HIDE DEF a, b, c, d
<1>6. /\ e \in Seq(S) /\ Len(e) = Len(d) + Len(t)
      /\ \A i \in 1..Len(d) : e[i] = d[i]
      /\ \A i \in 1..Len(t) : e[Len(d) + i] = t[i]
  <2>1. d \in Seq(S)
    BY <1>5
  <2> QED
    BY <2>1, Joined
<1> HIDE DEF e
<1>7. a = b
  <2>1. \A i \in 1..k : a[i] = b[i]
    BY <1>1, <1>2, <1>4, <1>5
  <2> QED
    BY <1>4, <1>5, <2>1, SameSeq
<1>8. c = e
  <2>1. Len(c) = Len(e)
    BY <1>1, <1>2, <1>4, <1>5, <1>6
  <2>2. ASSUME NEW i \in 1..Len(c) PROVE c[i] = e[i]
    <3>1. CASE i <= Len(s) - k
      <4>1. i \in 1..(Len(s) - k) /\ k + i \in 1..Len(s) /\ i \in 1..Len(d) /\ i \in 1..(Len(u) - k)
        BY <1>1, <1>2, <1>4, <1>5, <3>1
      <4> QED
        BY <1>2, <1>4, <1>5, <1>6, <4>1
    <3>2. CASE ~(i <= Len(s) - k)
      <4>1. /\ i - Len(d) \in 1..Len(t) /\ Len(d) + (i - Len(d)) = i
            /\ Len(s) + (i - Len(d)) = k + i /\ i \in 1..(Len(u) - k)
        BY <1>1, <1>2, <1>4, <1>5, <3>2
      <4>2. c[i] = u[Len(s) + (i - Len(d))] /\ e[Len(d) + (i - Len(d))] = t[i - Len(d)]
        BY <1>4, <1>6, <4>1
      <4> QED
        BY <1>2, <4>1, <4>2
    <3> QED
      BY <3>1, <3>2
  <2> QED
    BY <1>4, <1>6, <2>1, <2>2, SameSeq
<1> QED
  BY <1>7, <1>8 DEF a, b, c, d, e, u

\* ... and moving the front of the second to the end of the first
LEMMA MoveFront ==
    ASSUME NEW S, NEW s \in Seq(S), NEW t \in Seq(S), NEW k \in 0..Len(t)
    PROVE  (s \o SubSeq(t, 1, k)) \o SubSeq(t, k + 1, Len(t)) = s \o t
<1> DEFINE a == SubSeq(t, 1, k)
           b == SubSeq(t, k + 1, Len(t))
           c == s \o a
           d == c \o b
           e == s \o t
<1>1. k \in Nat /\ Len(s) \in Nat /\ Len(t) \in Nat /\ k <= Len(t)
  OBVIOUS
<1>2. /\ a \in Seq(S) /\ Len(a) = k /\ \A i \in 1..k : a[i] = t[i]
      /\ b \in Seq(S) /\ Len(b) = Len(t) - k /\ \A i \in 1..(Len(t) - k) : b[i] = t[k + i]
  BY Cut
<1> HIDE DEF a, b
<1>3. /\ c \in Seq(S) /\ Len(c) = Len(s) + Len(a)
      /\ \A i \in 1..Len(s) : c[i] = s[i]
      /\ \A i \in 1..Len(a) : c[Len(s) + i] = a[i]
  <2>1. a \in Seq(S)
    BY <1>2
  <2> QED
    BY <2>1, Joined
<1> HIDE DEF c
<1>4. /\ d \in Seq(S) /\ Len(d) = Len(c) + Len(b)
      /\ \A i \in 1..Len(c) : d[i] = c[i]
      /\ \A i \in 1..Len(b) : d[Len(c) + i] = b[i]
  <2>1. b \in Seq(S) /\ c \in Seq(S)
    BY <1>2, <1>3
  <2> QED
    BY <2>1, Joined
<1>5. /\ e \in Seq(S) /\ Len(e) = Len(s) + Len(t)
      /\ \A i \in 1..Len(s) : e[i] = s[i]
      /\ \A i \in 1..Len(t) : e[Len(s) + i] = t[i]
  BY Joined
<1> HIDE DEF d, e
<1>6. Len(d) = Len(e) /\ Len(c) = Len(s) + k
  BY <1>1, <1>2, <1>3, <1>4, <1>5
<1>7. ASSUME NEW i \in 1..Len(d) PROVE d[i] = e[i]
  <2>1. CASE i <= Len(s)
    <3>1. i \in 1..Len(s) /\ i \in 1..Len(c)
      BY <1>1, <1>6, <2>1
    <3> QED
      BY <1>3, <1>4, <1>5, <3>1
  <2>2. CASE ~(i <= Len(s)) /\ i <= Len(s) + k
    <3>1. /\ i \in 1..Len(c) /\ i - Len(s) \in 1..k /\ i - Len(s) \in 1..Len(t)
          /\ Len(s) + (i - Len(s)) = i
      BY <1>1, <1>6, <2>2
    <3>2. c[i] = t[i - Len(s)] /\ e[i] = t[i - Len(s)]
      BY <1>2, <1>3, <1>5, <3>1
    <3> QED
      BY <1>4, <3>1, <3>2
  <2>3. CASE ~(i <= Len(s) + k)
    <3>1. /\ i - Len(c) \in 1..Len(b) /\ Len(c) + (i - Len(c)) = i
          /\ i - Len(c) \in 1..(Len(t) - k) /\ k + (i - Len(c)) = i - Len(s)
          /\ i - Len(s) \in 1..Len(t) /\ Len(s) + (i - Len(s)) = i
      <4>1. Len(b) = Len(t) - k /\ Len(d) = Len(c) + Len(b)
        BY <1>2, <1>4
      <4> QED
        BY <1>1, <1>6, <2>3, <4>1
    <3>2. d[i] = b[i - Len(c)] /\ e[i] = t[i - Len(s)]
      BY <1>4, <1>5, <3>1
    <3>3. b[i - Len(c)] = t[k + (i - Len(c))]
      BY <1>2, <3>1
    <3> QED
      BY <3>1, <3>2, <3>3
  <2> QED
    BY <1>1, <2>1, <2>2, <2>3
<1>8. d = e
  BY <1>4, <1>5, <1>6, <1>7, SameSeq
<1> QED
  BY <1>8 DEF a, b, c, d, e

\* Sequences with the same beginning
LEMMA SameFront ==
    ASSUME NEW S, NEW s \in Seq(S), NEW t \in Seq(S), NEW n \in Nat,
           n <= Len(s), n <= Len(t), \A i \in 1..n : s[i] = t[i]
    PROVE  SubSeq(s, 1, n) = SubSeq(t, 1, n)
  OBVIOUS

\* The bytes of one part of a frame
LEMMA PartBytes ==
    ASSUME NEW part \in {"len", "body"}, NEW m \in Msg, NEW n \in Nat
    PROVE  /\ Bytes(part, m, n) \in Seq(Byte) /\ Len(Bytes(part, m, n)) = n
           /\ \A k \in 1..n : Bytes(part, m, n)[k] = [part |-> part, msg |-> m, at |-> k]
<1> DEFINE s == Bytes(part, m, n)
<1>1. \A k \in 1..n : s[k] = [part |-> part, msg |-> m, at |-> k] /\ s[k] \in Byte
  BY DEF Bytes, Byte
<1>2. s \in [1..n -> Byte]
  BY <1>1 DEF Bytes
<1> HIDE DEF s
<1>3. s \in Seq(Byte) /\ Len(s) = n
  BY <1>2
<1> QED
  BY <1>1, <1>3 DEF s

\* The frame write_message makes of a message
LEMMA FrameBytes ==
    ASSUME NEW m \in Msg
    PROVE  /\ Prefix(m) \o Body(m) \in Seq(Byte)
           /\ Len(Prefix(m) \o Body(m)) = FrameLen(m) /\ FrameLen(m) \in Nat \ {0}
           /\ \A k \in 1..FrameLen(m) : (Prefix(m) \o Body(m))[k] = FrameByte(m, k)
<1> DEFINE a == Prefix(m)
           b == Body(m)
           f == a \o b
<1>1. LenBytes \in Nat \ {0} /\ Size[m] \in Nat \ {0}
  BY FramingAssumption
<1>2. /\ a \in Seq(Byte) /\ Len(a) = LenBytes
      /\ \A k \in 1..LenBytes : a[k] = [part |-> "len", msg |-> m, at |-> k]
  BY <1>1, PartBytes DEF Prefix
<1>3. /\ b \in Seq(Byte) /\ Len(b) = Size[m]
      /\ \A k \in 1..Size[m] : b[k] = [part |-> "body", msg |-> m, at |-> k]
  BY <1>1, PartBytes DEF Body
<1> HIDE DEF a, b
<1>4. /\ f \in Seq(Byte) /\ Len(f) = LenBytes + Size[m]
      /\ \A k \in 1..LenBytes : f[k] = a[k]
      /\ \A k \in 1..Size[m] : f[LenBytes + k] = b[k]
  <2>1. a \in Seq(Byte) /\ b \in Seq(Byte)
    BY <1>2, <1>3
  <2>2. /\ f \in Seq(Byte) /\ Len(f) = Len(a) + Len(b)
        /\ \A k \in 1..Len(a) : f[k] = a[k]
        /\ \A k \in 1..Len(b) : f[Len(a) + k] = b[k]
    BY <2>1, Joined
  <2> QED
    BY <1>2, <1>3, <2>2
<1> HIDE DEF f
<1>5. ASSUME NEW k \in 1..FrameLen(m) PROVE f[k] = FrameByte(m, k)
  <2>1. CASE k <= LenBytes
    BY <1>1, <1>2, <1>4, <2>1 DEF FrameByte, FrameLen
  <2>2. CASE ~(k <= LenBytes)
    <3>1. k - LenBytes \in 1..Size[m] /\ LenBytes + (k - LenBytes) = k
      BY <1>1, <2>2 DEF FrameLen
    <3>2. f[k] = b[k - LenBytes]
      BY <1>4, <3>1
    <3> QED
      BY <1>3, <2>2, <3>1, <3>2 DEF FrameByte
  <2> QED
    BY <2>1, <2>2
<1> QED
  BY <1>1, <1>4, <1>5 DEF FrameLen, f, a, b

-----------------------------------------------------------------------------
(* Positions.                                                              *)

\* What has been begun so far: the messages and their number
LEMMA BegunSeq ==
    ASSUME Types, Writing
    PROVE  /\ Frames \in Nat /\ Begun \in Seq(Msg) /\ Len(Begun) = Frames
           /\ \A i \in 1..Frames : Begun[i] = sent[i] /\ sent[i] \in Msg
<1>1. Frames \in Nat
  BY DEF Frames, Types
<1>2. Frames \in 0..Len(sent) /\ sent \in Seq(Msg)
  BY <1>1 DEF Writing, Types
<1> QED
  BY <1>1, <1>2, Cut DEF Begun

\* Bytes keep their positions when a sequence is cut ...
LEMMA CarriesCut ==
    ASSUME NEW start, NEW msgs \in Seq(Msg), NEW s \in Seq(Byte), NEW p \in Nat,
           NEW k \in 0..Len(s), Layout(start, msgs), Carries(start, msgs, s, p)
    PROVE  /\ Carries(start, msgs, SubSeq(s, 1, k), p)
           /\ Carries(start, msgs, SubSeq(s, k + 1, Len(s)), p + k)
<1> DEFINE a == SubSeq(s, 1, k)
           b == SubSeq(s, k + 1, Len(s))
<1>1. /\ Len(a) = k /\ \A i \in 1..k : a[i] = s[i]
      /\ Len(b) = Len(s) - k /\ \A i \in 1..(Len(s) - k) : b[i] = s[k + i]
      /\ Len(s) \in Nat /\ k \in Nat
  BY Cut
<1> HIDE DEF a, b
<1>2. Carries(start, msgs, a, p)
  <2> SUFFICES ASSUME NEW i \in 1..Len(msgs), NEW l \in 1..FrameLen(msgs[i]), NEW j \in 1..Len(a),
                      p + j = start[i] + l
               PROVE  a[j] = FrameByte(msgs[i], l)
    BY DEF Carries
  <2>1. j \in 1..Len(s) /\ a[j] = s[j]
    BY <1>1
  <2> QED
    BY <2>1 DEF Carries
<1>3. Carries(start, msgs, b, p + k)
  <2> SUFFICES ASSUME NEW i \in 1..Len(msgs), NEW l \in 1..FrameLen(msgs[i]), NEW j \in 1..Len(b),
                      (p + k) + j = start[i] + l
               PROVE  b[j] = FrameByte(msgs[i], l)
    BY DEF Carries
  <2>1. k + j \in 1..Len(s) /\ p + (k + j) = start[i] + l
    BY <1>1
  <2> QED
    BY <1>1, <2>1 DEF Carries
<1> QED
  BY <1>2, <1>3 DEF a, b

\* ... and when sequences are joined.
LEMMA CarriesJoined ==
    ASSUME NEW start, NEW msgs \in Seq(Msg), NEW s \in Seq(Byte), NEW t \in Seq(Byte),
           NEW p \in Nat, NEW q \in Nat, q = p + Len(s), Layout(start, msgs),
           Carries(start, msgs, s, p), Carries(start, msgs, t, q)
    PROVE  Carries(start, msgs, s \o t, p)
<1> DEFINE u == s \o t
<1>1. /\ Len(u) = Len(s) + Len(t) /\ Len(s) \in Nat /\ Len(t) \in Nat
      /\ \A i \in 1..Len(s) : u[i] = s[i]
      /\ \A i \in 1..Len(t) : u[Len(s) + i] = t[i]
  BY Joined
<1> HIDE DEF u
<1>2. ASSUME NEW i \in 1..Len(msgs), NEW l \in 1..FrameLen(msgs[i]), NEW j \in 1..Len(u),
             p + j = start[i] + l
      PROVE  u[j] = FrameByte(msgs[i], l)
  <2>1. CASE j <= Len(s)
    <3>1. j \in 1..Len(s)
      BY <1>1, <2>1
    <3> QED
      BY <1>1, <1>2, <3>1 DEF Carries
  <2>2. CASE ~(j <= Len(s))
    <3>1. /\ j - Len(s) \in 1..Len(t) /\ Len(s) + (j - Len(s)) = j
          /\ q + (j - Len(s)) = start[i] + l
      BY <1>1, <1>2, <2>2
    <3>2. u[j] = t[j - Len(s)]
      BY <1>1, <3>1
    <3> QED
      BY <3>1, <3>2 DEF Carries
  <2> QED
    BY <2>1, <2>2
<1> QED
  BY <1>2 DEF Carries, u

\* The layout after one more frame was begun
Extended(start, msgs, m) ==
    [start EXCEPT ![Len(msgs) + 2] = start[Len(msgs) + 1] + FrameLen(m)]

LEMMA ExtendedLayout ==
    ASSUME NEW start, NEW msgs \in Seq(Msg), NEW m \in Msg, Layout(start, msgs)
    PROVE  /\ Layout(Extended(start, msgs, m), Append(msgs, m))
           /\ \A i \in 1..(Len(msgs) + 1) : Extended(start, msgs, m)[i] = start[i]
           /\ Extended(start, msgs, m)[Len(msgs) + 2] = start[Len(msgs) + 1] + FrameLen(m)
<1> DEFINE n == Len(msgs)
           next == Extended(start, msgs, m)
           more == Append(msgs, m)
<1>0. FrameLen(m) \in Nat
  BY FrameBytes
<1>1. n \in Nat /\ start \in [Nat -> Nat] /\ n + 2 \in Nat /\ n + 1 \in Nat
  <2>1. start \in [Nat -> Nat]
    BY DEF Layout
  <2>2. n \in Nat
    OBVIOUS
  <2> HIDE DEF n, next, more
  <2> QED
    BY <2>1, <2>2
<1>2. Len(more) = n + 1 /\ more[n + 1] = m /\ \A i \in 1..n : more[i] = msgs[i]
  OBVIOUS
<1>3. start[n + 1] \in Nat /\ start[n + 1] + FrameLen(m) \in Nat
  <2>1. start[n + 1] \in Nat
    BY <1>1
  <2> QED
    BY <1>0, <2>1
<1>4. /\ next \in [Nat -> Nat] /\ next[n + 2] = start[n + 1] + FrameLen(m)
      /\ \A i \in Nat : i # n + 2 => next[i] = start[i]
  BY <1>1, <1>3 DEF Extended
<1> HIDE DEF n, next, more
<1>5. \A i \in 1..(n + 1) : next[i] = start[i]
  BY <1>1, <1>4
<1>6. ASSUME NEW i \in 1..Len(more) PROVE next[i + 1] = next[i] + FrameLen(more[i])
  <2>1. CASE i = n + 1
    <3>1. i + 1 = n + 2 /\ i \in 1..(n + 1)
      BY <1>1, <2>1
    <3> QED
      BY <1>2, <1>4, <1>5, <2>1, <3>1
  <2>2. CASE i # n + 1
    <3>1. i \in 1..n /\ i + 1 \in 1..(n + 1) /\ i \in 1..(n + 1)
      BY <1>1, <1>2, <2>2
    <3>2. start[i + 1] = start[i] + FrameLen(msgs[i])
      BY <3>1 DEF Layout, n
    <3> QED
      BY <1>2, <1>5, <3>1, <3>2
  <2> QED
    BY <2>1, <2>2
<1>7. ASSUME NEW i \in 1..(Len(more) + 1), NEW j \in 1..(Len(more) + 1), i <= j
      PROVE  next[i] <= next[j]
  <2>1. \A k, l \in 1..(n + 1) : k <= l => start[k] <= start[l]
    BY DEF Layout, n
  <2>2. CASE j = n + 2
    <3>1. CASE i = n + 2
      BY <1>1, <1>4, <2>2, <3>1
    <3>2. CASE i # n + 2
      <4>1. i \in 1..(n + 1) /\ n + 1 \in 1..(n + 1) /\ i <= n + 1
        BY <1>1, <1>2, <3>2
      <4>2. next[i] = start[i] /\ start[i] <= start[n + 1] /\ start[i] \in Nat /\ start[n + 1] \in Nat
        <5>1. next[i] = start[i] /\ start[i] <= start[n + 1]
          BY <1>5, <2>1, <4>1
        <5>2. start[i] \in Nat
          BY <1>1, <4>1
        <5> QED
          BY <1>3, <5>1, <5>2
      <4> QED
        <5>1. next[j] = start[n + 1] + FrameLen(m)
          BY <1>4, <2>2
        <5> QED
          BY <1>0, <4>2, <5>1
    <3> QED
      BY <3>1, <3>2
  <2>3. CASE j # n + 2
    <3>1. i \in 1..(n + 1) /\ j \in 1..(n + 1)
      BY <1>1, <1>2, <1>7, <2>3
    <3> QED
      BY <1>5, <1>7, <2>1, <3>1
  <2> QED
    BY <2>2, <2>3
<1> QED
  BY <1>4, <1>5, <1>6, <1>7 DEF Layout, n, next, more

\* Every frame ends where the next one begins, or before.
LEMMA FrameEnds ==
    ASSUME NEW start, NEW msgs \in Seq(Msg), Layout(start, msgs), NEW i \in 1..Len(msgs)
    PROVE  /\ start[i] \in Nat /\ start[i + 1] \in Nat /\ start[Len(msgs) + 1] \in Nat
           /\ FrameLen(msgs[i]) \in Nat \ {0}
           /\ start[i] + FrameLen(msgs[i]) = start[i + 1]
           /\ start[i + 1] <= start[Len(msgs) + 1]
<1>1. /\ i \in Nat /\ i + 1 \in 1..(Len(msgs) + 1) /\ Len(msgs) + 1 \in 1..(Len(msgs) + 1)
      /\ i + 1 <= Len(msgs) + 1 /\ msgs[i] \in Msg
  OBVIOUS
<1>2. FrameLen(msgs[i]) \in Nat \ {0}
  BY <1>1, FrameBytes
<1>3. start[i] + FrameLen(msgs[i]) = start[i + 1]
  BY DEF Layout
<1>4. start[i + 1] <= start[Len(msgs) + 1]
  BY <1>1 DEF Layout
<1>5. start[i] \in Nat /\ start[i + 1] \in Nat /\ start[Len(msgs) + 1] \in Nat
  <2>1. start \in [Nat -> Nat]
    BY DEF Layout
  <2>2. i \in Nat /\ i + 1 \in Nat /\ Len(msgs) + 1 \in Nat
    OBVIOUS
  <2> QED
    BY <2>1, <2>2
<1> QED
  BY <1>2, <1>3, <1>4, <1>5

\* The bytes before the new frame are where they were ...
LEMMA CarriesOld ==
    ASSUME NEW start, NEW msgs \in Seq(Msg), NEW m \in Msg, Layout(start, msgs),
           NEW s \in Seq(Byte), NEW p \in Nat, Carries(start, msgs, s, p),
           p + Len(s) <= start[Len(msgs) + 1]
    PROVE  Carries(Extended(start, msgs, m), Append(msgs, m), s, p)
<1> DEFINE n == Len(msgs)
           next == Extended(start, msgs, m)
           more == Append(msgs, m)
<1>1. n \in Nat /\ Len(more) = n + 1 /\ more[n + 1] = m /\ \A i \in 1..n : more[i] = msgs[i]
  OBVIOUS
<1>2. \A i \in 1..(n + 1) : next[i] = start[i]
  BY ExtendedLayout
<1>3. start[n + 1] \in Nat
  BY <1>1 DEF Layout
<1>4. p + Len(s) <= start[n + 1] /\ Len(s) \in Nat
  OBVIOUS
<1> HIDE DEF n, next, more
<1> SUFFICES ASSUME NEW i \in 1..Len(more), NEW k \in 1..FrameLen(more[i]), NEW j \in 1..Len(s),
                    p + j = next[i] + k
             PROVE  s[j] = FrameByte(more[i], k)
  BY DEF Carries, next, more
<1>5. CASE i = n + 1
  <2>1. FrameLen(m) \in Nat
    BY FrameBytes
  <2>2. next[i] = start[n + 1] /\ k \in 1..FrameLen(m)
    BY <1>1, <1>2, <1>5
  <2> QED
    BY <1>3, <1>4, <2>1, <2>2
<1>6. CASE i # n + 1
  <2>1. i \in 1..n /\ i \in 1..(n + 1)
    BY <1>1, <1>6
  <2>2. more[i] = msgs[i] /\ next[i] = start[i]
    BY <1>1, <1>2, <2>1
  <2> QED
    BY <2>1, <2>2 DEF Carries, n
<1> QED
  BY <1>5, <1>6

\* ... and those of the new frame come after them.
LEMMA CarriesNew ==
    ASSUME NEW start, NEW msgs \in Seq(Msg), NEW m \in Msg, Layout(start, msgs)
    PROVE  Carries(Extended(start, msgs, m), Append(msgs, m), Prefix(m) \o Body(m),
                   start[Len(msgs) + 1])
<1> DEFINE n == Len(msgs)
           next == Extended(start, msgs, m)
           more == Append(msgs, m)
           s == Prefix(m) \o Body(m)
<1>1. n \in Nat /\ Len(more) = n + 1 /\ more[n + 1] = m /\ \A i \in 1..n : more[i] = msgs[i]
  OBVIOUS
<1>2. \A i \in 1..(n + 1) : next[i] = start[i]
  BY ExtendedLayout
<1>3. start[n + 1] \in Nat
  BY <1>1 DEF Layout
<1>4. Len(s) = FrameLen(m) /\ FrameLen(m) \in Nat /\ \A k \in 1..FrameLen(m) : s[k] = FrameByte(m, k)
  BY FrameBytes
<1>5. \A i \in 1..n : /\ start[i] \in Nat /\ start[i + 1] \in Nat /\ FrameLen(msgs[i]) \in Nat
                      /\ start[i] + FrameLen(msgs[i]) = start[i + 1]
                      /\ start[i + 1] <= start[n + 1]
  BY FrameEnds
<1> HIDE DEF n, next, more, s
<1> SUFFICES ASSUME NEW i \in 1..Len(more), NEW k \in 1..FrameLen(more[i]), NEW j \in 1..Len(s),
                    start[n + 1] + j = next[i] + k
             PROVE  s[j] = FrameByte(more[i], k)
  BY DEF Carries, n, next, more, s
<1>6. CASE i = n + 1
  <2>1. next[i] = start[n + 1] /\ more[i] = m /\ k \in 1..FrameLen(m)
    BY <1>1, <1>2, <1>6
  <2>2. j = k
    BY <1>3, <1>4, <2>1
  <2> QED
    BY <1>4, <2>1, <2>2
<1>7. CASE i # n + 1
  <2>1. i \in 1..n /\ i \in 1..(n + 1)
    BY <1>1, <1>7
  <2>2. k \in 1..FrameLen(msgs[i]) /\ next[i] = start[i]
    BY <1>1, <1>2, <2>1
  <2> QED
    BY <1>3, <1>4, <1>5, <2>1, <2>2
<1> QED
  BY <1>6, <1>7

\* Bytes at the position of a part of a frame are that part.
LEMMA CarriesPart ==
    ASSUME NEW start, NEW msgs \in Seq(Msg), Layout(start, msgs), NEW s \in Seq(Byte),
           NEW i \in 1..Len(msgs), NEW o \in Nat, NEW n \in Nat, n <= Len(s),
           o + n <= FrameLen(msgs[i]), Carries(start, msgs, s, start[i] + o)
    PROVE  \A j \in 1..n : s[j] = FrameByte(msgs[i], o + j)
<1> TAKE j \in 1..n
<1>1. start[i] \in Nat /\ FrameLen(msgs[i]) \in Nat
  BY FrameEnds
<1>2. o + j \in 1..FrameLen(msgs[i]) /\ j \in 1..Len(s) /\ (start[i] + o) + j = start[i] + (o + j)
  BY <1>1
<1> QED
  BY <1>2 DEF Carries

-----------------------------------------------------------------------------
(* The steps of the receiving end.                                         *)

\* Where reader and writer are
LEMMA Places ==
    ASSUME IInv, NEW start, Layout(start, Begun), NEW r, r = Len(received)
    PROVE  /\ r \in Nat /\ r <= Frames /\ Frames \in Nat
           /\ start[r + 1] \in Nat /\ start[Frames + 1] \in Nat
           /\ Len(stream) \in Nat /\ Len(out) \in Nat /\ Len(recv_buf) \in Nat
           /\ LenBytes \in Nat \ {0}
           /\ Begun \in Seq(Msg) /\ Len(Begun) = Frames
           /\ stream \o out \in Seq(Byte) /\ Len(stream \o out) = Len(stream) + Len(out)
<1>1. r \in Nat /\ r <= Frames /\ Len(stream) \in Nat /\ Len(out) \in Nat /\ Len(recv_buf) \in Nat
  BY DEF IInv, Types, Reading
<1>2. Frames \in Nat /\ Begun \in Seq(Msg) /\ Len(Begun) = Frames
  BY BegunSeq DEF IInv
<1>3. start \in [Nat -> Nat]
  BY DEF Layout
<1>4. start[r + 1] \in Nat /\ start[Frames + 1] \in Nat
  <2>1. r + 1 \in Nat /\ Frames + 1 \in Nat
    BY <1>1, <1>2
  <2> QED
    BY <1>3, <2>1
<1>5. stream \o out \in Seq(Byte) /\ Len(stream \o out) = Len(stream) + Len(out)
  BY Joined DEF IInv, Types
<1> QED
  BY <1>1, <1>2, <1>4, <1>5, FramingAssumption

\* The frame the reader is in
LEMMA Current ==
    ASSUME IInv, NEW start, Layout(start, Begun), NEW r, r = Len(received), r < Frames
    PROVE  /\ sent[r + 1] \in Msg /\ Begun[r + 1] = sent[r + 1] /\ r + 1 \in 1..Len(Begun)
           /\ Size[sent[r + 1]] \in Nat \ {0} /\ Size[sent[r + 1]] < max_message_size
           /\ FrameLen(sent[r + 1]) = LenBytes + Size[sent[r + 1]]
           /\ start[r + 2] \in Nat
           /\ start[r + 2] = start[r + 1] + LenBytes + Size[sent[r + 1]]
           /\ start[r + 2] <= start[Frames + 1]
<1>1. /\ r \in Nat /\ Frames \in Nat /\ start[r + 1] \in Nat /\ LenBytes \in Nat
      /\ Begun \in Seq(Msg) /\ Len(Begun) = Frames
  BY Places
<1>2. r + 1 \in 1..Frames /\ (r + 1) + 1 = r + 2
  BY <1>1
<1>3. sent[r + 1] \in Msg /\ Begun[r + 1] = sent[r + 1]
  BY <1>2, BegunSeq DEF IInv
<1>4. Size[sent[r + 1]] \in Nat \ {0} /\ Size[sent[r + 1]] < max_message_size
  BY <1>2, <1>3, FramingAssumption DEF IInv, Writing
<1>5. /\ start[r + 2] \in Nat
      /\ start[r + 1] + FrameLen(Begun[r + 1]) = start[r + 2]
      /\ start[r + 2] <= start[Frames + 1]
  BY <1>1, <1>2, FrameEnds
<1>6. start[r + 2] = start[r + 1] + LenBytes + Size[sent[r + 1]]
  BY <1>1, <1>3, <1>4, <1>5 DEF FrameLen
<1> QED
  BY <1>1, <1>2, <1>3, <1>4, <1>5, <1>6 DEF FrameLen

\* The prefix of a frame says how long its body is.
LEMMA PrefixLength ==
    ASSUME NEW m \in Msg, NEW n \in Lengths(Prefix(m))
    PROVE  n = Size[m]
<1>1. ASSUME NEW k \in Msg, Prefix(k) = Prefix(m) PROVE k = m
  <2>1. Prefix(k)[1].msg = k /\ Prefix(m)[1].msg = m
    BY FramingAssumption DEF Prefix, Bytes
  <2> QED
    BY <1>1, <2>1
<1> QED
  BY <1>1 DEF Lengths

\* The body of a frame is decoded to its message only.
LEMMA BodyMessage ==
    ASSUME NEW m \in Msg, NEW n \in Msg, Body(m) = Body(n)
    PROVE  m = n
<1>1. Body(m)[1].msg = m /\ Body(n)[1].msg = n
  BY FramingAssumption DEF Body, Bytes
<1> QED
  BY <1>1

LEMMA ReadPrefixStep ==
    ASSUME IInv, read_u32 PROVE IInv'
<1>1. PICK start : Layout(start, Begun) /\ Flow(start)
  BY DEF IInv
<1> DEFINE r == Len(received)
           m == sent[r + 1]
           z == stream \o out
           P == start[r + 1]
<1>2. /\ r \in Nat /\ r <= Frames /\ Frames \in Nat /\ P \in Nat /\ start[Frames + 1] \in Nat
      /\ Len(stream) \in Nat /\ Len(out) \in Nat /\ LenBytes \in Nat \ {0}
      /\ Begun \in Seq(Msg) /\ Len(Begun) = Frames
      /\ z \in Seq(Byte) /\ Len(z) = Len(stream) + Len(out)
  BY <1>1, Places
<1>3. reader = "prefix" /\ recv_buf = <<>> /\ Len(stream) >= LenBytes /\ ~lost
  <2>1. reader = "prefix" /\ recv_buf = <<>> /\ Len(stream) >= LenBytes
    BY DEF read_u32, IInv, Reading
  <2>2. stream # <<>>
    BY <1>2, <2>1
  <2> QED
    BY <2>1, <2>2 DEF IInv, Writing
<1>4. Carries(start, Begun, z, P) /\ P + Len(stream) + Len(out) = start[Frames + 1]
  <2>1. Position(start) = P + 0
    BY <1>3 DEF Position
  <2>2. Position(start) = P
    BY <1>2, <2>1
  <2> QED
    BY <1>1, <1>3, <2>2 DEF Flow
<1>5. r < Frames
  BY <1>2, <1>3, <1>4
<1>6. /\ m \in Msg /\ Begun[r + 1] = m /\ r + 1 \in 1..Len(Begun)
      /\ Size[m] \in Nat \ {0} /\ Size[m] < max_message_size
      /\ FrameLen(m) = LenBytes + Size[m]
  BY <1>1, <1>5, Current
<1>7. SubSeq(stream, 1, LenBytes) = Prefix(m)
  <2>1. \A j \in 1..LenBytes : z[j] = FrameByte(m, 0 + j)
    <3>1. Carries(start, Begun, z, start[r + 1] + 0) /\ 0 + LenBytes <= FrameLen(Begun[r + 1])
          /\ LenBytes <= Len(z)
      <4>1. P + 0 = P
        BY <1>2
      <4>2. 0 + LenBytes <= LenBytes + Size[m] /\ LenBytes <= Len(stream) + Len(out)
        BY <1>2, <1>3, <1>6
      <4> QED
        BY <1>2, <1>4, <1>6, <4>1, <4>2
    <3>2. Begun \in Seq(Msg) /\ z \in Seq(Byte) /\ LenBytes \in Nat /\ 0 \in Nat
      BY <1>2
    <3>3. \A j \in 1..LenBytes : z[j] = FrameByte(Begun[r + 1], 0 + j)
      <4>1. r + 1 \in 1..Len(Begun) /\ Layout(start, Begun)
        BY <1>1, <1>6
      <4> HIDE DEF z
      <4> QED
        BY <3>1, <3>2, <4>1, CarriesPart
    <3> QED
      BY <1>6, <3>3
  <2>2. \A j \in 1..Len(stream) : z[j] = stream[j]
    BY Joined DEF IInv, Types
  <2>3. /\ Prefix(m) \in Seq(Byte) /\ Len(Prefix(m)) = LenBytes
        /\ \A j \in 1..LenBytes : Prefix(m)[j] = [part |-> "len", msg |-> m, at |-> j]
    BY <1>2, <1>6, PartBytes DEF Prefix
  <2>4. /\ SubSeq(stream, 1, LenBytes) \in Seq(Byte) /\ Len(SubSeq(stream, 1, LenBytes)) = LenBytes
        /\ \A j \in 1..LenBytes : SubSeq(stream, 1, LenBytes)[j] = stream[j]
    BY <1>2, <1>3, Cut DEF IInv, Types
  <2>5. ASSUME NEW j \in 1..LenBytes PROVE SubSeq(stream, 1, LenBytes)[j] = Prefix(m)[j]
    <3>1. j \in 1..Len(stream) /\ 0 + j = j /\ j <= LenBytes
      BY <1>2, <1>3
    <3>2. SubSeq(stream, 1, LenBytes)[j] = FrameByte(m, j)
      BY <2>1, <2>2, <2>4, <3>1
    <3>3. FrameByte(m, j) = [part |-> "len", msg |-> m, at |-> j]
      BY <3>1 DEF FrameByte
    <3> QED
      BY <2>3, <3>2, <3>3
  <2> QED
    BY <2>3, <2>4, <2>5, SameSeq
<1>8. size' = Size[m] /\ reader' = "body"
  <2>1. size' = Size[m]
    BY <1>6, <1>7, PrefixLength DEF read_u32
  <2>2. ~(Size[m] > max_message_size)
    BY <1>6, FramingAssumption
  <2> QED
    BY <2>1, <2>2 DEF read_u32
<1>9. UNCHANGED <<sent, write_rx, written, out, sender, lost, recv_buf, received, Frames, Begun>>
  BY DEF read_u32, send_vars, Frames, Begun
<1>10. /\ stream' = SubSeq(stream, LenBytes + 1, Len(stream)) /\ stream' \in Seq(Byte)
       /\ Len(stream') = Len(stream) - LenBytes
  BY <1>2, <1>3, Cut DEF read_u32, IInv, Types
<1>11. Types'
  BY <1>6, <1>8, <1>9, <1>10 DEF IInv, Types
<1>12. Writing'
  BY <1>3, <1>9 DEF IInv, Writing
<1>13. Reading'
  <2>1. Len(recv_buf) = 0
    BY <1>3
  <2> QED
    BY <1>5, <1>6, <1>8, <1>9, <2>1 DEF IInv, Reading
<1>14. Flow(start)'
  <2>1. Carries(start, Begun, stream' \o out, P + LenBytes)
    <3>1. LenBytes \in 0..Len(z) /\ LenBytes \in 0..Len(stream)
      BY <1>2, <1>3
    <3>2. stream' \o out = SubSeq(z, LenBytes + 1, Len(z))
      <4>1. stream \in Seq(Byte) /\ out \in Seq(Byte)
        BY DEF IInv, Types
      <4> QED
        BY <1>10, <3>1, <4>1, CutFront
    <3> QED
      BY <1>1, <1>2, <1>4, <3>1, <3>2, CarriesCut
  <2>2. Position(start)' = P + LenBytes
    <3>1. Position(start)' = P + (LenBytes + Len(recv_buf))
      BY <1>8, <1>9 DEF Position
    <3> QED
      BY <1>2, <1>3, <3>1
  <2>3. Carries(start, Begun, recv_buf, P + LenBytes)
    BY <1>3 DEF Carries
  <2>4. (P + LenBytes) + Len(stream') + Len(out) = start[Frames + 1]
    <3>1. Len(stream') = Len(stream) - LenBytes
      BY <1>10
    <3> QED
      BY <1>2, <1>4, <3>1
  <2> QED
    BY <1>9, <2>1, <2>2, <2>3, <2>4 DEF Flow
<1> QED
  BY <1>1, <1>9, <1>11, <1>12, <1>13, <1>14 DEF IInv

LEMMA ReadBufStep ==
    ASSUME IInv, NEW k \in 1..Len(stream), read_buf(k) PROVE IInv'
<1>1. PICK start : Layout(start, Begun) /\ Flow(start)
  BY DEF IInv
<1> DEFINE r == Len(received)
           z == stream \o out
           B == start[r + 1] + LenBytes
           P == start[r + 1] + (LenBytes + Len(recv_buf))
<1>2. /\ r \in Nat /\ start[r + 1] \in Nat /\ start[Frames + 1] \in Nat
      /\ Len(stream) \in Nat /\ Len(out) \in Nat /\ Len(recv_buf) \in Nat /\ LenBytes \in Nat
      /\ Begun \in Seq(Msg)
      /\ z \in Seq(Byte) /\ Len(z) = Len(stream) + Len(out)
  BY <1>1, Places
<1>3. /\ k \in Nat \ {0} /\ k <= Len(stream) /\ k \in 0..Len(stream) /\ k \in 0..Len(z)
      /\ B \in Nat /\ P \in Nat /\ P = B + Len(recv_buf)
  <2>1. k \in Nat \ {0} /\ k <= Len(stream) /\ k \in 0..Len(stream) /\ k \in 0..Len(z)
    BY <1>2
  <2>2. start[r + 1] \in Nat /\ LenBytes \in Nat /\ Len(recv_buf) \in Nat
    BY <1>2
  <2>3. B \in Nat /\ P \in Nat /\ P = B + Len(recv_buf)
    BY <2>2
  <2> QED
    BY <2>1, <2>3
<1>4. reader = "body" /\ ~lost /\ Len(recv_buf) + k <= size
  <2>1. stream # <<>>
    BY <1>3
  <2> QED
    BY <2>1 DEF read_buf, IInv, Writing
<1>5. /\ Carries(start, Begun, z, P) /\ P + Len(stream) + Len(out) = start[Frames + 1]
      /\ Carries(start, Begun, recv_buf, B)
  <2>1. Position(start) = P
    BY <1>4 DEF Position
  <2> QED
    BY <1>1, <1>4, <2>1 DEF Flow
<1> DEFINE a == SubSeq(stream, 1, k)
           b == SubSeq(stream, k + 1, Len(stream))
<1>6. /\ recv_buf' = recv_buf \o a /\ stream' = b
      /\ UNCHANGED <<sent, write_rx, written, out, sender, lost, reader, size, received, Frames, Begun>>
  BY DEF read_buf, send_vars, Frames, Begun
<1>7. stream \in Seq(Byte) /\ out \in Seq(Byte) /\ recv_buf \in Seq(Byte)
  BY DEF IInv, Types
<1>8. a \in Seq(Byte) /\ Len(a) = k /\ b \in Seq(Byte) /\ Len(b) = Len(stream) - k
  BY <1>3, <1>7, Cut
<1>9. a = SubSeq(z, 1, k) /\ b \o out = SubSeq(z, k + 1, Len(z))
  BY <1>3, <1>7, CutFront
<1>10. Carries(start, Begun, a, P) /\ Carries(start, Begun, b \o out, P + k)
  BY <1>1, <1>2, <1>3, <1>5, <1>9, CarriesCut
<1> HIDE DEF a, b, z, B, P
<1>11. Carries(start, Begun, recv_buf \o a, B)
  <2>1. Begun \in Seq(Msg) /\ Layout(start, Begun)
    BY <1>1, <1>2
  <2> QED
    BY <1>3, <1>5, <1>7, <1>8, <1>10, <2>1, CarriesJoined
<1>12. recv_buf \o a \in Seq(Byte) /\ Len(recv_buf \o a) = Len(recv_buf) + k
  <2>1. recv_buf \o a \in Seq(Byte) /\ Len(recv_buf \o a) = Len(recv_buf) + Len(a)
    BY <1>7, <1>8, Joined
  <2> QED
    BY <1>8, <2>1
<1>13. Types'
  BY <1>6, <1>8, <1>12 DEF IInv, Types
<1>14. Writing'
  BY <1>4, <1>6 DEF IInv, Writing
<1>15. Reading'
  BY <1>4, <1>6, <1>12 DEF IInv, Reading
<1>16. Flow(start)'
  <2>1. Position(start)' = P + k
    <3>1. Position(start)' = start[r + 1] + (LenBytes + (Len(recv_buf) + k))
      BY <1>4, <1>6, <1>12 DEF Position
    <3>2. start[r + 1] \in Nat /\ LenBytes \in Nat /\ Len(recv_buf) \in Nat /\ k \in Nat
      BY <1>2, <1>3
    <3>3. start[r + 1] + (LenBytes + (Len(recv_buf) + k)) = start[r + 1] + (LenBytes + Len(recv_buf)) + k
      BY <3>2
    <3> QED
      BY <3>1, <3>3 DEF P
  <2>2. (P + k) + Len(b) + Len(out) = start[Frames + 1]
    BY <1>2, <1>3, <1>5, <1>8
  <2> QED
    BY <1>6, <1>10, <1>11, <2>1, <2>2 DEF Flow, B
<1> QED
  BY <1>1, <1>6, <1>13, <1>14, <1>15, <1>16 DEF IInv

\* The whole body is in the buffer: nothing cuts it short, and it is decoded to
\* the message that was sent.
LEMMA ReadMessageStep ==
    ASSUME IInv, read_message PROVE IInv'
<1>1. PICK start : Layout(start, Begun) /\ Flow(start)
  BY DEF IInv
<1> DEFINE r == Len(received)
           m == sent[r + 1]
<1>2. /\ r \in Nat /\ Frames \in Nat /\ start[r + 1] \in Nat /\ start[Frames + 1] \in Nat
      /\ Len(stream) \in Nat /\ Len(out) \in Nat /\ Len(recv_buf) \in Nat /\ LenBytes \in Nat
      /\ Begun \in Seq(Msg)
  BY <1>1, Places
<1>3. reader = "body" /\ r < Frames /\ size = Size[m] /\ Len(recv_buf) <= size
  BY DEF read_message, IInv, Reading
<1>4. /\ m \in Msg /\ Begun[r + 1] = m /\ r + 1 \in 1..Len(Begun)
      /\ Size[m] \in Nat \ {0} /\ FrameLen(m) = LenBytes + Size[m]
      /\ start[r + 2] \in Nat /\ start[r + 2] = start[r + 1] + LenBytes + Size[m]
      /\ start[r + 2] <= start[Frames + 1]
  BY <1>1, <1>3, Current
<1>5. Position(start) = start[r + 1] + (LenBytes + Len(recv_buf))
  BY <1>3 DEF Position
<1>6. Len(recv_buf) = size
  <2>1. CASE EndOfStream /\ stream = <<>>
    <3>1. ~lost /\ out = <<>> /\ Len(out) = 0 /\ Len(stream) = 0
      BY <2>1 DEF EndOfStream, IInv, Writing
    <3>2. Position(start) + Len(stream) + Len(out) = start[Frames + 1]
      BY <1>1, <1>3, <3>1 DEF Flow
    <3>3. start[r + 1] \in Nat /\ LenBytes \in Nat /\ Len(recv_buf) \in Nat /\ Size[m] \in Nat
      BY <1>2, <1>4
    <3>4. start[r + 1] + (LenBytes + Len(recv_buf)) + 0 + 0 = start[Frames + 1]
      BY <1>5, <3>1, <3>2
    <3>5. start[r + 1] + LenBytes + Size[m] <= start[r + 1] + (LenBytes + Len(recv_buf)) + 0 + 0
      BY <1>4, <3>4
    <3>6. Size[m] <= Len(recv_buf)
      BY <3>3, <3>5
    <3> QED
      BY <1>3, <3>3, <3>6
  <2>2. CASE Len(recv_buf) >= size
    BY <1>2, <1>3, <1>4, <2>2
  <2> QED
    BY <2>1, <2>2 DEF read_message
<1>7. SubSeq(recv_buf, 1, size) = Body(m) /\ SubSeq(recv_buf, size + 1, Len(recv_buf)) = <<>>
  <2>1. recv_buf \in Seq(Byte) /\ Carries(start, Begun, recv_buf, start[r + 1] + LenBytes)
    BY <1>1, <1>3 DEF IInv, Types, Flow
  <2>2. \A j \in 1..Size[m] : recv_buf[j] = FrameByte(m, LenBytes + j)
    <3>1. Size[m] <= Len(recv_buf) /\ LenBytes + Size[m] <= FrameLen(Begun[r + 1]) /\ Size[m] \in Nat
      BY <1>2, <1>3, <1>4, <1>6
    <3>2. \A j \in 1..Size[m] : recv_buf[j] = FrameByte(Begun[r + 1], LenBytes + j)
      <4>1. r + 1 \in 1..Len(Begun) /\ Layout(start, Begun) /\ Begun \in Seq(Msg) /\ LenBytes \in Nat
        BY <1>1, <1>2, <1>4
      <4> QED
        BY <2>1, <3>1, <4>1, CarriesPart
    <3> QED
      BY <1>4, <3>2
  <2>3. /\ Body(m) \in Seq(Byte) /\ Len(Body(m)) = Size[m]
        /\ \A j \in 1..Size[m] : Body(m)[j] = [part |-> "body", msg |-> m, at |-> j]
    BY <1>4, PartBytes DEF Body
  <2>4. ASSUME NEW j \in 1..Size[m] PROVE recv_buf[j] = Body(m)[j]
    <3>1. ~(LenBytes + j <= LenBytes) /\ (LenBytes + j) - LenBytes = j
      <4>1. LenBytes \in Nat /\ Size[m] \in Nat
        BY <1>2, <1>4
      <4> QED
        BY <4>1
    <3>2. FrameByte(m, LenBytes + j) = [part |-> "body", msg |-> m, at |-> j]
      BY <3>1 DEF FrameByte
    <3> QED
      BY <2>2, <2>3, <3>2
  <2>5. recv_buf = Body(m)
    BY <1>3, <1>6, <2>1, <2>3, <2>4, SameSeq
  <2>6. /\ SubSeq(recv_buf, 1, size) \in Seq(Byte) /\ Len(SubSeq(recv_buf, 1, size)) = size
        /\ \A j \in 1..size : SubSeq(recv_buf, 1, size)[j] = recv_buf[j]
        /\ SubSeq(recv_buf, size + 1, Len(recv_buf)) \in Seq(Byte)
        /\ Len(SubSeq(recv_buf, size + 1, Len(recv_buf))) = Len(recv_buf) - size
    <3>1. size \in 0..Len(recv_buf)
      BY <1>2, <1>6
    <3> QED
      BY <2>1, <3>1, Cut
  <2>7. SubSeq(recv_buf, 1, size) = recv_buf
    BY <1>6, <2>1, <2>6, SameSeq
  <2>8. Len(SubSeq(recv_buf, size + 1, Len(recv_buf))) = 0
    BY <1>2, <1>6, <2>6
  <2>9. SubSeq(recv_buf, size + 1, Len(recv_buf)) = <<>>
    BY <2>6, <2>8
  <2> QED
    BY <2>5, <2>7, <2>9
<1>8. ~(Len(recv_buf) < size)
  BY <1>2, <1>6
<1>9. recv_buf' = <<>> /\ reader' = "prefix" /\ received' = Append(received, m)
  <2>1. recv_buf' = <<>>
    BY <1>7, <1>8 DEF read_message
  <2>2. PICK n \in Msg : Body(m) = Body(n) /\ reader' = "prefix" /\ received' = Append(received, n)
    BY <1>4, <1>7, <1>8 DEF read_message
  <2>3. n = m
    BY <1>4, <2>2, BodyMessage
  <2> QED
    BY <2>1, <2>2, <2>3
<1>10. UNCHANGED <<sent, write_rx, written, out, sender, stream, lost, size, Frames, Begun>>
  BY DEF read_message, send_vars, Frames, Begun
<1>11. received \in Seq(Msg)
  BY DEF IInv, Types
<1>12. /\ received' \in Seq(Msg) /\ Len(received') = r + 1 /\ received'[r + 1] = m
       /\ \A i \in 1..r : received'[i] = received[i]
  BY <1>4, <1>9, <1>11
<1>13. Types'
  BY <1>9, <1>10, <1>12 DEF IInv, Types
<1>14. Writing'
  BY <1>10 DEF IInv, Writing
<1>15. Reading'
  <2>1. ASSUME NEW i \in 1..(r + 1) PROVE received'[i] = sent[i]
    <3>1. CASE i = r + 1
      BY <1>12, <3>1
    <3>2. CASE i # r + 1
      <4>1. i \in 1..r
        BY <1>2, <3>2
      <4> QED
        BY <1>12, <4>1 DEF IInv, Reading
    <3> QED
      BY <3>1, <3>2
  <2>2. r + 1 <= Frames
    BY <1>2, <1>3
  <2> QED
    BY <1>9, <1>10, <1>12, <2>1, <2>2 DEF Reading
<1>16. Flow(start)'
  <2>1. Position(start)' = Position(start)
    <3>1. Position(start)' = start[(r + 1) + 1] + 0
      BY <1>9, <1>12 DEF Position
    <3>2. (r + 1) + 1 = r + 2
      BY <1>2
    <3>3. start[r + 1] \in Nat /\ LenBytes \in Nat /\ Size[m] \in Nat
      BY <1>2, <1>4
    <3>4. Position(start) = start[r + 1] + (LenBytes + Size[m])
      BY <1>3, <1>5, <1>6
    <3>5. Position(start)' = start[r + 1] + LenBytes + Size[m] + 0
      BY <1>4, <3>1, <3>2
    <3> QED
      BY <3>3, <3>4, <3>5
  <2> QED
    BY <1>1, <1>3, <1>9, <1>10, <2>1 DEF Flow
<1> QED
  BY <1>1, <1>10, <1>13, <1>14, <1>15, <1>16 DEF IInv

\* The end of the stream in front of a prefix: every frame has been read.
LEMMA ReadNoneStep ==
    ASSUME IInv, read_none PROVE IInv'
<1>1. PICK start : Layout(start, Begun) /\ Flow(start)
  BY DEF IInv
<1> DEFINE r == Len(received)
<1>2. /\ r \in Nat /\ r <= Frames /\ Frames \in Nat /\ start[r + 1] \in Nat
      /\ start[Frames + 1] \in Nat /\ Len(stream) \in Nat /\ LenBytes \in Nat
  BY <1>1, Places
<1>3. /\ reader = "prefix" /\ sender = "ended" /\ ~lost /\ Len(stream) < LenBytes
      /\ out = <<>> /\ Len(out) = 0 /\ reader' = "none" /\ stream' = <<>>
  BY DEF read_none, EndOfStream, IInv, Writing
<1>4. start[r + 1] + Len(stream) = start[Frames + 1]
  <2>1. Position(start) = start[r + 1] + 0
    BY <1>3 DEF Position
  <2>2. Position(start) + Len(stream) + Len(out) = start[Frames + 1]
    BY <1>1, <1>3 DEF Flow
  <2> QED
    BY <1>2, <1>3, <2>1, <2>2
<1>5. r = Frames
  <2>1. ASSUME r < Frames PROVE FALSE
    <3>1. /\ Size[sent[r + 1]] \in Nat \ {0}
          /\ start[r + 2] = start[r + 1] + LenBytes + Size[sent[r + 1]]
          /\ start[r + 2] <= start[Frames + 1]
      BY <1>1, <2>1, Current
    <3> QED
      BY <1>2, <1>3, <1>4, <3>1
  <2> QED
    BY <1>2, <2>1
<1>6. received = written
  <2>1. Frames = Len(written) + 0
    BY <1>3 DEF Frames
  <2>2. received \in Seq(Msg) /\ written \in Seq(Msg)
    BY DEF IInv, Types
  <2>3. Len(received) = Len(written)
    BY <1>5, <2>1, <2>2
  <2>4. \A i \in 1..Len(received) : received[i] = written[i]
    BY <2>3 DEF IInv, Reading, Writing
  <2> QED
    BY <2>2, <2>3, <2>4, SameSeq
<1>7. UNCHANGED <<sent, write_rx, written, out, sender, lost, size, recv_buf, received, Frames, Begun>>
  BY DEF read_none, send_vars, Frames, Begun
<1>8. Types'
  BY <1>3, <1>7 DEF IInv, Types
<1>9. Writing'
  BY <1>3, <1>7 DEF IInv, Writing
<1>10. Reading'
  BY <1>3, <1>6, <1>7 DEF IInv, Reading
<1>11. Flow(start)'
  BY <1>3 DEF Flow
<1> QED
  BY <1>1, <1>7, <1>8, <1>9, <1>10, <1>11 DEF IInv

LEMMA ReadFailsStep ==
    ASSUME IInv, read_fails PROVE IInv'
<1>1. PICK start : Layout(start, Begun) /\ Flow(start)
  BY DEF IInv
<1>2. lost /\ reader' = "Io"
  BY DEF read_fails
<1>3. UNCHANGED <<sent, write_rx, written, out, stream, sender, lost, size, recv_buf, received, Frames, Begun>>
  BY DEF read_fails, send_vars, Frames, Begun
<1>4. Types'
  BY <1>2, <1>3 DEF IInv, Types
<1>5. Writing'
  BY <1>3 DEF IInv, Writing
<1>6. Reading'
  BY <1>2, <1>3 DEF IInv, Reading
<1>7. Flow(start)'
  BY <1>2 DEF Flow
<1> QED
  BY <1>1, <1>3, <1>4, <1>5, <1>6, <1>7 DEF IInv

-----------------------------------------------------------------------------
(* The steps of the sending end and of the connection.                     *)

LEMMA FinishStep ==
    ASSUME IInv, finish PROVE IInv'
<1>1. PICK start : Layout(start, Begun) /\ Flow(start)
  BY DEF IInv
<1>2. sender' = "ended" /\ out = <<>> /\ sender = "running"
  BY DEF finish
<1>3. UNCHANGED <<sent, write_rx, written, out, stream, lost, reader, size, recv_buf, received, Frames, Begun>>
  BY DEF finish, recv_vars, Frames, Begun
<1>4. Types'
  BY <1>2, <1>3 DEF IInv, Types
<1>5. Writing'
  BY <1>2, <1>3 DEF IInv, Writing
<1>6. Reading'
  BY <1>2, <1>3 DEF IInv, Reading
<1>7. Flow(start)'
  BY <1>1, <1>3 DEF Flow, Position
<1> QED
  BY <1>1, <1>3, <1>4, <1>5, <1>6, <1>7 DEF IInv

LEMMA ClosedStep ==
    ASSUME IInv, closed PROVE IInv'
<1>1. PICK start : Layout(start, Begun) /\ Flow(start)
  BY DEF IInv
<1>2. lost' \in BOOLEAN /\ lost' /\ sender' = "ended" /\ stream' = <<>>
  BY DEF closed
<1>3. UNCHANGED <<sent, write_rx, written, out, reader, size, recv_buf, received, Frames, Begun>>
  BY DEF closed, recv_vars, Frames, Begun
<1>4. Types'
  BY <1>2, <1>3 DEF IInv, Types
<1>5. Writing'
  BY <1>2, <1>3 DEF IInv, Writing
<1>6. Reading'
  BY <1>2, <1>3 DEF IInv, Reading
<1>7. Flow(start)'
  BY <1>1, <1>2, <1>3 DEF Flow
<1> QED
  BY <1>1, <1>3, <1>4, <1>5, <1>6, <1>7 DEF IInv

LEMMA SendMessageStep ==
    ASSUME IInv, NEW m \in Msg, send_message(m) PROVE IInv'
<1>1. PICK start : Layout(start, Begun) /\ Flow(start)
  BY DEF IInv
<1>2. /\ sender = "running" /\ sent' = Append(sent, m) /\ write_rx' = Append(write_rx, m)
      /\ UNCHANGED <<written, out, stream, sender, lost, reader, size, recv_buf, received, Frames>>
  BY DEF send_message, recv_vars, Frames
<1>3. sent \in Seq(Msg) /\ write_rx \in Seq(Msg)
  BY DEF IInv, Types
<1>4. /\ sent' \in Seq(Msg) /\ Len(sent') = Len(sent) + 1 /\ sent'[Len(sent) + 1] = m
      /\ \A i \in 1..Len(sent) : sent'[i] = sent[i]
      /\ Len(sent) \in Nat
  BY <1>2, <1>3
<1>5. /\ write_rx' \in Seq(Msg) /\ Len(write_rx') = Len(write_rx) + 1
      /\ write_rx'[Len(write_rx) + 1] = m
      /\ \A i \in 1..Len(write_rx) : write_rx'[i] = write_rx[i]
      /\ Len(write_rx) \in Nat
  BY <1>2, <1>3
<1>6. /\ Frames \in Nat /\ Frames <= Len(sent) /\ Len(sent) = Frames + Len(write_rx)
      /\ \A i \in 1..Len(write_rx) : write_rx[i] = sent[Frames + i]
  BY <1>2, BegunSeq DEF IInv, Writing
<1>7. \A i \in 1..Frames : i \in 1..Len(sent) /\ sent'[i] = sent[i]
  BY <1>4, <1>6
<1>8. Begun' = Begun
  <2>1. SubSeq(sent', 1, Frames) = SubSeq(sent, 1, Frames)
    <3>1. Frames <= Len(sent')
      BY <1>4, <1>6
    <3> QED
      BY <1>3, <1>4, <1>6, <1>7, <3>1, SameFront
  <2> QED
    BY <1>2, <2>1 DEF Begun
<1>9. Types'
  BY <1>2, <1>4, <1>5 DEF IInv, Types
<1>10. Writing'
  <2>1. Frames <= Len(sent') /\ Len(sent') = Frames + Len(write_rx')
    BY <1>4, <1>5, <1>6
  <2>2. ASSUME NEW i \in 1..Len(written) PROVE written[i] = sent'[i]
    <3>1. i \in 1..Frames
      BY <1>6 DEF Frames, IInv, Types
    <3> QED
      BY <1>7, <3>1 DEF IInv, Writing
  <2>3. \A i \in 1..Frames : Size[sent'[i]] < max_message_size
    BY <1>7 DEF IInv, Writing
  <2>4. ASSUME NEW i \in 1..Len(write_rx') PROVE write_rx'[i] = sent'[Frames + i]
    <3>1. CASE i = Len(write_rx) + 1
      <4>1. Frames + i = Len(sent) + 1
        BY <1>5, <1>6, <3>1
      <4> QED
        BY <1>4, <1>5, <3>1, <4>1
    <3>2. CASE i # Len(write_rx) + 1
      <4>1. i \in 1..Len(write_rx) /\ Frames + i \in 1..Len(sent)
        BY <1>5, <1>6, <3>2
      <4> QED
        BY <1>4, <1>5, <1>6, <4>1
    <3> QED
      BY <3>1, <3>2
  <2> QED
    BY <1>2, <2>1, <2>2, <2>3, <2>4 DEF IInv, Writing
<1>11. Reading'
  <2>1. ASSUME NEW i \in 1..Len(received) PROVE received[i] = sent'[i]
    <3>1. i \in 1..Frames
      BY <1>6 DEF IInv, Types, Reading
    <3> QED
      BY <1>7, <3>1 DEF IInv, Reading
  <2>2. ASSUME reader = "body" PROVE size = Size[sent'[Len(received) + 1]]
    <3>1. Len(received) + 1 \in 1..Frames
      BY <1>6, <2>2 DEF IInv, Types, Reading
    <3> QED
      BY <1>7, <2>2, <3>1 DEF IInv, Reading
  <2> QED
    BY <1>2, <2>1, <2>2 DEF IInv, Reading
<1>12. Flow(start)'
  BY <1>1, <1>2, <1>8 DEF Flow, Position
<1> QED
  BY <1>1, <1>8, <1>9, <1>10, <1>11, <1>12 DEF IInv

\* While the send task runs, the reader is at work on a living connection.
LEMMA Running ==
    ASSUME IInv, sender = "running" PROVE ~lost /\ reader \in {"prefix", "body"}
  BY DEF IInv, Types, Writing, Reading

\* The message at the head of the write channel is the one after those begun.
LEMMA NextMessage ==
    ASSUME IInv, sender = "running", write_rx # <<>>
    PROVE  /\ Head(write_rx) \in Msg /\ Head(write_rx) = sent[Frames + 1]
           /\ Frames + 1 <= Len(sent) /\ Frames \in Nat
           /\ Tail(write_rx) \in Seq(Msg) /\ Len(sent) = (Frames + 1) + Len(Tail(write_rx))
           /\ \A i \in 1..Len(Tail(write_rx)) : Tail(write_rx)[i] = sent[(Frames + 1) + i]
<1>1. write_rx \in Seq(Msg)
  BY DEF IInv, Types
<1>2. /\ Len(write_rx) \in Nat \ {0} /\ Head(write_rx) = write_rx[1] /\ write_rx[1] \in Msg
      /\ Tail(write_rx) \in Seq(Msg) /\ Len(Tail(write_rx)) = Len(write_rx) - 1
      /\ \A i \in 1..(Len(write_rx) - 1) : Tail(write_rx)[i] = write_rx[i + 1]
  BY <1>1
<1>3. /\ Frames \in Nat /\ Len(sent) = Frames + Len(write_rx)
      /\ \A i \in 1..Len(write_rx) : write_rx[i] = sent[Frames + i]
  BY BegunSeq DEF IInv, Writing
<1>4. Head(write_rx) = sent[Frames + 1] /\ Frames + 1 <= Len(sent)
  BY <1>2, <1>3
<1>5. Len(sent) = (Frames + 1) + Len(Tail(write_rx))
  BY <1>2, <1>3
<1>6. ASSUME NEW i \in 1..Len(Tail(write_rx)) PROVE Tail(write_rx)[i] = sent[(Frames + 1) + i]
  <2>1. i + 1 \in 1..Len(write_rx) /\ Frames + (i + 1) = (Frames + 1) + i /\ i \in 1..(Len(write_rx) - 1)
    BY <1>2, <1>3
  <2> QED
    BY <1>2, <1>3, <2>1
<1> QED
  BY <1>2, <1>3, <1>4, <1>5, <1>6

LEMMA TooLargeStep ==
    ASSUME IInv, sender = "running", out = <<>>, write_rx # <<>>, write_rx' = Tail(write_rx),
           sender' = "ended",
           UNCHANGED <<out, sent, written, stream, lost, recv_vars>>
    PROVE  IInv'
<1>1. PICK start : Layout(start, Begun) /\ Flow(start)
  BY DEF IInv
<1>2. UNCHANGED <<sent, written, out, stream, lost, reader, size, recv_buf, received, Frames, Begun>>
  BY DEF recv_vars, Frames, Begun
<1>3. Types'
  BY <1>2, NextMessage DEF IInv, Types
<1>4. Writing'
  BY <1>2, Running DEF IInv, Writing
<1>5. Reading'
  BY <1>2, Running DEF IInv, Reading
<1>6. Flow(start)'
  BY <1>1, <1>2 DEF Flow, Position
<1> QED
  BY <1>1, <1>2, <1>3, <1>4, <1>5, <1>6 DEF IInv

\* A frame is begun: the layout is extended by it, and every byte in flight
\* stays where it was.
LEMMA BeginFrameStep ==
    ASSUME IInv, sender = "running", out = <<>>, write_rx # <<>>, write_rx' = Tail(write_rx),
           NEW m, m = Head(write_rx), Size[m] < max_message_size,
           out' = Prefix(m) \o Body(m),
           UNCHANGED <<sender, sent, written, stream, lost, recv_vars>>
    PROVE  IInv'
<1>1. PICK start : Layout(start, Begun) /\ Flow(start)
  BY DEF IInv
<1>2. UNCHANGED <<sent, written, sender, stream, lost, reader, size, recv_buf, received>>
  BY DEF recv_vars
<1>3. /\ m \in Msg /\ m = sent[Frames + 1] /\ Frames + 1 <= Len(sent) /\ Frames \in Nat
      /\ write_rx' \in Seq(Msg) /\ Len(sent) = (Frames + 1) + Len(write_rx')
      /\ \A i \in 1..Len(write_rx') : write_rx'[i] = sent[(Frames + 1) + i]
  BY NextMessage
<1>4. /\ out' \in Seq(Byte) /\ Len(out') = FrameLen(m) /\ FrameLen(m) \in Nat \ {0}
  BY <1>3, FrameBytes
<1>5. Frames' = Frames + 1 /\ Frames = Len(written) /\ Len(written) \in Nat
  <2>1. out' # <<>>
    BY <1>4
  <2>2. Frames = Len(written) + 0 /\ Frames' = Len(written) + 1 /\ Len(written) \in Nat
    BY <1>2, <2>1 DEF Frames, IInv, Types
  <2> QED
    BY <2>2
<1>6. sent \in Seq(Msg) /\ Begun \in Seq(Msg) /\ Len(Begun) = Frames
      /\ \A i \in 1..Frames : Begun[i] = sent[i]
  BY BegunSeq DEF IInv, Types
<1>7. Begun' = Append(Begun, m)
  <2>1. Begun' = SubSeq(sent, 1, Frames + 1)
    BY <1>2, <1>5 DEF Begun
  <2>2. /\ Begun' \in Seq(Msg) /\ Len(Begun') = Frames + 1
        /\ \A i \in 1..(Frames + 1) : Begun'[i] = sent[i]
    <3>1. Frames + 1 \in 0..Len(sent)
      BY <1>3
    <3> QED
      BY <1>6, <2>1, <3>1, Cut
  <2>3. /\ Append(Begun, m) \in Seq(Msg) /\ Len(Append(Begun, m)) = Frames + 1
        /\ Append(Begun, m)[Frames + 1] = m
        /\ \A i \in 1..Frames : Append(Begun, m)[i] = Begun[i]
    BY <1>3, <1>6
  <2>4. ASSUME NEW i \in 1..(Frames + 1) PROVE Begun'[i] = Append(Begun, m)[i]
    <3>1. CASE i = Frames + 1
      BY <1>3, <2>2, <2>3, <3>1
    <3>2. CASE i # Frames + 1
      <4>1. i \in 1..Frames
        BY <1>3, <3>2
      <4> QED
        BY <1>6, <2>2, <2>3, <4>1
    <3> QED
      BY <3>1, <3>2
  <2> QED
    BY <2>2, <2>3, <2>4, SameSeq
<1>8. Types'
  BY <1>2, <1>3, <1>4 DEF IInv, Types
<1>9. Writing'
  <2>1. \A i \in 1..(Frames + 1) : Size[sent[i]] < max_message_size
    <3> TAKE i \in 1..(Frames + 1)
    <3>1. CASE i = Frames + 1
      BY <1>3, <3>1
    <3>2. CASE i # Frames + 1
      <4>1. i \in 1..Frames
        BY <1>3, <3>2
      <4> QED
        BY <4>1 DEF IInv, Writing
    <3> QED
      BY <3>1, <3>2
  <2> QED
    BY <1>2, <1>3, <1>5, <2>1, Running DEF IInv, Writing
<1>10. Reading'
  <2>1. Len(received) \in Nat /\ (Len(received) <= Frames => Len(received) <= Frames + 1)
        /\ (Len(received) < Frames => Len(received) < Frames + 1)
    BY <1>3 DEF IInv, Types
  <2> QED
    BY <1>2, <1>5, <2>1, Running DEF IInv, Reading
<1>11. PICK next : next = Extended(start, Begun, m)
  OBVIOUS
<1> DEFINE r == Len(received)
           P == Position(start)
<1>12. /\ Layout(next, Begun') /\ \A i \in 1..(Frames + 1) : next[i] = start[i]
       /\ next[Frames + 2] = start[Frames + 1] + FrameLen(m)
  <2>1. /\ Layout(next, Append(Begun, m))
        /\ \A i \in 1..(Len(Begun) + 1) : next[i] = start[i]
        /\ next[Len(Begun) + 2] = start[Len(Begun) + 1] + FrameLen(m)
    <3>1. m \in Msg /\ Begun \in Seq(Msg) /\ Layout(start, Begun)
      BY <1>1, <1>3, <1>6
    <3> QED
      BY <1>11, <3>1, ExtendedLayout
  <2> QED
    BY <1>6, <1>7, <2>1
<1>13. /\ r \in Nat /\ r <= Frames /\ start[r + 1] \in Nat /\ start[Frames + 1] \in Nat
       /\ Len(stream) \in Nat /\ Len(recv_buf) \in Nat /\ LenBytes \in Nat
       /\ stream \in Seq(Byte) /\ recv_buf \in Seq(Byte)
  BY <1>1, Places DEF IInv, Types
<1>14. next[r + 1] = start[r + 1]
  <2>1. r + 1 \in 1..(Frames + 1)
    BY <1>3, <1>13
  <2> QED
    BY <1>12, <2>1
<1>15. Position(next)' = P /\ P \in Nat
  <2>1. Position(next)' = P
    BY <1>2, <1>14 DEF Position
  <2> QED
    BY <1>13, <2>1 DEF Position
<1>16. stream \o out = stream /\ Len(out) = 0
  BY <1>13
<1>17. Carries(start, Begun, stream, P) /\ P + Len(stream) = start[Frames + 1]
  <2>1. Carries(start, Begun, stream, P) /\ P + Len(stream) + 0 = start[Frames + 1]
    BY <1>1, <1>16, Running DEF Flow
  <2> QED
    BY <1>13, <1>15, <2>1
<1> HIDE DEF P
<1>18. Carries(next, Begun', stream \o out', P)
  <2>1. Carries(next, Begun', stream, P)
    <3>1. P + Len(stream) <= start[Len(Begun) + 1]
      BY <1>6, <1>13, <1>17
    <3> QED
      BY <1>1, <1>3, <1>6, <1>7, <1>13, <1>15, <1>17, <1>11, <3>1, CarriesOld
  <2>2. Carries(next, Begun', out', start[Frames + 1])
    BY <1>1, <1>3, <1>6, <1>7, <1>11, CarriesNew
  <2>3. Begun' \in Seq(Msg) /\ start[Frames + 1] = P + Len(stream)
    BY <1>3, <1>6, <1>7, <1>17
  <2> QED
    BY <1>4, <1>12, <1>13, <1>15, <2>1, <2>2, <2>3, CarriesJoined
<1>19. P + Len(stream) + Len(out') = next[Frames' + 1]
  <2>1. Frames' + 1 = Frames + 2
    BY <1>3, <1>5
  <2> QED
    BY <1>4, <1>12, <1>17, <2>1
<1>20. ASSUME reader = "body" PROVE Carries(next, Begun', recv_buf, start[r + 1] + LenBytes)
  <2>1. Carries(start, Begun, recv_buf, start[r + 1] + LenBytes)
    BY <1>1, <1>20 DEF Flow
  <2>2. P = start[r + 1] + (LenBytes + Len(recv_buf))
    BY <1>20 DEF Position, P
  <2>3. start[r + 1] + LenBytes \in Nat /\ (start[r + 1] + LenBytes) + Len(recv_buf) <= start[Len(Begun) + 1]
    <3>1. start[r + 1] \in Nat /\ LenBytes \in Nat /\ Len(recv_buf) \in Nat /\ Len(stream) \in Nat
      BY <1>13
    <3>2. start[r + 1] + (LenBytes + Len(recv_buf)) + Len(stream) = start[Len(Begun) + 1]
      BY <1>6, <1>17, <2>2
    <3> QED
      BY <3>1, <3>2
  <2> QED
    BY <1>1, <1>3, <1>6, <1>7, <1>13, <1>11, <2>1, <2>3, CarriesOld
<1>21. Flow(next)'
  BY <1>2, <1>14, <1>15, <1>18, <1>19, <1>20 DEF Flow
<1> QED
  BY <1>8, <1>9, <1>10, <1>12, <1>21 DEF IInv

\* Bytes of the frame go out; the last one completes the message.
LEMMA WriteAllStep ==
    ASSUME IInv, NEW k \in 1..Len(out), write_all(k) PROVE IInv'
<1>1. PICK start : Layout(start, Begun) /\ Flow(start)
  BY DEF IInv
<1> DEFINE z == stream \o out
           P == Position(start)
           a == SubSeq(out, 1, k)
           b == SubSeq(out, k + 1, Len(out))
           w == Len(written)
<1>2. /\ Frames \in Nat /\ start[Frames + 1] \in Nat /\ Len(stream) \in Nat /\ Len(out) \in Nat
      /\ Begun \in Seq(Msg) /\ Len(Begun) = Frames
      /\ z \in Seq(Byte) /\ Len(z) = Len(stream) + Len(out)
  BY <1>1, Places
<1>3. /\ sender = "running" /\ stream' = stream \o a /\ out' = b
      /\ written' = IF k = Len(out) THEN Append(written, out[k].msg) ELSE written
      /\ UNCHANGED <<sent, write_rx, sender, lost, reader, size, recv_buf, received>>
  BY DEF write_all, recv_vars
<1>4. stream \in Seq(Byte) /\ out \in Seq(Byte) /\ written \in Seq(Msg) /\ w \in Nat
  BY DEF IInv, Types
<1>5. k \in 0..Len(out) /\ k \in Nat /\ k >= 1 /\ k <= Len(out) /\ out # <<>>
  BY <1>2, <1>4
<1>6. a \in Seq(Byte) /\ Len(a) = k /\ b \in Seq(Byte) /\ Len(b) = Len(out) - k
  BY <1>4, <1>5, Cut
<1>7. stream' \o out' = z
  BY <1>3, <1>4, <1>5, MoveFront
<1>8. stream' \in Seq(Byte) /\ Len(stream') = Len(stream) + k
  <2>1. stream \o a \in Seq(Byte) /\ Len(stream \o a) = Len(stream) + Len(a)
    BY <1>4, <1>6, Joined
  <2> QED
    BY <1>3, <1>6, <2>1
<1>9. Frames = w + 1
  BY <1>5 DEF Frames
<1>10. Carries(start, Begun, z, P) /\ P + Len(stream) + Len(out) = start[Frames + 1]
  BY <1>1, <1>3, Running DEF Flow
<1>11. Frames \in 1..Len(Begun) /\ Begun[Frames] = sent[Frames] /\ sent[Frames] \in Msg
  BY <1>2, <1>4, <1>9, BegunSeq DEF IInv
<1>12. ASSUME k = Len(out) PROVE out[k].msg = sent[Frames]
  <2> DEFINE n == FrameLen(Begun[Frames])
             j == Len(stream) + Len(out)
  <2>1. /\ n \in Nat \ {0} /\ start[Frames] \in Nat /\ start[Frames] + n = start[Frames + 1]
    BY <1>1, <1>2, <1>11, FrameEnds
  <2>2. j \in 1..Len(z) /\ n \in 1..n
    BY <1>2, <1>5, <2>1
  <2>3. P \in Nat
    <3>1. /\ start[Len(received) + 1] \in Nat /\ LenBytes \in Nat /\ Len(recv_buf) \in Nat
      BY <1>1, Places
    <3> QED
      BY <3>1 DEF Position
  <2>4. P + j = start[Frames] + n
    BY <1>2, <1>10, <2>1, <2>3
  <2>5. z[j] = FrameByte(Begun[Frames], n)
    BY <1>10, <1>11, <2>2, <2>4 DEF Carries
  <2>6. z[j] = out[k]
    <3>1. \A i \in 1..Len(out) : z[Len(stream) + i] = out[i]
      BY <1>4, Joined
    <3> QED
      BY <1>12, <3>1
  <2>7. FrameByte(Begun[Frames], n).msg = Begun[Frames]
    BY DEF FrameByte
  <2> QED
    BY <1>11, <2>5, <2>6, <2>7
<1>13. Frames' = Frames /\ written' \in Seq(Msg) /\ \A i \in 1..Len(written') : written'[i] = sent[i]
  <2>1. CASE k = Len(out)
    <3>1. written' = Append(written, sent[Frames])
      BY <1>3, <1>12, <2>1
    <3>2. /\ written' \in Seq(Msg) /\ Len(written') = w + 1 /\ written'[w + 1] = sent[Frames]
          /\ \A i \in 1..w : written'[i] = written[i]
      BY <1>4, <1>11, <3>1
    <3>3. out' = <<>>
      BY <1>2, <1>3, <1>6, <2>1
    <3>4. Frames' = Frames
      <4>1. Frames' = (w + 1) + 0
        BY <3>2, <3>3 DEF Frames
      <4> QED
        BY <1>4, <1>9, <4>1
    <3>5. ASSUME NEW i \in 1..Len(written') PROVE written'[i] = sent[i]
      <4>1. CASE i = w + 1
        BY <1>9, <3>2, <4>1
      <4>2. CASE i # w + 1
        <5>1. i \in 1..w
          BY <1>4, <3>2, <4>2
        <5> QED
          BY <3>2, <5>1 DEF IInv, Writing
      <4> QED
        BY <4>1, <4>2
    <3> QED
      BY <3>2, <3>4, <3>5
  <2>2. CASE k # Len(out)
    <3>1. written' = written
      BY <1>3, <2>2
    <3>2. Len(out') \in Nat \ {0}
      BY <1>2, <1>3, <1>5, <1>6, <2>2
    <3>3. out' # <<>>
      BY <3>2
    <3>4. Frames' = Frames
      BY <1>9, <3>1, <3>3 DEF Frames
    <3> QED
      BY <1>4, <3>1, <3>4 DEF IInv, Writing
  <2> QED
    BY <2>1, <2>2
<1>14. Begun' = Begun
  BY <1>3, <1>13 DEF Begun
<1>15. Types'
  BY <1>3, <1>6, <1>8, <1>13 DEF IInv, Types
<1>16. Writing'
  BY <1>3, <1>13, Running DEF IInv, Writing
<1>17. Reading'
  BY <1>3, <1>13, Running DEF IInv, Reading
<1>18. Flow(start)'
  <2>1. Position(start)' = P
    BY <1>3 DEF Position
  <2>2. P + Len(stream') + Len(out') = start[Frames + 1]
    <3>1. P \in Nat
      <4>1. /\ start[Len(received) + 1] \in Nat /\ LenBytes \in Nat /\ Len(recv_buf) \in Nat
        BY <1>1, Places
      <4> QED
        BY <4>1 DEF Position
    <3>2. Len(out') = Len(out) - k
      BY <1>3, <1>6
    <3> HIDE DEF P
    <3> QED
      BY <1>2, <1>5, <1>8, <1>10, <3>1, <3>2
  <2>3. Carries(start, Begun', stream' \o out', Position(start)')
    BY <1>7, <1>10, <1>14, <2>1
  <2> QED
    BY <1>1, <1>3, <1>13, <1>14, <2>1, <2>2, <2>3 DEF Flow
<1> QED
  BY <1>1, <1>14, <1>15, <1>16, <1>17, <1>18 DEF IInv

-----------------------------------------------------------------------------
(* The theorems.                                                           *)

LEMMA InvInit == Init => IInv
<1> SUFFICES ASSUME Init PROVE IInv
  OBVIOUS
<1>1. Types
  <2>1. \A S : <<>> \in Seq(S)
    OBVIOUS
  <2>2. lost \in BOOLEAN
    BY Zenon DEF Init
  <2>3. sender \in {"running", "ended"} /\ reader \in {"prefix", "body", "none", "Io"} /\ size \in Nat
    BY DEF Init
  <2> QED
    BY <2>1, <2>2, <2>3, Zenon DEF Init, Types
<1>2. Frames = 0 /\ Len(sent) = 0 /\ Len(received) = 0 /\ Len(stream) = 0 /\ Len(out) = 0
  BY DEF Init, Frames
<1>3. Begun = <<>>
  BY <1>2 DEF Init, Begun
<1>4. Writing
  BY <1>2 DEF Init, Writing
<1>5. Reading
  BY <1>2 DEF Init, Reading
<1>6. PICK start : start = [i \in Nat |-> 0]
  OBVIOUS
<1>7. Layout(start, Begun)
  <2>1. start \in [Nat -> Nat] /\ \A i \in Nat : start[i] = 0
    BY <1>6
  <2>2. Len(Begun) = 0
    BY <1>3
  <2> QED
    BY <2>1, <2>2 DEF Layout
<1>8. Flow(start)
  <2>1. Position(start) = 0 /\ start[Frames + 1] = 0
    BY <1>2, <1>6 DEF Position, Init
  <2>2. Carries(start, Begun, stream \o out, Position(start))
    BY <1>3 DEF Carries
  <2> QED
    BY <1>2, <2>1, <2>2 DEF Flow, Init
<1> QED
  BY <1>1, <1>4, <1>5, <1>7, <1>8 DEF IInv

LEMMA WriteMessageStep ==
    ASSUME IInv, write_message PROVE IInv'
<1>1. /\ sender = "running" /\ out = <<>> /\ write_rx # <<>> /\ write_rx' = Tail(write_rx)
      /\ UNCHANGED <<sent, written, stream, lost, recv_vars>>
  BY DEF write_message
<1>2. CASE sender' = "ended" /\ UNCHANGED out
  BY <1>1, <1>2, TooLargeStep
<1>3. CASE /\ Size[Head(write_rx)] < max_message_size
           /\ out' = Prefix(Head(write_rx)) \o Body(Head(write_rx))
           /\ UNCHANGED sender
  BY <1>1, <1>3, BeginFrameStep
<1> QED
  BY <1>2, <1>3 DEF write_message

LEMMA InvStep == IInv /\ [Next]_vars => IInv'
<1> SUFFICES ASSUME IInv, [Next]_vars PROVE IInv'
  OBVIOUS
<1>1. ASSUME NEW m \in Msg, send_message(m) PROVE IInv'
  BY <1>1, SendMessageStep
<1>2. CASE write_message
  BY <1>2, WriteMessageStep
<1>3. ASSUME NEW k \in 1..Len(out), write_all(k) PROVE IInv'
  BY <1>3, WriteAllStep
<1>4. CASE finish
  BY <1>4, FinishStep
<1>5. CASE closed
  BY <1>5, ClosedStep
<1>6. CASE read_u32
  BY <1>6, ReadPrefixStep
<1>7. CASE read_none
  BY <1>7, ReadNoneStep
<1>8. ASSUME NEW k \in 1..Len(stream), read_buf(k) PROVE IInv'
  BY <1>8, ReadBufStep
<1>9. CASE read_message
  BY <1>9, ReadMessageStep
<1>10. CASE read_fails
  BY <1>10, ReadFailsStep
<1>11. CASE UNCHANGED vars
  <2>1. UNCHANGED <<sent, write_rx, written, out, stream, sender, lost, reader, size, recv_buf, received,
                    Frames, Begun>>
    BY <1>11 DEF vars, Frames, Begun
  <2>2. Types' /\ Writing' /\ Reading'
    BY <2>1 DEF IInv, Types, Writing, Reading
  <2>3. PICK start : Layout(start, Begun) /\ Flow(start)
    BY DEF IInv
  <2>4. Layout(start, Begun)' /\ Flow(start)'
    BY <2>1, <2>3 DEF Flow, Position
  <2> QED
    BY <2>2, <2>4 DEF IInv
<1> QED
  BY <1>1, <1>2, <1>3, <1>4, <1>5, <1>6, <1>7, <1>8, <1>9, <1>10, <1>11 DEF Next

LEMMA Invariance == Spec => []IInv
  BY InvInit, InvStep, PTL DEF Spec

\* The messages handed on are the first ones sent, in order: read_lp takes its
\* length and its body from exactly one frame, however the stream is cut.
THEOREM InOrder == Spec => []ReceivedInOrder
<1>1. IInv => ReceivedInOrder
  <2> SUFFICES ASSUME IInv PROVE ReceivedInOrder
    OBVIOUS
  <2>1. Len(received) <= Frames /\ Frames <= Len(sent) /\ Frames \in Nat
    BY BegunSeq DEF IInv, Reading, Writing
  <2>2. received \in Seq(Msg) /\ sent \in Seq(Msg)
    BY DEF IInv, Types
  <2>3. DOMAIN received = 1..Len(received) /\ Len(received) \in Nat /\ Len(sent) \in Nat
    BY <2>2
  <2> QED
    BY <2>1, <2>3 DEF IInv, Reading, ReceivedInOrder
<1> QED
  BY <1>1, Invariance, PTL

\* read_message accepts what write_message let through: no length is too large,
\* no body fails to decode, split_to never panics.
THEOREM NothingRejected == Spec => []ReaderAcceptsWriter
<1>1. IInv => ReaderAcceptsWriter
  BY DEF IInv, Types, ReaderAcceptsWriter
<1> QED
  BY <1>1, Invariance, PTL

\* read_lp returns None only when every message written has been received.
THEOREM NoneAtTheEnd == Spec => []NoneMeansComplete
<1>1. IInv => NoneMeansComplete
  BY DEF IInv, Reading, NoneMeansComplete
<1> QED
  BY <1>1, Invariance, PTL
==============================================================================
