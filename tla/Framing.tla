-------------------------------- MODULE Framing --------------------------------
(***************************************************************************)
(* Length-prefixed messages on one direction of a transport: the send task *)
(* and write_message at one end, read_lp, read_message and the receive     *)
(* task at the other (src/protocols/chat/utils.rs, protocol_handler.rs).   *)
(* The stream is a sequence of bytes; a byte is known by the part of the   *)
(* frame it comes from, so the reader sees a length or a message only if   *)
(* it has picked exactly the right bytes.  The stream delivers bytes in    *)
(* order and in pieces of any size; the connection may be lost at any      *)
(* moment, and with it the bytes in flight.                                *)
(***************************************************************************)
EXTENDS Integers, Sequences, Functions

CONSTANTS
    Msg,              \* messages, each sent at most once
    Size,             \* [Msg -> the length of the encoded message]; postcard puts
                      \* the payload's length in front, so it is never zero
    LenBytes,         \* length of the prefix, four in the code
    max_message_size

ASSUME FramingAssumption ==
    /\ Size \in [Msg -> Nat \ {0}]
    /\ LenBytes \in Nat \ {0} /\ max_message_size \in Nat

VARIABLES
    sent,      \* messages put into the write channel so far
    write_rx,  \* the write channel
    written,   \* messages for which write_message returned Ok
    out,       \* bytes of the frame being written
    stream,    \* bytes in flight
    sender,    \* the send task
    lost,      \* the connection has been closed or has failed
    reader,    \* the receive task: where it is, or how it ended
    size,      \* the prefix read last
    recv_buf,
    received   \* messages handed to the read channel

vars == <<sent, write_rx, written, out, stream, sender, lost, reader, size, recv_buf, received>>

send_vars == <<sent, write_rx, written, out, sender>>
recv_vars == <<reader, size, recv_buf, received>>

-----------------------------------------------------------------------------
Bytes(part, m, n) == [i \in 1..n |-> [part |-> part, msg |-> m, at |-> i]]

Prefix(m) == Bytes("len", m, LenBytes)

Body(m) == Bytes("body", m, Size[m])

\* The number a reader makes of LenBytes bytes: any, unless they are a prefix.
Lengths(bytes) ==
    IF \E m \in Msg : bytes = Prefix(m)
    THEN {Size[m] : m \in {n \in Msg : bytes = Prefix(n)}}
    ELSE 0..max_message_size + 1

Init ==
    /\ sent = <<>> /\ write_rx = <<>> /\ written = <<>> /\ out = <<>>
    /\ stream = <<>>
    /\ sender = "running" /\ lost = FALSE
    /\ reader = "prefix" /\ size = 0 /\ recv_buf = <<>>
    /\ received = <<>>

-----------------------------------------------------------------------------
(* The sending end.                                                        *)

\* tx.send(msg) of ChatConnection::send_message
send_message(m) ==
    /\ sender = "running"
    /\ m \notin Range(sent)
    /\ sent' = Append(sent, m)
    /\ write_rx' = Append(write_rx, m)
    /\ UNCHANGED <<written, out, stream, sender, lost, recv_vars>>

\* A plausible slip: the size is not compared with the limit.
write_message_unlimited ==
    /\ sender = "running" /\ out = <<>> /\ write_rx # <<>>
    /\ write_rx' = Tail(write_rx)
    /\ out' = Prefix(Head(write_rx)) \o Body(Head(write_rx))
    /\ UNCHANGED <<sent, written, stream, sender, lost, recv_vars>>

\* A message that is too large ends the send task; any other is written as its
\* length and its encoding.
write_message ==
    /\ sender = "running" /\ out = <<>> /\ write_rx # <<>>
    /\ write_rx' = Tail(write_rx)
    /\ LET m == Head(write_rx)
       IN  \/ /\ Size[m] >= max_message_size
              /\ sender' = "ended"
              /\ UNCHANGED out
           \/ /\ Size[m] < max_message_size
              /\ out' = Prefix(m) \o Body(m)
              /\ UNCHANGED sender
    /\ UNCHANGED <<sent, written, stream, lost, recv_vars>>

\* write_u32 and write_all hand over the next bytes; with the last one
\* write_message returns.
write_all(k) ==
    /\ sender = "running" /\ k \in 1..Len(out)
    /\ stream' = stream \o SubSeq(out, 1, k)
    /\ out' = SubSeq(out, k + 1, Len(out))
    /\ written' = IF k = Len(out) THEN Append(written, out[k].msg) ELSE written
    /\ UNCHANGED <<sent, write_rx, sender, lost, recv_vars>>

\* A plausible slip: the stream is finished in the middle of a frame.
finish_at_once ==
    /\ sender = "running"
    /\ sender' = "ended"
    /\ UNCHANGED <<sent, write_rx, written, out, stream, lost, recv_vars>>

\* Every sender of the write channel is gone: the task ends after the last frame.
finish ==
    /\ sender = "running" /\ write_rx = <<>> /\ out = <<>>
    /\ sender' = "ended"
    /\ UNCHANGED <<sent, write_rx, written, out, stream, lost, recv_vars>>

\* A monitor task closes the connection, or the network fails.
closed ==
    /\ ~lost
    /\ lost' = TRUE
    /\ sender' = "ended"
    /\ stream' = <<>>
    /\ UNCHANGED <<sent, write_rx, written, out, recv_vars>>

-----------------------------------------------------------------------------
(* The receiving end.                                                      *)

EndOfStream == sender = "ended" /\ ~lost

\* reader.read_u32() and the check of the length
read_u32 ==
    /\ reader = "prefix" /\ Len(stream) >= LenBytes
    /\ stream' = SubSeq(stream, LenBytes + 1, Len(stream))
    /\ size' \in Lengths(SubSeq(stream, 1, LenBytes))
    /\ reader' = IF size' > max_message_size THEN "TooLarge" ELSE "body"
    /\ UNCHANGED <<send_vars, lost, recv_buf, received>>

\* UnexpectedEof in read_u32: read_lp returns None and the task ends.
read_none ==
    /\ reader = "prefix" /\ EndOfStream /\ Len(stream) < LenBytes
    /\ reader' = "none"
    /\ stream' = <<>>
    /\ UNCHANGED <<send_vars, lost, size, recv_buf, received>>

\* reader.take(size).read_buf(buffer)
read_buf(k) ==
    /\ reader = "body"
    /\ k \in 1..Len(stream) /\ Len(recv_buf) + k <= size
    /\ recv_buf' = recv_buf \o SubSeq(stream, 1, k)
    /\ stream' = SubSeq(stream, k + 1, Len(stream))
    /\ UNCHANGED <<send_vars, lost, reader, size, received>>

\* A plausible slip: the message is copied out of the buffer, not split off.
read_message_keeps_buffer ==
    /\ reader = "body" /\ Len(recv_buf) >= size
    /\ \E m \in Msg :
          /\ SubSeq(recv_buf, 1, size) = Body(m)
          /\ received' = Append(received, m)
    /\ reader' = "prefix"
    /\ UNCHANGED <<send_vars, stream, lost, size, recv_buf>>

\* read_buf returned 0, at the limit or at the end of the stream: split_to,
\* which panics on a shorter buffer, then decode and pass the message on.
read_message ==
    /\ reader = "body"
    /\ Len(recv_buf) >= size \/ (EndOfStream /\ stream = <<>>)
    /\ \/ /\ Len(recv_buf) < size
          /\ reader' = "panicked"
          /\ UNCHANGED <<recv_buf, received>>
       \/ /\ Len(recv_buf) >= size
          /\ recv_buf' = SubSeq(recv_buf, size + 1, Len(recv_buf))
          /\ \/ \E m \in Msg :
                   /\ SubSeq(recv_buf, 1, size) = Body(m)
                   /\ reader' = "prefix"
                   /\ received' = Append(received, m)
             \/ /\ \A m \in Msg : SubSeq(recv_buf, 1, size) # Body(m)
                /\ reader' = "De"
                /\ UNCHANGED received
    /\ UNCHANGED <<send_vars, stream, lost, size>>

\* A read on a connection that is gone
read_fails ==
    /\ reader \in {"prefix", "body"} /\ lost
    /\ reader' = "Io"
    /\ UNCHANGED <<send_vars, stream, lost, size, recv_buf, received>>

-----------------------------------------------------------------------------
Next ==
    \/ \E m \in Msg : send_message(m)
    \/ write_message
    \/ \E k \in 1..Len(out) : write_all(k)
    \/ finish
    \/ closed
    \/ read_u32
    \/ read_none
    \/ \E k \in 1..Len(stream) : read_buf(k)
    \/ read_message
    \/ read_fails

Spec == Init /\ [][Next]_vars

-----------------------------------------------------------------------------
(* Properties.                                                             *)

\* The messages handed on by the receive task are the first ones the peer put
\* into its write channel, in order, without gaps or repetitions: the buffer
\* read_lp keeps between calls never carries bytes of one frame into the next.
ReceivedInOrder ==
    Len(received) <= Len(sent) /\ \A i \in DOMAIN received : received[i] = sent[i]

\* Whatever write_message lets through, read_message accepts: the two limits
\* (`len >= max_message_size` and `size > max_message_size`) fit together, a
\* length is never read from the middle of a frame, and split_to finds the
\* whole body.
ReaderAcceptsWriter == reader \notin {"TooLarge", "De", "panicked"}

\* "If the end of the stream is reached and there is no partial message,
\* returns `None`" (read_lp): when the receive task ends that way, every
\* message written has been received.
NoneMeansComplete == reader = "none" => received = written /\ out = <<>>
==============================================================================
