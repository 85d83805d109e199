-------------------------------- MODULE Glare --------------------------------
(***************************************************************************)
(* The tie-breaker of `ChatConnection::update_handle`: which of two        *)
(* transports to the same peer an endpoint keeps.  Endpoint identifiers    *)
(* are ordered as `EndpointId`s are; the model uses integers.              *)
(***************************************************************************)
EXTENDS Integers

ConnOrigin == {"Accept", "Dial"}

\* A plausible slip: the identifiers are not compared, and both endpoints
\* prefer the transport they accepted.
should_switch_prefers_accept(local_id, remote_id, current, new) ==
    \/ current = new
    \/ new = "Accept"

\* The current handle gives way to the new one when both have the same origin
\* (a refresh), or when the new one has the origin this endpoint prefers: the
\* endpoint with the smaller identifier (Master) prefers Dial, the other one
\* (Slave) prefers Accept.
should_switch(local_id, remote_id, current, new) ==
    \/ current = new
    \/ (local_id < remote_id) = (new = "Dial")
==============================================================================
