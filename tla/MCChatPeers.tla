------------------------------ MODULE MCChatPeers ------------------------------
(* Small instances of ChatPeers for TLC.                                     *)
EXTENDS ChatPeers, TLC

\* Transport slots are interchangeable; the endpoints are not.
Symmetry == Permutations(Conn)
==============================================================================
