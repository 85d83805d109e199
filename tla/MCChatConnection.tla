--------------------------- MODULE MCChatConnection ---------------------------
(* The instance of ChatConnection in MCChatConnection.cfg.  Its properties  *)
(* include liveness, so no symmetry is declared.                            *)
EXTENDS ChatConnection
==============================================================================
