---------------------------- MODULE MCChatManager ----------------------------
(* The instance of ChatManager in MCChatManager.cfg.                       *)
EXTENDS ChatManager
==============================================================================
