--------------------------- MODULE MCChatRepository ---------------------------
(* ChatRepository with a few changes and a log limit of one row. *)
EXTENDS ChatRepository

MCChange == 1..4
==============================================================================
