----------------------------- MODULE MCPagination -----------------------------
(* Two peers, up to four messages with distinct ids, four clock readings. *)
EXTENDS Pagination

MCMsgId == 1..4
MCTime  == 1..4
==============================================================================
