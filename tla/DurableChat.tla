------------------------------ MODULE DurableChat ------------------------------
(***************************************************************************)
(* What ChatRepository promises to the manager, without documents, logs or *)
(* snapshots: a history of changes on disk that only grows, and messages   *)
(* that are acknowledged to the user only once they are part of it.        *)
(***************************************************************************)
CONSTANT Change

VARIABLES
    history,  \* the changes a restart would find
    acked     \* the messages whose add_message returned Ok

vars == <<history, acked>>

Init == history = {} /\ acked = {}

Persist ==
    /\ history' \in SUBSET Change
    /\ history \subseteq history'
    /\ UNCHANGED acked

Acknowledge ==
    /\ acked' \in SUBSET history
    /\ acked \subseteq acked'
    /\ UNCHANGED history

Next == Persist \/ Acknowledge

Spec == Init /\ [][Next]_vars
==============================================================================
