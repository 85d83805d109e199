SPECIFICATION FairSpec
CONSTANTS
    Msg = {m1}
    MaxChanges = 3
INVARIANTS TypeOK UiIsCurrent SeenTransportIsGreeted OnlyFailuresHide
PROPERTIES UiCatchesUp TransportsAreGreeted CancelledManagerEnds
CHECK_DEADLOCK FALSE
