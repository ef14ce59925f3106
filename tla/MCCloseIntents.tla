--------------------------- MODULE MCCloseIntents ---------------------------
EXTENDS CloseIntents
StopAndTarget == {[reason |-> "sl", trigger |-> 2], [reason |-> "tp", trigger |-> 3]}
Yes == {TRUE}
YesNo == BOOLEAN
=============================================================================
