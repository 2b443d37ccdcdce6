----------------------------- MODULE MCAdManager -----------------------------
EXTENDS AdManager
MCPeriodLength == <<2, 4, 6, 7, 6>>
MCBreakLength == 2 :> 9 @@ 4 :> 4
MCAds == {"a", "b", "c"}
MCAdLength == [a |-> 5, b |-> 8, c |-> 4]
MCReservation == [a |-> 2, b |-> 2, c |-> 4]
MCGrowth == {0, 4}
MCSeekOffsets == {0, 3}
=============================================================================
