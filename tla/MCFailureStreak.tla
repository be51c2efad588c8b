--------------------------- MODULE MCFailureStreak ---------------------------
EXTENDS FailureStreak

CONSTANTS automatic, manual

TwoTasks == {automatic, manual}
AllSelections == SUBSET {"failing", "recovered"}
=============================================================================
