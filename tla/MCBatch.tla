-------------------------------- MODULE MCBatch --------------------------------
EXTENDS Batch

Ask(destination, priority) == [destination |-> destination, priority |-> priority]

\* A destination twice, with another one in between, and one alone.
MCRequests == {<<Ask("a", 0), Ask("b", 1), Ask("a", 2), Ask("c", 1)>>, <<Ask("a", 2)>>}

\* The highest priority in use.
MCTopRequests == {<<Ask("a", 4)>>}

\* A fresh adapter, and one that has a window full of latencies.
MCHistories == {<<>>, <<1, 1, 3, 1, 2, 2, 1, 3>>}
=============================================================================
