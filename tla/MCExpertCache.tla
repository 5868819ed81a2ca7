--------------------------- MODULE MCExpertCache ---------------------------
EXTENDS ExpertCache

CONSTANTS b1, b2, b3, b4

MCLayerBlocks == <<<<b1, b2, b3>>, <<b4>>>>

Switches(mode, lfu, copying, dev, prewarm, window, depth, width) ==
    [mode |-> mode, lfu |-> lfu, copy |-> copying, dev |-> dev, prewarm |-> prewarm,
     window |-> window, depth |-> depth, width |-> width]

\* The backends: host memory with copy-stream lookahead, positioned reads on the
\* calling thread (where the host routes every layer), disk workers with a window
\* of two, disk workers with copy-stream promotion.
MCConfigs ==
    {Switches("memory", FALSE, FALSE, TRUE, TRUE, 1, 1, 3),
     Switches("blocking", TRUE, FALSE, FALSE, FALSE, 0, 2, 3),
     Switches("worker", FALSE, FALSE, TRUE, FALSE, 2, 3, 3),
     Switches("worker", FALSE, TRUE, TRUE, FALSE, 0, 3, 2)}

\* With two slots the first layer is never fully resident and never prewarmed,
\* so no row and no prewarm order tells its three blocks apart.
Symmetric == Permutations({b1, b2, b3})
=============================================================================
