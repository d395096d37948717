---------------------------- MODULE MCNetworkSim ----------------------------
(* Instances of NetworkSim for TLC.                                        *)
EXTENDS NetworkSim

CONSTANTS k1, k2

MCKeyLists == {<<k1>>, <<k1, k2>>, <<k1, k1>>}
MCOneKeyList == {<<k1>>}
MCBursts == {<<>>, <<k1>>, <<k2, k1>>}

Rule(key, kind, delay, start, duration) ==
  [key |-> key, kind |-> kind, delay |-> delay, flips |-> TRUE,
   start |-> start, duration |-> duration]

MCFanOutBursts == {<<>>, <<k1>>, <<k2>>}
MCDelayRule == {Rule(k1, "delay", 3, 0, 2)}

\* A delay that is no multiple of the step, a delay that releases in the same
\* tick, a drop with a window, a corruption for ever, one that hits no byte.
MCRules == {Rule(k1, "delay", 3, 0, 2), Rule(k1, "delay", 0, 0, Forever),
            Rule(k1, "drop", 0, 2, 2),
            [Rule(k2, "corrupt", 0, 0, Forever) EXCEPT !.flips = FALSE],
            Rule(k1, "corrupt", 0, 0, Forever)}
=============================================================================
