---------------------------- MODULE MCProxyPool ----------------------------
(***************************************************************************)
(* Small instances of ProxyPool.                                           *)
(***************************************************************************)
EXTENDS ProxyPool

CONSTANTS k1, k2, k3

OneKey == {k1}
ThreeKeys == {k1, k2, k3}

InOrder == [k \in Keys |-> CASE k = k1 -> 1 [] k = k2 -> 2 [] k = k3 -> 3]

MixedAnswers == [k \in Keys |-> CASE k = k1 -> CheckResult
                                 [] k = k2 -> {"Ok", "Dead"}
                                 [] k = k3 -> {"Dead"}]
OkOrDead == [k \in Keys |-> {"Ok", "Dead"}]

OneInRU == [k \in Keys |-> IF k = k1 THEN "RU" ELSE "None"]
Nowhere == [k \in Keys |-> "None"]
=============================================================================
