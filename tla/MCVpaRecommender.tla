-------------------------- MODULE MCVpaRecommender --------------------------
(* VPAs in two namespaces (the runs use one, v1 in ns1), one aggregation  *)
(* in each namespace, a selector matching every pod, one matching the     *)
(* first, and the nil one.                                                 *)
EXTENDS VpaRecommender

CONSTANTS v1, v2, k1, k2, c1, c2, ns1, ns2, sAll, sOne

MCContainerOf == [k \in {k1, k2} |-> IF k = k1 THEN c1 ELSE c2]
MCKeyNs == [k \in {k1, k2} |-> IF k = k1 THEN ns1 ELSE ns2]
MCVpaNs == [v \in VpaIDs |-> IF v = v1 THEN ns1 ELSE ns2]
MCSelMatches == [s \in Selectors |->
                    CASE s = sAll -> {k1, k2}
                      [] s = sOne -> {k1}
                      [] OTHER -> {}]
MCTypeRank == [t \in {RecommendationProvided} |-> 0]
=============================================================================
