--------------------------- MODULE MCGkeManager ---------------------------
(***************************************************************************)
(* Small instances of GkeManager for TLC: a pool p1 of two MIGs, one of    *)
(* whose instance-group URLs is malformed, and an autoprovisioned pool p2  *)
(* of one MIG, all in zone z1; the cfgs give one or two node locations,    *)
(* one or two pool configurations and one resource limit.                  *)
(***************************************************************************)
EXTENDS GkeManager, TLC

CONSTANTS p1, p2, m1, m2, m3, z1, z2, c1, c2, l1

MCPools == {p1, p2}
MCMigs == {m1, m2, m3}
MCMigPool == (m1 :> p1) @@ (m2 :> p1) @@ (m3 :> p2)
MCZoneOf == (m1 :> z1) @@ (m2 :> z1) @@ (m3 :> z1)
=============================================================================
