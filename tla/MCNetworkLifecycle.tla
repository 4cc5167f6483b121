-------------------------- MODULE MCNetworkLifecycle --------------------------
(***************************************************************************)
(* Hosts a to c and ports 1 to 3; no target has port 3. The plan of three  *)
(* targets shares a port between two hosts, which is where the block rules *)
(* of one target meet the allow rules of another.                          *)
(***************************************************************************)
EXTENDS NetworkLifecycle

P(d, n) == [dst |-> d, port |-> n]
MCPackets == {P(d, n) : d \in {"a", "b", "c"}, n \in {1, 2, 3}}
MCFourPackets == {P(d, n) : d \in {"a", "b"}, n \in {1, 2}}
MCOneTarget == <<P("a", 1)>>
MCThreeTargets == <<P("a", 1), P("b", 1), P("b", 2)>>
MCFaults == {"ip", "list", "add", "delete", "dns"}
MCNoListFaults == {"ip", "add", "delete", "dns"}
MCStale == {"r1"}
=============================================================================
