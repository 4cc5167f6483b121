---------------------------- MODULE MCRunLifecycle ----------------------------
(* A run with one read-only and one read-write mount, at most two network  *)
(* rules and a timeout of two sample intervals, and the sets of operations *)
(* that fail in the different configurations.                              *)
EXTENDS RunLifecycle

MCReadOnly == {1}
MCMountFaults == {"bind", "remount", "umount"}
MCFaults == FaultPoints
=============================================================================
