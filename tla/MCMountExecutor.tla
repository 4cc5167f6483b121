--------------------------- MODULE MCMountExecutor ---------------------------
(* Mount plans of six entries, alternately read-only and read-write.       *)
EXTENDS MountExecutor

MCReadOnly == {1, 3, 5, 6}
MCAllFaults == {"bind", "remount", "umount"}
=============================================================================
