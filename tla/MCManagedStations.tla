------------------------- MODULE MCManagedStations -------------------------
(* Instances of ManagedStations for TLC: any goroutine serves any request. *)
EXTENDS ManagedStations, TLC

AllRequests  == {"create", "delete", "start", "stop", "restart", "put"}
ProcSymmetry == Permutations(Procs)

=============================================================================
