------------------------ MODULE MCFirecrackerDaemon -------------------------
(* Instances of FirecrackerDaemon for TLC. *)
EXTENDS FirecrackerDaemon, TLC

(* The goroutines that serve DELETEs are alike; used for safety runs only. *)
DeleterSymmetry == Permutations(Deleters)

=============================================================================
