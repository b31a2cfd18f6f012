--------------------------- MODULE MCRunLifecycle ---------------------------
(* RunLifecycle for TLC: the .cfg files choose how many runs, tasks and
   requests there are. *)
EXTENDS RunLifecycle, TLC

(* Runs, task slots and request slots are interchangeable: sound for the
   safety runs, not used by the liveness runs. *)
Interchangeable ==
  Permutations(Runs) \cup Permutations(Workers) \cup Permutations(Handlers)
=============================================================================
