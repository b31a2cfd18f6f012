---------------------------- MODULE MCHostPacing ----------------------------
(* HostPacing with more hosts than the table has room for. *)
EXTENDS HostPacing, TLC

Alike == Permutations(Hosts) \cup Permutations(Fetches)
=============================================================================
