---------------------------- MODULE MCSimpleServer ----------------------------
(* SimpleServer on small instances: the configurations are in the .cfg     *)
(* files.                                                                  *)
EXTENDS SimpleServer, TLC

(* Neither connections nor descriptors are ordered by anything the server  *)
(* does.  Used by the runs without liveness properties only.               *)
Symmetry == Permutations(Conns) \cup Permutations(Fds)
=============================================================================
