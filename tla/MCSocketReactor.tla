---------------------------- MODULE MCSocketReactor ----------------------------
(* SocketReactor on a small instance. *)
EXTENDS SocketReactor, TLC

MCObjects == Acceptors \cup Sockets \cup (Notifiers \X {"key", "socket"})

(* Nothing here reads the history of copies, so states are told apart      *)
(* without it.                                                             *)
View == <<open, nonblock, sockfd, blocking, own, overwritten, reactorVars>>

Symmetry == Permutations(Threads) \cup Permutations(Acceptors) \cup Permutations(Notifiers)
=============================================================================
