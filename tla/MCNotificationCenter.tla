------------------------- MODULE MCNotificationCenter -------------------------
(* NotificationCenter with threads, targets and clones that are            *)
(* interchangeable.                                                        *)
EXTENDS NotificationCenter, TLC

Symmetry == Permutations(Threads) \cup Permutations(Targets) \cup Permutations(Ids)
=============================================================================
