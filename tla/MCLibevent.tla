------------------------------ MODULE MCLibevent ------------------------------
(* LibeventServer with one client that sends and one that only connects,   *)
(* hangs up or resets.                                                     *)
EXTENDS LibeventServer

CONSTANTS c1, c2

MCClients  == {c1, c2}
MCMaxBytes == [c \in MCClients |-> IF c = c1 THEN 3 ELSE 0]
=============================================================================
