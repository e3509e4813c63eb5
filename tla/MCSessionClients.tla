-------------------------- MODULE MCSessionClients --------------------------
(* SessionClients on small instances.                                      *)
EXTENDS SessionClients, TLC

CONSTANTS u1, phone, laptop

(* One user with a session on each device.                                 *)
MCInitOwner == <<u1, u1>>

MCUserOf == [c \in Clients |-> u1]

MCFirstToken == [c \in Clients |-> IF c = phone THEN 1 ELSE 2]

MCMayDelete == {<<u1, u1>>}

=============================================================================
