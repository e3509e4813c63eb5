--------------------------- MODULE MCAuthSessions ---------------------------
(* AuthSessions on small instances.                                        *)
EXTENDS AuthSessions, TLC

CONSTANTS u1, u2

(* u1 has two sessions, u2 none.                                           *)
MCInitOwner == <<u1, u1>>

(* A user deletes herself; u2 is an administrator who may delete u1.       *)
MCMayDelete == {<<u1, u1>>, <<u2, u1>>}

ReqSymmetry == Permutations(Reqs)

=============================================================================
