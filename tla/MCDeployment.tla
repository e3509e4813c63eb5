---------------------------- MODULE MCDeployment ----------------------------
(* Deployment on small instances.                                          *)
EXTENDS Deployment

(* Three commits, the second with a new revision.                          *)
MCCommits == 1..3
MCHead == <<1, 2, 2>>

=============================================================================
