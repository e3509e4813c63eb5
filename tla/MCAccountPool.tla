---------------------------- MODULE MCAccountPool ----------------------------
(* AccountPool on a small instance.                                        *)
EXTENDS AccountPool, TLC

CONSTANTS a, b, x, y, n, r1, r2, r3, r4

MCInitMail == <<a, b>>

Patch(u, e) == [kind |-> "update", user |-> u, email |-> e, name |-> Unset]
Register(e) == [kind |-> "register", user |-> 0, email |-> e, name |-> n]

(* The first two requests can wait for each other when the others move     *)
(* each account to the email that the other one is to have.                *)
MCAsks ==
  r1 :> {Patch(1, y)} @@ r2 :> {Patch(2, x)} @@
  r3 :> {Patch(1, x), Register(x)} @@ r4 :> {Patch(2, y)}

MCJobs == UNION {MCAsks[r] : r \in Reqs}

=============================================================================
