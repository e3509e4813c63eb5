--------------------------- MODULE MCAccessRules ----------------------------
(* AccessRules on small instances.                                         *)
EXTENDS AccessRules, TLC

CONSTANTS t1, t2, ghost

(* Rule 1 is there and allows; ids from 2 on are drawn by the requests,    *)
(* and other requests may name 2 and 3.                                    *)
MCInitRules == <<t1>>
MCInitAllowed == {1}

Create(t, v) == [kind |-> "create", triple |-> t, id |-> 0, value |-> v]
On(kind, i, v) == [kind |-> kind, triple |-> NoTriple, id |-> i, value |-> v]

MCJobs ==
  { Create(t, v) : t \in {t1, t2}, v \in BOOLEAN } \cup { Create(ghost, TRUE) } \cup
  { On("update", i, v) : i \in 1 .. 3, v \in BOOLEAN } \cup
  { On("delete", i, FALSE) : i \in 1 .. 3 }

ReqSymmetry == Permutations(Reqs)

=============================================================================
