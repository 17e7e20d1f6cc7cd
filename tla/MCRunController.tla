--------------------------- MODULE MCRunController ---------------------------
(* Three runs of two tasks on two repositories, and one maintenance user.  *)
EXTENDS RunController, TLC

CONSTANTS q1, q2, q3, u1, tA, tB, rA, rB

const_TaskOf == (q1 :> tA) @@ (q2 :> tA) @@ (q3 :> tB)
const_RepositoryOf == (q1 :> rA) @@ (q2 :> rA) @@ (q3 :> rB) @@ (u1 :> rA)

(* q1 and q2 run the same task on the same repository. *)
Symmetry == Permutations({q1, q2})

=============================================================================
