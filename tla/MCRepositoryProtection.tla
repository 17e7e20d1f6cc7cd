------------------------ MODULE MCRepositoryProtection ------------------------
(***************************************************************************)
(* What is protected: the partial snapshots of a repository whose task runs*)
(* on the control service, or on an Agent.  The initial state picks the     *)
(* part that is checked.                                                   *)
(***************************************************************************)
EXTENDS RepositoryProtection, TLC

CONSTANTS r1, r2, m1, c1, e1

VARIABLE part    \* the part that is checked

Agent == INSTANCE RepositoryProtection WITH
  Runs <- {}, AgentRuns <- Runs, Connectors <- {}, Editors <- {e1}, MaxAttempts <- 1

Symmetry == Permutations({r1, r2})

MCInit ==
  \/ part = "local" /\ Init
  \/ part = "agent" /\ Agent!Init

MCNext ==
  /\ part' = part
  /\ \/ part = "local" /\ Next
     \/ part = "agent" /\ Agent!Next

MCSpec == MCInit /\ [][MCNext]_<<part, vars>>

(* Retention and snapshots of an Agent are not ordered by the lock.        *)
LocalPartialsKept == part = "local" => PartialsKept
=============================================================================
