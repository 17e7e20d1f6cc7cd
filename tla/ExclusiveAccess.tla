--------------------------- MODULE ExclusiveAccess ---------------------------
(***************************************************************************)
(* What the callers of repolock.Registry.With rely on: operations on one   *)
(* repository never overlap, and operations on different repositories do   *)
(* not wait for each other.  There is no task flag, slot, mutex or channel *)
(* here; RunController implements this specification.                      *)
(***************************************************************************)
CONSTANTS Actors, Repositories, RepositoryOf

VARIABLE working   \* the actors at work on each repository

Init == working = [r \in Repositories |-> {}]

Enter(a) ==
  /\ working[RepositoryOf[a]] = {}
  /\ working' = [working EXCEPT ![RepositoryOf[a]] = {a}]

Leave(a) ==
  /\ a \in working[RepositoryOf[a]]
  /\ working' = [working EXCEPT ![RepositoryOf[a]] = @ \ {a}]

(* The process stops: nobody works on anything any more.                   *)
Stop == working' = [r \in Repositories |-> {}]

Next == (\E a \in Actors : Enter(a) \/ Leave(a)) \/ Stop

Spec == Init /\ [][Next]_working

=============================================================================
