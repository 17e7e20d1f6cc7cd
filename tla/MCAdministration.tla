--------------------------- MODULE MCAdministration ---------------------------
(***************************************************************************)
(* The components of Administration on small instances, in one run: the    *)
(* initial state picks a part, and only its steps follow.                  *)
(***************************************************************************)
EXTENDS Administration, TLC

CONSTANTS h1, g1, r1, c1, t1, t2, p1, o1, w1, w2, form3, s1, s2, v1

VARIABLE part    \* the part that is checked

(* The service's own machine, and S3, as places.                          *)
Control == "control"
S3      == "s3"

(* A repository on an Agent or on a host, and tasks on either side that    *)
(* use it, or the host.                                                    *)
Source(kind, place, repo, host, conn) ==
  [kind |-> kind, place |-> place, repo |-> repo, host |-> host, conn |-> conn]

MCRepositoryForms ==
  {[engine |-> "rsync", place |-> g1], [engine |-> "restic", place |-> h1]}

MCTaskForms ==
  {Source("directory", g1, r1, None, None), Source("directory", Control, r1, None, None),
   Source("rsync", Control, None, h1, None)}

(* A repository that is moved to S3 and back, with a second secret, and a  *)
(* task that dumps a database into it, with the secret of a connection.    *)
Backends == INSTANCE ResourceReferences WITH
  Hosts <- {}, Agents <- {}, Conns <- {c1}, Tasks <- {t1}, tasks <- taskRows,
  RepositoryForms <- {[engine |-> "restic", place |-> S3],
                      [engine |-> "restic", place |-> Control]},
  TaskForms <- {Source("database", Control, r1, None, c1)}

ASSUME Backends!IdsAssumption

(* Secrets, and certificates, which take their names, are told apart by    *)
(* nothing but who refers to them.                                         *)
Symmetry == Permutations(Secrets)

(* Two tasks, a plan, its occurrences and work: what hangs on what.  The   *)
(* instance that is extended is one task that takes three forms: what      *)
(* confirms and verifies it.                                               *)
Links == INSTANCE TaskWork WITH
  Tasks <- {t1, t2}, Plans <- {p1}, Occurrences <- {o1}, Works <- {w1},
  Forms <- {form3}, Scoped <- {}, Verifiable <- {}, MaxCalls <- 1

-----------------------------------------------------------------------------

(* What is installed at first: the versions that work are alike, and there *)
(* is no Restic.                                                           *)
FirstInstalled == active = None \/ (tool = "agent" /\ active = v1)

(* Ids of work are alike, and given out in this order.                     *)
InOrder == w2 \in used' => w1 \in used'

taskVars == <<tasks, previews, policies, plans, occurrences, works, launched>>

MCInit ==
  /\ part \in {"references", "backends", "links", "scopes", "identity", "installation",
               "endpoint"}
  /\ Init /\ References!Init /\ Identity!Init /\ Endpoint!Init
  /\ ToolInit /\ FirstInstalled
  /\ part # "installation" => tool = "agent" /\ active = None

MCNext ==
  /\ part' = part
  /\ \/ /\ part = "references" /\ References!Next
        /\ UNCHANGED <<taskVars, identityVars, toolVars, endpointVars>>
     \/ /\ part = "backends" /\ Backends!Next
        /\ UNCHANGED <<taskVars, identityVars, toolVars, endpointVars>>
     \/ /\ part = "links" /\ Links!Next
        /\ UNCHANGED <<referenceVars, identityVars, toolVars, endpointVars>>
     \/ /\ part = "scopes" /\ Next /\ InOrder
        /\ UNCHANGED <<referenceVars, identityVars, toolVars, endpointVars>>
     \/ /\ part = "identity" /\ Identity!Next
        /\ UNCHANGED <<vars, referenceVars, toolVars, endpointVars>>
     \/ /\ part = "installation" /\ ToolNext
        /\ UNCHANGED <<vars, referenceVars, identityVars, endpointVars>>
     \/ /\ part = "endpoint" /\ Endpoint!Next
        /\ UNCHANGED <<vars, referenceVars, identityVars, hostVars, tool>>

allVars == <<part, vars, referenceVars, identityVars, toolVars, endpointVars>>

MCSpec == MCInit /\ [][MCNext]_allVars
=============================================================================
