--------------------------- MODULE MCControllerLive ---------------------------
(***************************************************************************)
(* Runs that wait for each other, in two parts that differ in who they are.*)
(* "crowd": two runs of different tasks on one repository and a third on   *)
(* another, with two slots: one run waits for the mutex with the last slot *)
(* in its hands, cancelled or not, and the third waits behind both.        *)
(* "retries": two runs and a maintenance user on one repository, with a    *)
(* retry and a restart.                                                    *)
(***************************************************************************)
EXTENDS Naturals, TLC

CONSTANTS q1, q2, q3, u1, tA, tB, tC, rA, rB, Nobody

VARIABLES
  part,
  pc, cancelled, runningTasks, global, mutex, lock, attempts, result, record, restarts

allVars == <<part, pc, cancelled, runningTasks, global, mutex, lock, attempts, result, record,
             restarts>>

Crowd == INSTANCE RunController WITH
  Requests <- {q1, q2, q3}, Users <- {}, Tasks <- {tA, tB, tC}, Repositories <- {rA, rB},
  TaskOf <- (q1 :> tA) @@ (q2 :> tB) @@ (q3 :> tC),
  RepositoryOf <- (q1 :> rA) @@ (q2 :> rA) @@ (q3 :> rB),
  MaxParallel <- 2, MaxAttempts <- 1, MaxRestarts <- 0, None <- Nobody

Retries == INSTANCE RunController WITH
  Requests <- {q1, q2}, Users <- {u1}, Tasks <- {tA, tB}, Repositories <- {rA},
  TaskOf <- (q1 :> tA) @@ (q2 :> tB),
  RepositoryOf <- (q1 :> rA) @@ (q2 :> rA) @@ (u1 :> rA),
  MaxParallel <- 2, MaxAttempts <- 2, MaxRestarts <- 1, None <- Nobody

MCInit ==
  \/ part = "crowd" /\ Crowd!Init
  \/ part = "retries" /\ Retries!Init

InCrowd(A) == part = "crowd" /\ A /\ part' = part
InRetries(A) == part = "retries" /\ A /\ part' = part

MCNext == InCrowd(Crowd!Next) \/ InRetries(Retries!Next)

(* The fairness of the controller, in whichever part is checked.           *)
Runs(q) ==
  \/ InCrowd(Crowd!Runs(q))
  \/ q # q3 /\ InRetries(Retries!Runs(q))

Waits(q) ==
  \/ InCrowd(Crowd!Waits(q))
  \/ q # q3 /\ InRetries(Retries!Waits(q))

MCSpec ==
  /\ MCInit /\ [][MCNext]_allVars
  /\ \A q \in {q1, q2, q3} : WF_allVars(Runs(q)) /\ SF_allVars(Waits(q))
  /\ WF_allVars(InRetries(Retries!UserLeave(u1)))

-----------------------------------------------------------------------------
(* Every run that was started ends, although it waits in turn for a slot   *)
(* another repository's run may hold, for a mutex whose wait a cancelled   *)
(* context does not interrupt (run/controller.go:108), and for a lock.     *)
EveryRunEnds ==
  \A q \in {q1, q2, q3} :
    (q \in DOMAIN pc /\ pc[q] = "started") ~> (q \in DOMAIN pc /\ pc[q] = "done")
===============================================================================
