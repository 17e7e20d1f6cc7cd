-------------------------- MODULE AgentLeaseProofs --------------------------
(***************************************************************************)
(* Proofs about AgentLease, for any number of runs and Agents and whatever *)
(* bounds on restarts, crashes and store faults: one lemma per part of the *)
(* inductive invariant, one step per action that can disturb it.  And      *)
(* about Restore, for any requests, confirmations and snapshots: one lemma *)
(* per action.                                                             *)
(***************************************************************************)
EXTENDS Restores, TLAPS

(* Types are preserved.                                                    *)
LEMMA TypeOKStep == ASSUME IInv, [Next]_vars PROVE TypeOK'
<1> USE ParametersAssumption DEF TypeOK, WaiterAccounted, ResultsMeanOutcomes
<1>0. TypeOK /\ WaiterAccounted /\ ResultsMeanOutcomes
  BY DEF IInv
<1>1. ASSUME NEW r \in Runs, StartRun(r) PROVE TypeOK'
  BY <1>0, <1>1 DEF StartRun, service, managed, bounds, Finished, Messages,
         LeaseStates, agents
<1>2. ASSUME NEW r \in Runs, CreateLease(r) PROVE TypeOK'
  BY <1>0, <1>2 DEF CreateLease, NoFault, Fault, Finished, Messages,
         LeaseStates, agents, managed, bounds
<1>3. ASSUME NEW r \in Runs, PollLease(r) PROVE TypeOK'
  BY <1>0, <1>3 DEF PollLease, NoFault, Fault, Active, Finished, Messages,
         LeaseStates, agents, managed, bounds
<1>4. ASSUME NEW r \in Runs, CancelRun(r) PROVE TypeOK'
  BY <1>0, <1>4 DEF CancelRun, Finished, Messages, LeaseStates, agents, managed,
         bounds
<1>5. ASSUME NEW r \in Runs, Expire(r) PROVE TypeOK'
  BY <1>0, <1>5 DEF Expire, ExpireLease, NoFault, Fault, Finished, Messages,
         LeaseStates, agents, managed, bounds
<1>6. ASSUME NEW r \in Runs, FinishRun(r) PROVE TypeOK'
  BY <1>0, <1>6 DEF FinishRun, NoFault, Fault, Finished, Messages, LeaseStates,
         agents, managed, bounds
<1>7. ASSUME NEW r \in Runs, Lapse(r) PROVE TypeOK'
  BY <1>0, <1>7 DEF Lapse, Active, Finished, Messages, LeaseStates, service,
         agents, managed, bounds
<1>8. ASSUME NEW r \in Runs, ReceiveProgress(r) PROVE TypeOK'
  BY <1>0, <1>8 DEF ReceiveProgress, Renewable, Finished, Messages, LeaseStates,
         service, agents, managed, bounds
<1>9. ASSUME NEW r \in Runs, ReceiveResult(r) PROVE TypeOK'
  BY <1>0, <1>9 DEF ReceiveResult, Completable, Answer, Rejected, ToIdle,
         NoFault, Fault, Finished, Messages, LeaseStates, service, managed,
         bounds
<1>10. ASSUME NEW a \in Agents, NEW r \in Runs, ClaimLease(a, r) PROVE TypeOK'
  BY <1>0, <1>10 DEF ClaimLease, Claimable, Finished, Messages, LeaseStates,
         service, managed, bounds
<1>11. ASSUME NEW a \in Agents, Hydrate(a) PROVE TypeOK'
  BY <1>0, <1>11 DEF Hydrate, ToIdle, Finished, Messages, LeaseStates, service,
         managed, bounds
<1>12. ASSUME NEW a \in Agents, HydrateFails(a) PROVE TypeOK'
  BY <1>0, <1>12 DEF HydrateFails, ToIdle, NoFault, Fault, Finished, Messages,
         LeaseStates, service, managed, bounds
<1>13. ASSUME NEW a \in Agents, Begin(a) PROVE TypeOK'
  BY <1>0, <1>13 DEF Begin, Finished, Messages, LeaseStates, service, managed,
         bounds
<1>14. ASSUME NEW a \in Agents, Execute(a) PROVE TypeOK'
  BY <1>0, <1>14 DEF Execute, Finished, Messages, LeaseStates, service, managed,
         bounds
<1>15. ASSUME NEW a \in Agents, SendProgress(a) PROVE TypeOK'
  BY <1>0, <1>15 DEF SendProgress, Send, Finished, Messages, LeaseStates,
         service, agents, managed, bounds
<1>16. ASSUME NEW a \in Agents, SendResult(a) PROVE TypeOK'
  BY <1>0, <1>16 DEF SendResult, Send, Finished, Messages, LeaseStates, service,
         agents, managed, bounds
<1>17. ASSUME NEW a \in Agents, AgentCrash(a) PROVE TypeOK'
  BY <1>0, <1>17 DEF AgentCrash, ToIdle, Finished, Messages, LeaseStates,
         service, managed
<1>18. ASSUME NEW a \in Agents, BeginDrain(a) PROVE TypeOK'
  BY <1>0, <1>18 DEF BeginDrain, Finished, Messages, LeaseStates, service,
         agents, bounds
<1>19. ASSUME NEW a \in Agents, Drained(a) PROVE TypeOK'
  BY <1>0, <1>19 DEF Drained, ActiveWork, Finished, Messages, LeaseStates,
         service, agents, bounds
<1>20. ASSUME NEW a \in Agents, RestartAgent(a) PROVE TypeOK'
  BY <1>0, <1>20 DEF RestartAgent, ToIdle, Finished, Messages, LeaseStates,
         service, bounds
<1>21. ASSUME NEW a \in Agents, EndDrain(a) PROVE TypeOK'
  BY <1>0, <1>21 DEF EndDrain, NoFault, Fault, Finished, Messages, LeaseStates,
         service, agents, bounds
<1>22. ASSUME NEW a \in Agents, RevokeAgent(a) PROVE TypeOK'
  BY <1>0, <1>22 DEF RevokeAgent, Finished, Messages, LeaseStates, service,
         agents, bounds
<1>23. ASSUME NEW m \in net, Lose(m) PROVE TypeOK'
  BY <1>0, <1>23 DEF Lose, Finished, Messages, LeaseStates, service, agents,
         managed, bounds
<1>24. ASSUME Restart PROVE TypeOK'
  BY <1>0, <1>24 DEF Restart, Finished, Messages, LeaseStates
<1>25. CASE UNCHANGED vars
  BY <1>0, <1>25 DEF vars, service, agents, managed, bounds
<1> QED
  BY <1>1, <1>2, <1>3, <1>4, <1>5, <1>6, <1>7, <1>8, <1>9, <1>10, <1>11, <1>12,
         <1>13, <1>14, <1>15, <1>16, <1>17, <1>18, <1>19, <1>20, <1>21, <1>22,
         <1>23, <1>24, <1>25
  DEF Next, WaiterStep, AgentStep, ManagerStep, vars, service, agents, managed,
         bounds

(* Only Begin executes, and only what has not been executed.               *)
LEMMA AtMostOnceStep == ASSUME IInv, [Next]_vars PROVE AtMostOnce'
<1> USE DEF AtMostOnce, StepAccounted
<1>0. /\ AtMostOnce /\ StepAccounted
      /\ executions \in [Runs -> Nat]
      /\ job \in [Agents -> Runs \cup {None}]
      /\ phase \in [Agents -> {"idle", "leasing", "assigned", "executing", "delivering"}]
      /\ \A a \in Agents : /\ job[a] = None <=> phase[a] = "idle"
                           /\ job[a] # None => job[a] \in Runs /\ AgentOf[job[a]] = a
      /\ AgentOf \in [Runs -> Agents] /\ None \notin Runs
  BY ParametersAssumption DEF IInv, TypeOK
<1>1. ASSUME NEW a \in Agents, Begin(a) PROVE AtMostOnce'
  <2>1. job[a] \in Runs /\ executions[job[a]] = 0
    BY <1>0, <1>1 DEF Begin
  <2>2. executions' = executions \/ executions' = [executions EXCEPT ![job[a]] = 1]
    BY <2>1, <1>1 DEF Begin
  <2>3. \A s \in Runs : executions'[s] = executions[s] \/ executions'[s] = 1
    BY <1>0, <2>2
  <2> QED
    BY <1>0, <2>3
<1>2. ASSUME UNCHANGED <<executions>> PROVE AtMostOnce'
  BY <1>0, <1>2 DEF Finished
<1> QED
  BY <1>1, <1>2
  DEF Next, WaiterStep, AgentStep, ManagerStep, StartRun, service, managed,
         bounds, CreateLease, NoFault, Fault, PollLease, Active, CancelRun,
         Expire, ExpireLease, FinishRun, Lapse, ReceiveProgress, Renewable,
         ReceiveResult, Completable, Answer, Rejected, ToIdle, ClaimLease,
         Claimable, Hydrate, HydrateFails, Execute, SendProgress, Send,
         SendResult, AgentCrash, BeginDrain, Drained, ActiveWork, RestartAgent,
         EndDrain, RevokeAgent, Lose, Restart, vars, agents

(* A row is finished from the verdict, the verdict is read from the lease. *)
LEMMA SuccessIsRealStep == ASSUME IInv, [Next]_vars PROVE SuccessIsReal'
<1> USE DEF SuccessIsReal, StepAccounted, WaiterAccounted, LeasesMeanOutcomes
<1>0. /\ SuccessIsReal /\ StepAccounted /\ WaiterAccounted /\ LeasesMeanOutcomes
      /\ record \in [Runs -> {"absent", "running"} \cup Finished]
      /\ outcome \in [Runs -> {"none"} \cup Finished]
      /\ lease \in [Runs -> LeaseStates]
      /\ job \in [Agents -> Runs \cup {None}]
      /\ phase \in [Agents -> {"idle", "leasing", "assigned", "executing", "delivering"}]
      /\ \A a \in Agents : /\ job[a] = None <=> phase[a] = "idle"
                           /\ job[a] # None => job[a] \in Runs /\ AgentOf[job[a]] = a
      /\ AgentOf \in [Runs -> Agents] /\ None \notin Runs
  BY ParametersAssumption DEF IInv, TypeOK
<1>1. ASSUME NEW r \in Runs, StartRun(r) PROVE SuccessIsReal'
  BY <1>0, <1>1 DEF StartRun, service, managed, bounds, Finished, agents
<1>2. ASSUME NEW r \in Runs, CreateLease(r) PROVE SuccessIsReal'
  BY <1>0, <1>2 DEF CreateLease, Finished, agents
<1>3. ASSUME NEW r \in Runs, Expire(r) PROVE SuccessIsReal'
  BY <1>0, <1>3 DEF Expire, ExpireLease, Finished, agents
<1>4. ASSUME NEW r \in Runs, FinishRun(r) PROVE SuccessIsReal'
  <2>1. waiter[r] = "finishing" /\ verdict[r] \in Finished /\ UNCHANGED <<lease, outcome>>
    BY <1>0, <1>4 DEF FinishRun, agents
  <2>2. \/ record' = record
        \/ record' = [record EXCEPT ![r] = verdict[r]]
        \/ record' = [record EXCEPT ![r] = "failed"]
    BY <1>4 DEF FinishRun
  <2>3. \A s \in Runs : \/ record'[s] = record[s]
                        \/ record'[s] = "failed"
                        \/ s = r /\ record'[s] = verdict[r]
    BY <1>0, <2>2
  <2> QED
    BY <1>0, <2>1, <2>3 DEF Finished
<1>5. ASSUME NEW r \in Runs, ReceiveResult(r) PROVE SuccessIsReal'
  BY <1>0, <1>5 DEF ReceiveResult, Completable, Answer, Rejected, ToIdle,
         Finished, service
<1>6. ASSUME NEW a \in Agents, NEW r \in Runs, ClaimLease(a, r)
      PROVE  SuccessIsReal'
  BY <1>0, <1>6 DEF ClaimLease, Claimable, Finished, service
<1>7. ASSUME NEW a \in Agents, HydrateFails(a) PROVE SuccessIsReal'
  BY <1>0, <1>7 DEF HydrateFails, ToIdle, Finished, service
<1>8. ASSUME NEW a \in Agents, Begin(a) PROVE SuccessIsReal'
  <2>1. job[a] \in Runs /\ outcome[job[a]] = "none"
    BY <1>0, <1>8 DEF Begin
  <2>2. \A s \in Runs : s # job[a] => outcome'[s] = outcome[s]
    BY <1>0, <2>1, <1>8 DEF Begin
  <2>3. UNCHANGED <<record, lease>>
    BY <1>8 DEF Begin, service
  <2> QED
    BY <1>0, <2>1, <2>2, <2>3 DEF Finished
<1>9. ASSUME NEW a \in Agents, Execute(a) PROVE SuccessIsReal'
  <2>1. job[a] \in Runs /\ outcome[job[a]] = "none"
    BY <1>0, <1>9 DEF Execute
  <2>2. \A s \in Runs : s # job[a] => outcome'[s] = outcome[s]
    BY <1>0, <2>1, <1>9 DEF Execute
  <2>3. UNCHANGED <<record, lease>>
    BY <1>9 DEF Execute, service
  <2> QED
    BY <1>0, <2>1, <2>2, <2>3 DEF Finished
<1>10. ASSUME Restart PROVE SuccessIsReal'
  BY <1>0, <1>10 DEF Restart, Finished
<1>11. ASSUME UNCHANGED <<record, outcome, lease>> PROVE SuccessIsReal'
  BY <1>0, <1>11 DEF Finished
<1> QED
  BY <1>1, <1>2, <1>3, <1>4, <1>5, <1>6, <1>7, <1>8, <1>9, <1>10, <1>11
  DEF Next, WaiterStep, AgentStep, ManagerStep, PollLease, NoFault, Fault,
         Active, CancelRun, Lapse, ReceiveProgress, Renewable, Hydrate, ToIdle,
         SendProgress, Send, SendResult, AgentCrash, BeginDrain, Drained,
         ActiveWork, RestartAgent, EndDrain, RevokeAgent, Lose, vars, service,
         agents, managed, bounds

(* A waiter finishes a run when its lease is completed.                    *)
LEMMA RunEndsWithLeaseStep == ASSUME IInv, [Next]_vars PROVE RunEndsWithLease'
<1> USE DEF RunEndsWithLease, WaiterAccounted
<1>0. /\ RunEndsWithLease /\ WaiterAccounted
      /\ restarts \in Nat
      /\ faults \in Nat
      /\ record \in [Runs -> {"absent", "running"} \cup Finished]
      /\ lease \in [Runs -> LeaseStates]
  BY ParametersAssumption DEF IInv, TypeOK
<1>1. ASSUME NEW r \in Runs, StartRun(r) PROVE RunEndsWithLease'
  BY <1>0, <1>1 DEF StartRun, service, managed, bounds, Finished
<1>2. ASSUME NEW r \in Runs, CreateLease(r) PROVE RunEndsWithLease'
  BY <1>0, <1>2 DEF CreateLease, NoFault, Fault, Finished, bounds
<1>3. ASSUME NEW r \in Runs, PollLease(r) PROVE RunEndsWithLease'
  BY <1>0, <1>3 DEF PollLease, NoFault, Fault, Active, Finished, bounds
<1>4. ASSUME NEW r \in Runs, Expire(r) PROVE RunEndsWithLease'
  BY <1>0, <1>4 DEF Expire, ExpireLease, NoFault, Fault, Finished, bounds
<1>5. ASSUME NEW r \in Runs, FinishRun(r) PROVE RunEndsWithLease'
  BY <1>0, <1>5 DEF FinishRun, NoFault, Fault, Finished, bounds
<1>6. ASSUME NEW r \in Runs, ReceiveResult(r) PROVE RunEndsWithLease'
  BY <1>0, <1>6 DEF ReceiveResult, Completable, NoFault, Fault, Finished,
         service, bounds
<1>7. ASSUME NEW a \in Agents, NEW r \in Runs, ClaimLease(a, r)
      PROVE  RunEndsWithLease'
  BY <1>0, <1>7 DEF ClaimLease, Claimable, Finished, service, bounds
<1>8. ASSUME NEW a \in Agents, HydrateFails(a) PROVE RunEndsWithLease'
  BY <1>0, <1>8 DEF HydrateFails, NoFault, Fault, Finished, service, bounds
<1>9. ASSUME NEW a \in Agents, EndDrain(a) PROVE RunEndsWithLease'
  BY <1>0, <1>9 DEF EndDrain, NoFault, Fault, Finished, service, bounds
<1>10. ASSUME Restart PROVE RunEndsWithLease'
  BY <1>0, <1>10 DEF Restart, Finished
<1>11. ASSUME UNCHANGED <<restarts, faults, record, lease>> PROVE RunEndsWithLease'
  BY <1>0, <1>11 DEF Finished
<1> QED
  BY <1>1, <1>2, <1>3, <1>4, <1>5, <1>6, <1>7, <1>8, <1>9, <1>10, <1>11
  DEF Next, WaiterStep, AgentStep, ManagerStep, CancelRun, Lapse, Active,
         ReceiveProgress, Renewable, Hydrate, ToIdle, Begin, Execute,
         SendProgress, Send, SendResult, AgentCrash, BeginDrain, Drained,
         ActiveWork, RestartAgent, RevokeAgent, Lose, vars, service, agents,
         managed, bounds

(* Only a claim makes an assignment of a queued lease.                     *)
LEMMA UnclaimedUntouchedStep == ASSUME IInv, [Next]_vars PROVE UnclaimedUntouched'
<1> USE DEF UnclaimedUntouched, WaiterAccounted
<1>0. /\ UnclaimedUntouched /\ WaiterAccounted
      /\ lease \in [Runs -> LeaseStates]
      /\ executions \in [Runs -> Nat]
      /\ outcome \in [Runs -> {"none"} \cup Finished]
      /\ job \in [Agents -> Runs \cup {None}]
      /\ phase \in [Agents -> {"idle", "leasing", "assigned", "executing", "delivering"}]
      /\ \A a \in Agents : /\ job[a] = None <=> phase[a] = "idle"
                           /\ job[a] # None => job[a] \in Runs /\ AgentOf[job[a]] = a
      /\ AgentOf \in [Runs -> Agents] /\ None \notin Runs
  BY ParametersAssumption DEF IInv, TypeOK
<1>1. ASSUME NEW r \in Runs, CreateLease(r) PROVE UnclaimedUntouched'
  BY <1>0, <1>1 DEF CreateLease, agents
<1>2. ASSUME NEW r \in Runs, Expire(r) PROVE UnclaimedUntouched'
  BY <1>0, <1>2 DEF Expire, ExpireLease, Finished, agents
<1>3. ASSUME NEW r \in Runs, ReceiveProgress(r) PROVE UnclaimedUntouched'
  BY <1>0, <1>3 DEF ReceiveProgress, Renewable, agents
<1>4. ASSUME NEW r \in Runs, ReceiveResult(r) PROVE UnclaimedUntouched'
  BY <1>0, <1>4 DEF ReceiveResult, Completable, Answer, Rejected, ToIdle,
         Finished
<1>5. ASSUME NEW a \in Agents, NEW r \in Runs, ClaimLease(a, r)
      PROVE  UnclaimedUntouched'
  BY <1>0, <1>5 DEF ClaimLease, Claimable
<1>6. ASSUME NEW a \in Agents, Hydrate(a) PROVE UnclaimedUntouched'
  BY <1>0, <1>6 DEF Hydrate, ToIdle
<1>7. ASSUME NEW a \in Agents, HydrateFails(a) PROVE UnclaimedUntouched'
  BY <1>0, <1>7 DEF HydrateFails, ToIdle, Finished
<1>8. ASSUME NEW a \in Agents, Begin(a) PROVE UnclaimedUntouched'
  BY <1>0, <1>8 DEF Begin, Finished
<1>9. ASSUME NEW a \in Agents, Execute(a) PROVE UnclaimedUntouched'
  BY <1>0, <1>9 DEF Execute, Finished
<1>10. ASSUME NEW a \in Agents, SendProgress(a) PROVE UnclaimedUntouched'
  BY <1>0, <1>10 DEF SendProgress, Send, agents
<1>11. ASSUME NEW a \in Agents, SendResult(a) PROVE UnclaimedUntouched'
  BY <1>0, <1>11 DEF SendResult, Send, agents
<1>12. ASSUME NEW a \in Agents, AgentCrash(a) PROVE UnclaimedUntouched'
  BY <1>0, <1>12 DEF AgentCrash, ToIdle
<1>13. ASSUME NEW a \in Agents, RestartAgent(a) PROVE UnclaimedUntouched'
  BY <1>0, <1>13 DEF RestartAgent, ToIdle
<1>14. ASSUME NEW m \in net, Lose(m) PROVE UnclaimedUntouched'
  BY <1>0, <1>14 DEF Lose, agents
<1>15. ASSUME Restart PROVE UnclaimedUntouched'
  <2>1. /\ net' = {} /\ UNCHANGED <<lease, executions, outcome>>
        /\ \A a \in Agents : job'[a] = job[a] \/ job'[a] = None
    BY <1>0, <1>15 DEF Restart
  <2>2. ASSUME NEW s \in Runs, lease[s] \in {"absent", "queued"}, NEW a \in Agents
        PROVE  job'[a] # s
    <3>1. job[a] # s
      BY <1>0, <2>2
    <3>2. None # s
      BY <1>0
    <3> QED BY <2>1, <3>1, <3>2
  <2> QED
    BY <1>0, <2>1, <2>2
<1>16. ASSUME UNCHANGED <<lease, executions, outcome, job, net>> PROVE UnclaimedUntouched'
  BY <1>0, <1>16 DEF Finished
<1> QED
  BY <1>1, <1>2, <1>3, <1>4, <1>5, <1>6, <1>7, <1>8, <1>9, <1>10, <1>11, <1>12,
         <1>13, <1>14, <1>15, <1>16
  DEF Next, WaiterStep, AgentStep, ManagerStep, StartRun, service, managed,
         bounds, PollLease, NoFault, Fault, Active, CancelRun, FinishRun, Lapse,
         BeginDrain, Drained, ActiveWork, EndDrain, RevokeAgent, vars, agents

(* An Agent goes through its step with one assignment of its own.          *)
LEMMA StepAccountedStep == ASSUME IInv, [Next]_vars PROVE StepAccounted'
<1> USE DEF StepAccounted, UnclaimedUntouched, ResultsMeanOutcomes
<1>0. /\ StepAccounted /\ UnclaimedUntouched /\ ResultsMeanOutcomes
      /\ phase \in [Agents -> {"idle", "leasing", "assigned", "executing", "delivering"}]
      /\ executions \in [Runs -> Nat]
      /\ outcome \in [Runs -> {"none"} \cup Finished]
      /\ job \in [Agents -> Runs \cup {None}]
      /\ \A a \in Agents : /\ job[a] = None <=> phase[a] = "idle"
                           /\ job[a] # None => job[a] \in Runs /\ AgentOf[job[a]] = a
      /\ AgentOf \in [Runs -> Agents] /\ None \notin Runs
  BY ParametersAssumption DEF IInv, TypeOK
<1>1. ASSUME NEW r \in Runs, ReceiveProgress(r) PROVE StepAccounted'
  BY <1>0, <1>1 DEF ReceiveProgress, Renewable, agents
<1>2. ASSUME NEW r \in Runs, ReceiveResult(r) PROVE StepAccounted'
  BY <1>0, <1>2 DEF ReceiveResult, Completable, Answer, Rejected, ToIdle,
         Finished
<1>3. ASSUME NEW a \in Agents, NEW r \in Runs, ClaimLease(a, r)
      PROVE  StepAccounted'
  <2>1. /\ executions[r] = 0 /\ outcome[r] = "none" /\ [kind |-> "result", run |-> r] \notin net
        /\ UNCHANGED <<executions, outcome, net>>
    BY <1>0, <1>3 DEF ClaimLease, Claimable
  <2>2. phase'[a] = "leasing" /\ job'[a] = r
    BY <1>0, <1>3 DEF ClaimLease
  <2>3. \A b \in Agents : b # a => phase'[b] = phase[b] /\ job'[b] = job[b]
    BY <1>0, <1>3 DEF ClaimLease
  <2> QED
    BY <1>0, <2>1, <2>2, <2>3
<1>4. ASSUME NEW a \in Agents, Hydrate(a) PROVE StepAccounted'
  BY <1>0, <1>4 DEF Hydrate, ToIdle
<1>5. ASSUME NEW a \in Agents, HydrateFails(a) PROVE StepAccounted'
  BY <1>0, <1>5 DEF HydrateFails, ToIdle, Finished
<1>6. ASSUME NEW a \in Agents, Begin(a) PROVE StepAccounted'
  <2>1. job[a] \in Runs /\ UNCHANGED <<job, net>> /\ \A b \in Agents : b # a => job[b] # job[a]
    BY <1>0, <1>6 DEF Begin
  <2>2. ASSUME NEW b \in Agents, b # a PROVE phase'[b] = phase[b]
    BY <1>0, <2>2, <1>6 DEF Begin
  <2>3. \A s \in Runs : s # job[a] => executions'[s] = executions[s] /\ outcome'[s] = outcome[s]
    BY <1>0, <2>1, <1>6 DEF Begin
  <2>4. \/ phase'[a] = "executing" /\ outcome' = outcome /\ phase[a] = "assigned"
        \/ phase'[a] = "delivering" /\ outcome'[job[a]] \in Finished
    BY <1>0, <2>1, <1>6 DEF Begin, Finished
  <2> QED
    BY <1>0, <2>1, <2>2, <2>3, <2>4
<1>7. ASSUME NEW a \in Agents, Execute(a) PROVE StepAccounted'
  <2>1. job[a] \in Runs /\ UNCHANGED <<job, net>> /\ \A b \in Agents : b # a => job[b] # job[a]
    BY <1>0, <1>7 DEF Execute
  <2>2. ASSUME NEW b \in Agents, b # a PROVE phase'[b] = phase[b]
    BY <1>0, <2>2, <1>7 DEF Execute
  <2>3. \A s \in Runs : s # job[a] => executions'[s] = executions[s] /\ outcome'[s] = outcome[s]
    BY <1>0, <2>1, <1>7 DEF Execute
  <2>4. phase'[a] = "delivering" /\ outcome'[job[a]] \in Finished
    BY <1>0, <2>1, <1>7 DEF Execute, Finished
  <2> QED
    BY <1>0, <2>1, <2>2, <2>3, <2>4
<1>8. ASSUME NEW a \in Agents, SendProgress(a) PROVE StepAccounted'
  BY <1>0, <1>8 DEF SendProgress, Send, agents
<1>9. ASSUME NEW a \in Agents, SendResult(a) PROVE StepAccounted'
  BY <1>0, <1>9 DEF SendResult, Send, agents
<1>10. ASSUME NEW a \in Agents, AgentCrash(a) PROVE StepAccounted'
  BY <1>0, <1>10 DEF AgentCrash, ToIdle
<1>11. ASSUME NEW a \in Agents, RestartAgent(a) PROVE StepAccounted'
  BY <1>0, <1>11 DEF RestartAgent, ToIdle
<1>12. ASSUME NEW m \in net, Lose(m) PROVE StepAccounted'
  BY <1>0, <1>12 DEF Lose, agents
<1>13. ASSUME Restart PROVE StepAccounted'
  BY <1>0, <1>13 DEF Restart
<1>14. ASSUME UNCHANGED <<phase, executions, outcome, job, net>> PROVE StepAccounted'
  BY <1>0, <1>14 DEF Finished
<1> QED
  BY <1>1, <1>2, <1>3, <1>4, <1>5, <1>6, <1>7, <1>8, <1>9, <1>10, <1>11, <1>12,
         <1>13, <1>14
  DEF Next, WaiterStep, AgentStep, ManagerStep, StartRun, service, managed,
         bounds, CreateLease, NoFault, Fault, PollLease, Active, CancelRun,
         Expire, ExpireLease, FinishRun, Lapse, BeginDrain, Drained, ActiveWork,
         EndDrain, RevokeAgent, vars, agents

(* An Agent delivers what executing came to.                               *)
LEMMA ResultsMeanOutcomesStep == ASSUME IInv, [Next]_vars PROVE ResultsMeanOutcomes'
<1> USE DEF ResultsMeanOutcomes, StepAccounted
<1>0. /\ ResultsMeanOutcomes /\ StepAccounted
      /\ outcome \in [Runs -> {"none"} \cup Finished]
      /\ job \in [Agents -> Runs \cup {None}]
      /\ phase \in [Agents -> {"idle", "leasing", "assigned", "executing", "delivering"}]
      /\ \A a \in Agents : /\ job[a] = None <=> phase[a] = "idle"
                           /\ job[a] # None => job[a] \in Runs /\ AgentOf[job[a]] = a
      /\ AgentOf \in [Runs -> Agents] /\ None \notin Runs
  BY ParametersAssumption DEF IInv, TypeOK
<1>1. ASSUME NEW r \in Runs, ReceiveProgress(r) PROVE ResultsMeanOutcomes'
  BY <1>0, <1>1 DEF ReceiveProgress, Renewable, agents
<1>2. ASSUME NEW r \in Runs, ReceiveResult(r) PROVE ResultsMeanOutcomes'
  BY <1>0, <1>2 DEF ReceiveResult, Completable, Answer, Rejected, ToIdle,
         Finished
<1>3. ASSUME NEW a \in Agents, Begin(a) PROVE ResultsMeanOutcomes'
  BY <1>0, <1>3 DEF Begin, Finished
<1>4. ASSUME NEW a \in Agents, Execute(a) PROVE ResultsMeanOutcomes'
  BY <1>0, <1>4 DEF Execute, Finished
<1>5. ASSUME NEW a \in Agents, SendProgress(a) PROVE ResultsMeanOutcomes'
  BY <1>0, <1>5 DEF SendProgress, Send, agents
<1>6. ASSUME NEW a \in Agents, SendResult(a) PROVE ResultsMeanOutcomes'
  BY <1>0, <1>6 DEF SendResult, Send, agents
<1>7. ASSUME NEW m \in net, Lose(m) PROVE ResultsMeanOutcomes'
  BY <1>0, <1>7 DEF Lose, agents
<1>8. ASSUME Restart PROVE ResultsMeanOutcomes'
  BY <1>0, <1>8 DEF Restart
<1>9. ASSUME UNCHANGED <<net, outcome>> PROVE ResultsMeanOutcomes'
  BY <1>0, <1>9 DEF Finished
<1> QED
  BY <1>1, <1>2, <1>3, <1>4, <1>5, <1>6, <1>7, <1>8, <1>9
  DEF Next, WaiterStep, AgentStep, ManagerStep, StartRun, service, managed,
         bounds, CreateLease, NoFault, Fault, PollLease, Active, CancelRun,
         Expire, ExpireLease, FinishRun, Lapse, ClaimLease, Claimable, Hydrate,
         ToIdle, HydrateFails, AgentCrash, BeginDrain, Drained, ActiveWork,
         RestartAgent, EndDrain, RevokeAgent, vars, agents

(* Only a delivered result makes a lease a success.                        *)
LEMMA LeasesMeanOutcomesStep == ASSUME IInv, [Next]_vars PROVE LeasesMeanOutcomes'
<1> USE DEF LeasesMeanOutcomes, ResultsMeanOutcomes, StepAccounted, WaiterAccounted
<1>0. /\ LeasesMeanOutcomes /\ ResultsMeanOutcomes /\ StepAccounted /\ WaiterAccounted
      /\ lease \in [Runs -> LeaseStates]
      /\ outcome \in [Runs -> {"none"} \cup Finished]
      /\ job \in [Agents -> Runs \cup {None}]
      /\ phase \in [Agents -> {"idle", "leasing", "assigned", "executing", "delivering"}]
      /\ \A a \in Agents : /\ job[a] = None <=> phase[a] = "idle"
                           /\ job[a] # None => job[a] \in Runs /\ AgentOf[job[a]] = a
      /\ AgentOf \in [Runs -> Agents] /\ None \notin Runs
  BY ParametersAssumption DEF IInv, TypeOK
<1>1. ASSUME NEW r \in Runs, CreateLease(r) PROVE LeasesMeanOutcomes'
  BY <1>0, <1>1 DEF CreateLease, Finished, agents
<1>2. ASSUME NEW r \in Runs, Expire(r) PROVE LeasesMeanOutcomes'
  BY <1>0, <1>2 DEF Expire, ExpireLease, Finished, agents
<1>3. ASSUME NEW r \in Runs, ReceiveResult(r) PROVE LeasesMeanOutcomes'
  BY <1>0, <1>3 DEF ReceiveResult, Completable, Answer, Rejected, ToIdle,
         Finished
<1>4. ASSUME NEW a \in Agents, NEW r \in Runs, ClaimLease(a, r)
      PROVE  LeasesMeanOutcomes'
  BY <1>0, <1>4 DEF ClaimLease, Claimable, Finished
<1>5. ASSUME NEW a \in Agents, HydrateFails(a) PROVE LeasesMeanOutcomes'
  BY <1>0, <1>5 DEF HydrateFails, ToIdle, Finished
<1>6. ASSUME NEW a \in Agents, Begin(a) PROVE LeasesMeanOutcomes'
  <2>1. job[a] \in Runs /\ outcome[job[a]] = "none"
    BY <1>0, <1>6 DEF Begin
  <2>2. \A s \in Runs : s # job[a] => outcome'[s] = outcome[s]
    BY <1>0, <2>1, <1>6 DEF Begin
  <2>3. UNCHANGED <<lease>>
    BY <1>6 DEF Begin
  <2> QED
    BY <1>0, <2>1, <2>2, <2>3 DEF Finished
<1>7. ASSUME NEW a \in Agents, Execute(a) PROVE LeasesMeanOutcomes'
  <2>1. job[a] \in Runs /\ outcome[job[a]] = "none"
    BY <1>0, <1>7 DEF Execute
  <2>2. \A s \in Runs : s # job[a] => outcome'[s] = outcome[s]
    BY <1>0, <2>1, <1>7 DEF Execute
  <2>3. UNCHANGED <<lease>>
    BY <1>7 DEF Execute
  <2> QED
    BY <1>0, <2>1, <2>2, <2>3 DEF Finished
<1>8. ASSUME UNCHANGED <<lease, outcome>> PROVE LeasesMeanOutcomes'
  BY <1>0, <1>8 DEF Finished
<1> QED
  BY <1>1, <1>2, <1>3, <1>4, <1>5, <1>6, <1>7, <1>8
  DEF Next, WaiterStep, AgentStep, ManagerStep, StartRun, service, managed,
         bounds, PollLease, NoFault, Fault, Active, CancelRun, FinishRun, Lapse,
         ReceiveProgress, Renewable, Hydrate, ToIdle, SendProgress, Send,
         SendResult, AgentCrash, BeginDrain, Drained, ActiveWork, RestartAgent,
         EndDrain, RevokeAgent, Lose, Restart, vars, agents

(* The places of a waiter.                                                 *)
LEMMA WaiterAccountedStep == ASSUME IInv, [Next]_vars PROVE WaiterAccounted'
<1> USE DEF WaiterAccounted
<1>0. /\ WaiterAccounted
      /\ waiter \in [Runs -> {"idle", "started", "polling", "expiring", "finishing", "done"}]
      /\ lease \in [Runs -> LeaseStates]
      /\ verdict \in [Runs -> {"none"} \cup Finished]
      /\ restarts \in Nat
      /\ faults \in Nat
  BY ParametersAssumption DEF IInv, TypeOK
<1>1. ASSUME NEW r \in Runs, StartRun(r) PROVE WaiterAccounted'
  BY <1>0, <1>1 DEF StartRun, service, managed, bounds, Finished
<1>2. ASSUME NEW r \in Runs, CreateLease(r) PROVE WaiterAccounted'
  BY <1>0, <1>2 DEF CreateLease, NoFault, Fault, Finished, bounds
<1>3. ASSUME NEW r \in Runs, PollLease(r) PROVE WaiterAccounted'
  BY <1>0, <1>3 DEF PollLease, NoFault, Fault, Active, Finished, bounds
<1>4. ASSUME NEW r \in Runs, CancelRun(r) PROVE WaiterAccounted'
  BY <1>0, <1>4 DEF CancelRun, Finished, bounds
<1>5. ASSUME NEW r \in Runs, Expire(r) PROVE WaiterAccounted'
  BY <1>0, <1>5 DEF Expire, ExpireLease, NoFault, Fault, Finished, bounds
<1>6. ASSUME NEW r \in Runs, FinishRun(r) PROVE WaiterAccounted'
  BY <1>0, <1>6 DEF FinishRun, NoFault, Fault, Finished, bounds
<1>7. ASSUME NEW r \in Runs, ReceiveResult(r) PROVE WaiterAccounted'
  BY <1>0, <1>7 DEF ReceiveResult, Completable, NoFault, Fault, Finished,
         service, bounds
<1>8. ASSUME NEW a \in Agents, NEW r \in Runs, ClaimLease(a, r)
      PROVE  WaiterAccounted'
  BY <1>0, <1>8 DEF ClaimLease, Claimable, Finished, service, bounds
<1>9. ASSUME NEW a \in Agents, HydrateFails(a) PROVE WaiterAccounted'
  BY <1>0, <1>9 DEF HydrateFails, NoFault, Fault, Finished, service, bounds
<1>10. ASSUME NEW a \in Agents, EndDrain(a) PROVE WaiterAccounted'
  BY <1>0, <1>10 DEF EndDrain, NoFault, Fault, Finished, service, bounds
<1>11. ASSUME Restart PROVE WaiterAccounted'
  BY <1>0, <1>11 DEF Restart, Finished
<1>12. ASSUME UNCHANGED <<waiter, lease, verdict, restarts, faults>> PROVE WaiterAccounted'
  BY <1>0, <1>12 DEF Finished
<1> QED
  BY <1>1, <1>2, <1>3, <1>4, <1>5, <1>6, <1>7, <1>8, <1>9, <1>10, <1>11, <1>12
  DEF Next, WaiterStep, AgentStep, ManagerStep, Lapse, Active, ReceiveProgress,
         Renewable, Hydrate, ToIdle, Begin, Execute, SendProgress, Send,
         SendResult, AgentCrash, BeginDrain, Drained, ActiveWork, RestartAgent,
         RevokeAgent, Lose, vars, service, agents, managed, bounds

(* A drained Agent has no open lease and can claim none.                   *)
LEMMA DrainAccountedStep == ASSUME IInv, [Next]_vars PROVE DrainAccounted'
<1> USE DEF DrainAccounted
<1>0. /\ DrainAccounted
      /\ manager \in [Agents -> {"idle", "draining", "drained", "restarted"}]
      /\ draining \subseteq Agents
      /\ lease \in [Runs -> LeaseStates]
  BY ParametersAssumption DEF IInv, TypeOK
<1>1. ASSUME NEW r \in Runs, CreateLease(r) PROVE DrainAccounted'
  BY <1>0, <1>1 DEF CreateLease, managed, ActiveWork
<1>2. ASSUME NEW r \in Runs, Expire(r) PROVE DrainAccounted'
  BY <1>0, <1>2 DEF Expire, ExpireLease, Finished, managed, ActiveWork
<1>3. ASSUME NEW r \in Runs, ReceiveResult(r) PROVE DrainAccounted'
  BY <1>0, <1>3 DEF ReceiveResult, Completable, Finished, managed, ActiveWork
<1>4. ASSUME NEW a \in Agents, NEW r \in Runs, ClaimLease(a, r)
      PROVE  DrainAccounted'
  BY <1>0, <1>4 DEF ClaimLease, Claimable, managed, ActiveWork
<1>5. ASSUME NEW a \in Agents, HydrateFails(a) PROVE DrainAccounted'
  BY <1>0, <1>5 DEF HydrateFails, Finished, managed, ActiveWork
<1>6. ASSUME NEW a \in Agents, BeginDrain(a) PROVE DrainAccounted'
  BY <1>0, <1>6 DEF BeginDrain, ActiveWork
<1>7. ASSUME NEW a \in Agents, Drained(a) PROVE DrainAccounted'
  BY <1>0, <1>7 DEF Drained, ActiveWork
<1>8. ASSUME NEW a \in Agents, RestartAgent(a) PROVE DrainAccounted'
  BY <1>0, <1>8 DEF RestartAgent, ActiveWork
<1>9. ASSUME NEW a \in Agents, EndDrain(a) PROVE DrainAccounted'
  BY <1>0, <1>9 DEF EndDrain, ActiveWork
<1>10. ASSUME Restart PROVE DrainAccounted'
  BY <1>0, <1>10 DEF Restart, ActiveWork
<1>11. ASSUME UNCHANGED <<manager, draining, lease>> PROVE DrainAccounted'
  BY <1>0, <1>11 DEF Finished, ActiveWork
<1> QED
  BY <1>1, <1>2, <1>3, <1>4, <1>5, <1>6, <1>7, <1>8, <1>9, <1>10, <1>11
  DEF Next, WaiterStep, AgentStep, ManagerStep, StartRun, service, managed,
         bounds, PollLease, NoFault, Fault, Active, CancelRun, FinishRun, Lapse,
         ReceiveProgress, Renewable, Hydrate, ToIdle, Begin, Execute,
         SendProgress, Send, SendResult, AgentCrash, RevokeAgent, Lose, vars,
         agents

(* The initial state satisfies the invariant.                              *)
LEMMA InitIInv == Init => IInv
<1> SUFFICES ASSUME Init PROVE IInv
  OBVIOUS
<1> USE ParametersAssumption DEF Init
<1>1. TypeOK
  BY DEF TypeOK, Finished, LeaseStates, Messages
<1>2. AtMostOnce /\ SuccessIsReal /\ RunEndsWithLease
  BY DEF AtMostOnce, SuccessIsReal, RunEndsWithLease, Finished
<1>3. UnclaimedUntouched /\ StepAccounted /\ ResultsMeanOutcomes /\ LeasesMeanOutcomes
  BY DEF UnclaimedUntouched, StepAccounted, ResultsMeanOutcomes, LeasesMeanOutcomes, Finished
<1>4. WaiterAccounted /\ DrainAccounted
  BY DEF WaiterAccounted, DrainAccounted, Finished
<1> QED BY <1>1, <1>2, <1>3, <1>4 DEF IInv

(* Every reachable state satisfies the inductive invariant.                *)
THEOREM Inductive == Spec => []IInv
<1>1. IInv /\ [Next]_vars => IInv'
  BY TypeOKStep, AtMostOnceStep, SuccessIsRealStep, RunEndsWithLeaseStep,
     UnclaimedUntouchedStep, StepAccountedStep, ResultsMeanOutcomesStep,
     LeasesMeanOutcomesStep, WaiterAccountedStep, DrainAccountedStep DEF IInv
<1> QED BY InitIInv, <1>1, PTL DEF Spec

(* The state of runs, leases, Agents and drains has its types; an Agent    *)
(* has an assignment of its own exactly when it is in the middle of a step.*)
THEOREM TypeCorrect == Spec => []TypeOK
<1>1. IInv => TypeOK
  BY DEF IInv
<1> QED BY Inductive, <1>1, PTL

(* Agents execute the assignment of a run at most once, whatever is lost,  *)
(* repeated, delayed, crashed or restarted (ClaimAgentLease, Runtime.Step).*)
THEOREM ExecutedAtMostOnce == Spec => []AtMostOnce
<1>1. IInv => AtMostOnce
  BY DEF IInv
<1> QED BY Inductive, <1>1, PTL

(* A run is recorded as succeeded or partial only when that is what its    *)
(* execution on the Agent came to (Service.finish, CompleteAgentLease).    *)
THEOREM RecordedSuccess == Spec => []SuccessIsReal
<1>1. IInv => SuccessIsReal
  BY DEF IInv
<1> QED BY Inductive, <1>1, PTL

(* Until a restart or a store fault, a run ends after its lease            *)
(* (Service.Run expires the lease before it finishes the run).             *)
THEOREM EndsAfterLease == Spec => []RunEndsWithLease
<1>1. IInv => RunEndsWithLease
  BY DEF IInv
<1> QED BY Inductive, <1>1, PTL

(* A step leaves a completed lease alone.                                  *)
LEMMA FinishedLeaseStays ==
  ASSUME IInv, [Next]_vars, NEW s \in Runs, lease[s] \in Finished
  PROVE  lease'[s] = lease[s]
<1>0. /\ lease \in [Runs -> LeaseStates]
      /\ \A r \in Runs : waiter[r] = "started" => lease[r] = "absent"
  BY DEF IInv, TypeOK, WaiterAccounted
<1>1. ASSUME NEW r \in Runs, CreateLease(r) PROVE lease'[s] = lease[s]
  BY <1>0, <1>1 DEF CreateLease, Finished
<1>2. ASSUME NEW r \in Runs, Expire(r) PROVE lease'[s] = lease[s]
  BY <1>0, <1>2 DEF Expire, ExpireLease
<1>3. ASSUME NEW r \in Runs, ReceiveResult(r) PROVE lease'[s] = lease[s]
  BY <1>0, <1>3 DEF ReceiveResult, Completable, Finished
<1>4. ASSUME NEW a \in Agents, NEW r \in Runs, ClaimLease(a, r) PROVE lease'[s] = lease[s]
  BY <1>0, <1>4 DEF ClaimLease, Claimable, Finished
<1>5. ASSUME NEW a \in Agents, HydrateFails(a) PROVE lease'[s] = lease[s]
  BY <1>0, <1>5 DEF HydrateFails, Finished
<1>6. ASSUME UNCHANGED lease PROVE lease'[s] = lease[s]
  BY <1>6
<1> QED
  BY <1>1, <1>2, <1>3, <1>4, <1>5, <1>6
     DEF Next, WaiterStep, AgentStep, ManagerStep, StartRun, PollLease, CancelRun,
         FinishRun, Lapse, ReceiveProgress, Hydrate, Begin, Execute, SendProgress,
         SendResult, AgentCrash, BeginDrain, Drained, RestartAgent, EndDrain,
         RevokeAgent, Lose, Restart, vars

(* The status of a completed lease never changes: neither the expiry of a  *)
(* waiter nor a late or repeated delivery overwrites it.                   *)
THEOREM LeasesAreFinal == Spec => LeaseFinal
<1>1. IInv /\ [Next]_vars
        => [\A r \in Runs : lease[r] \in Finished => lease'[r] = lease[r]]_vars
  BY FinishedLeaseStays
<1> QED BY Inductive, <1>1, PTL DEF Spec, LeaseFinal

(* A managed restart never interrupts work whose lease is open, for the    *)
(* drain mark keeps claims away between waitForDrain and the restart.      *)
THEOREM DrainIsEffective == Spec => DrainSparesLiveWork
<1> DEFINE Spared(a) == RestartAgent(a) /\ phase[a] # "idle" => lease[job[a]] \in Finished
<1>1. ASSUME IInv, NEW a \in Agents, RestartAgent(a), phase[a] # "idle"
      PROVE  lease[job[a]] \in Finished
  <2>1. job[a] \in Runs /\ AgentOf[job[a]] = a
    BY <1>1, ParametersAssumption DEF IInv, TypeOK
  <2>2. lease[job[a]] \notin {"absent", "queued"}
    BY <1>1, <2>1 DEF IInv, UnclaimedUntouched
  <2>3. lease[job[a]] # "running"
    BY <1>1, <2>1 DEF IInv, DrainAccounted, ActiveWork, RestartAgent
  <2>4. lease[job[a]] \in LeaseStates
    BY <1>1, <2>1 DEF IInv, TypeOK
  <2> QED BY <2>2, <2>3, <2>4 DEF LeaseStates
<1>2. IInv /\ [Next]_vars => [\A a \in Agents : Spared(a)]_vars
  BY <1>1
<1> QED BY Inductive, <1>2, PTL DEF Spec, DrainSparesLiveWork

-----------------------------------------------------------------------------
(* Restore: the places of a request, by what is restored.                  *)

PathPlaces  == {"restoring", "fetched", "publishing", "published"}
Owning      == {"created", "filling", "guarding", "dropping", "unmarking"}
MadePlaces  == {"present", "absent", "importing"} \cup Owning
RestorePlaces ==
  {"new", "begun", "waiting", "succeeded", "failed", "stopped"} \cup PathPlaces \cup MadePlaces

ConfirmationRows ==
  [state : {"none", "made", "authorized", "consumed"}, snapshot : Snapshots \cup {"none"},
   limit : Restoring!Limits, late : BOOLEAN]

AskedFor ==
  [confirmation : Confirmations \cup {"none"}, snapshot : Snapshots \cup {"none"},
   limit : Restoring!Limits]

RowsTyped ==
  /\ kind \in Restoring!Kinds /\ limit \in Restoring!Limits
  /\ confirmation \in [Confirmations -> ConfirmationRows]
  /\ request \in [Requests -> AskedFor]
  /\ entry \in [Requests -> {"none", "queued", "running", "failed", "succeeded"}]

MachineTyped ==
  /\ step \in [Requests -> RestorePlaces]
  /\ staging \in [Requests -> Snapshots \cup {"none", "partial"}]
  /\ agent \in [for : Requests \cup {"none"},
                at : {"none", "claimed", "restoring", "fetched", "succeeding", "failing"}]
  /\ target \in [made : Requests \cup {"none", "other"},
                 holds : SUBSET (Snapshots \cup {"partial", "other"}), marks : SUBSET Requests]
  /\ overtaken \subseteq Requests
  /\ others \in [steps : Nat, removed : BOOLEAN, exposed : BOOLEAN]

RestoreTyped == RowsTyped /\ MachineTyped

Begun(r) == step[r] # "new"

(* A confirmation that is consumed is that of one request, and as it was.  *)
OneConfirmation ==
  \A r \in Requests : Begun(r) =>
    /\ request[r].confirmation \in Confirmations
    /\ request[r].snapshot \in Snapshots

KindFits ==
  \A r \in Requests :
    /\ step[r] \in PathPlaces => kind \in {"directory", "file"}
    /\ step[r] = "publishing" => kind = "directory"
    /\ step[r] = "published" => kind = "file"
    /\ step[r] = "waiting" => kind = "agent"
    /\ step[r] \in MadePlaces => kind = "database"
    /\ entry[r] # "none" => kind = "agent" /\ step[r] \notin {"new", "begun"}
    /\ agent.for = r => entry[r] # "none"
    /\ step[r] = "succeeded" /\ kind = "agent" => entry[r] = "succeeded"

(* What is about to be published is what was asked for.                    *)
StagingFits ==
  \A r \in Requests :
    step[r] \in {"fetched", "publishing"} \/ (agent.for = r /\ agent.at = "fetched") =>
      staging[r] = request[r].snapshot

Placed(r) ==
  /\ request[r].snapshot \in target.holds
  /\ target.made = r /\ "partial" \notin target.holds

PathsDelivered ==
  kind # "database" /\ ~others.removed =>
    \A r \in Requests :
      \/ step[r] \in {"published", "succeeded"}
      \/ agent.for = r /\ agent.at = "succeeding"
      \/ entry[r] = "succeeded"
      => Placed(r)

(* The one request that has made the database has marked it, and every     *)
(* other that imports found it before it was marked.                       *)
Ahead(r) == step[r] \in {"importing", "succeeded"} /\ r \notin overtaken

OwnerFits ==
  kind = "database" /\ ~others.removed =>
    /\ \A q \in Requests : step[q] \in Owning => target.made = q
    /\ \A q \in Requests : step[q] \in Owning \ {"created"} => q \in target.marks
    /\ \A q \in Requests : step[q] \in Owning => \A r \in Requests \ {q} : ~Ahead(r)
    /\ \A r \in Requests : Ahead(r) => Restoring!Exists
    /\ \A r \in Requests :
         step[r] = "unmarking" \/ (step[r] = "succeeded" /\ r \notin overtaken) =>
           request[r].snapshot \in target.holds

(* A database of others that bears a mark, or is there between two         *)
(* statements of a restore, was made between such two.                     *)
OthersApart ==
  target.made = "other" =>
    /\ target.marks # {} => others.exposed
    /\ \A r \in Requests : step[r] \in {"created", "dropping"} => others.exposed

RestoreInv ==
  /\ RestoreTyped /\ OneConfirmation /\ Restoring!Confirmed /\ KindFits /\ StagingFits
  /\ PathsDelivered /\ OwnerFits /\ OthersApart

LEMMA RestoreBegins == Restoring!Init => RestoreInv
<1> SUFFICES ASSUME Restoring!Init  PROVE RestoreInv
  OBVIOUS
<1> USE RestoresAssumption DEF Restoring!Init, Restoring!Missing, Restoring!Nothing,
     Restoring!Other, Restoring!Partial
<1>1. RowsTyped
  BY DEF RowsTyped, Restoring!Limits, ConfirmationRows, AskedFor
<1>2. MachineTyped
  BY DEF MachineTyped, PathPlaces, Owning, MadePlaces, RestorePlaces
<1>3. OneConfirmation /\ Restoring!Confirmed
  BY DEF OneConfirmation, Begun, Restoring!Confirmed
<1>4. KindFits /\ StagingFits
  BY DEF KindFits, StagingFits, PathPlaces, Owning, MadePlaces, RestorePlaces
<1>5. PathsDelivered /\ OwnerFits /\ OthersApart
  BY DEF PathsDelivered, OwnerFits, OthersApart, Ahead, PathPlaces, Owning, MadePlaces,
     RestorePlaces
<1>6. QED  BY <1>1, <1>2, <1>3, <1>4, <1>5 DEF RestoreInv, RestoreTyped

LEMMA RestorePreflightKept ==
  ASSUME RestoreInv, NEW c \in Confirmations, NEW s \in Snapshots, Restoring!Preflight(c, s)
  PROVE  RestoreInv' /\ Restoring!Spares
<1> USE RestoresAssumption DEF RestoreInv, RestoreTyped, Restoring!Preflight,
     Restoring!Restorable, Restoring!EmptyThere,
          Restoring!Nothing, Restoring!Other, Restoring!Partial, Restoring!Exists
<1>1. RowsTyped'
  BY DEF RowsTyped, MachineTyped, Restoring!Limits, Restoring!Kinds, ConfirmationRows,
     AskedFor
<1>2. MachineTyped'
  BY DEF RowsTyped, MachineTyped, AskedFor, OneConfirmation, KindFits, Begun,
     PathPlaces, Owning, MadePlaces, RestorePlaces
<1>3. OneConfirmation'
  BY DEF RowsTyped, MachineTyped, OneConfirmation, Begun, AskedFor
<1>4. Restoring!Confirmed'
  BY DEF RowsTyped, MachineTyped, OneConfirmation, Begun, Restoring!Confirmed, AskedFor,
     ConfirmationRows
<1>5. KindFits'
  BY DEF RowsTyped, MachineTyped, KindFits, PathPlaces, Owning, MadePlaces,
     RestorePlaces
<1>6. StagingFits'
  BY DEF RowsTyped, MachineTyped, KindFits, StagingFits, PathPlaces, Owning, MadePlaces,
     RestorePlaces, AskedFor
<1>7. PathsDelivered'
  BY DEF RowsTyped, MachineTyped, OneConfirmation, Begun, KindFits, StagingFits,
     PathsDelivered, Placed, PathPlaces, Owning, MadePlaces, RestorePlaces
<1>8. OwnerFits'
  BY DEF RowsTyped, MachineTyped, KindFits, OwnerFits, Ahead, PathPlaces, Owning,
     MadePlaces, RestorePlaces, Restoring!EmptyThere
<1>9. OthersApart'
  BY DEF MachineTyped, OthersApart, PathPlaces, Owning, MadePlaces, RestorePlaces
<1>10. Restoring!Spares
  BY DEF MachineTyped, OthersApart, Restoring!Spares
<1>11. QED  BY <1>1, <1>2, <1>3, <1>4, <1>5, <1>6, <1>7, <1>8, <1>9, <1>10

LEMMA RestoreAuthorizeKept ==
  ASSUME RestoreInv, NEW c \in Confirmations, Restoring!Authorize(c)
  PROVE  RestoreInv' /\ Restoring!Spares
<1> USE RestoresAssumption DEF RestoreInv, RestoreTyped, Restoring!Authorize, Restoring!Confirm,
          Restoring!Nothing, Restoring!Other, Restoring!Partial, Restoring!Exists
<1>1. RowsTyped'
  BY SMTT(30) DEF RowsTyped, MachineTyped, Restoring!Limits, Restoring!Kinds, ConfirmationRows,
     AskedFor
<1>2. MachineTyped'
  BY DEF RowsTyped, MachineTyped, AskedFor, OneConfirmation, KindFits, Begun,
     PathPlaces, Owning, MadePlaces, RestorePlaces
<1>3. OneConfirmation'
  BY DEF RowsTyped, MachineTyped, OneConfirmation, Begun, AskedFor
<1>4. Restoring!Confirmed'
  BY DEF RowsTyped, MachineTyped, OneConfirmation, Begun, Restoring!Confirmed, AskedFor,
     ConfirmationRows
<1>5. KindFits'
  BY DEF RowsTyped, MachineTyped, KindFits, PathPlaces, Owning, MadePlaces,
     RestorePlaces
<1>6. StagingFits'
  BY DEF RowsTyped, MachineTyped, KindFits, StagingFits, PathPlaces, Owning, MadePlaces,
     RestorePlaces, AskedFor
<1>7. PathsDelivered'
  BY DEF RowsTyped, MachineTyped, OneConfirmation, Begun, KindFits, StagingFits,
     PathsDelivered, Placed, PathPlaces, Owning, MadePlaces, RestorePlaces
<1>8. OwnerFits'
  BY DEF RowsTyped, MachineTyped, KindFits, OwnerFits, Ahead, PathPlaces, Owning,
     MadePlaces, RestorePlaces
<1>9. OthersApart'
  BY DEF MachineTyped, OthersApart, PathPlaces, Owning, MadePlaces, RestorePlaces
<1>10. Restoring!Spares
  BY DEF MachineTyped, OthersApart, Restoring!Spares
<1>11. QED  BY <1>1, <1>2, <1>3, <1>4, <1>5, <1>6, <1>7, <1>8, <1>9, <1>10

LEMMA RestoreLapseKept ==
  ASSUME RestoreInv, NEW c \in Confirmations, Restoring!Lapse(c)
  PROVE  RestoreInv' /\ Restoring!Spares
<1> USE RestoresAssumption DEF RestoreInv, RestoreTyped, Restoring!Lapse,
          Restoring!Nothing, Restoring!Other, Restoring!Partial, Restoring!Exists
<1>1. RowsTyped'
  <2>1. confirmation' \in [Confirmations -> ConfirmationRows]
    BY DEF RowsTyped, ConfirmationRows
  <2>2. UNCHANGED <<kind, limit, request, entry>>
    OBVIOUS
  <2>3. QED  BY <2>1, <2>2 DEF RowsTyped
<1>2. MachineTyped'
  BY DEF RowsTyped, MachineTyped, AskedFor, OneConfirmation, KindFits, Begun,
     PathPlaces, Owning, MadePlaces, RestorePlaces
<1>3. OneConfirmation'
  BY DEF RowsTyped, MachineTyped, OneConfirmation, Begun, AskedFor
<1>4. Restoring!Confirmed'
  BY DEF RowsTyped, MachineTyped, OneConfirmation, Begun, Restoring!Confirmed, AskedFor,
     ConfirmationRows
<1>5. KindFits'
  BY DEF RowsTyped, MachineTyped, KindFits, PathPlaces, Owning, MadePlaces,
     RestorePlaces
<1>6. StagingFits'
  BY DEF RowsTyped, MachineTyped, KindFits, StagingFits, PathPlaces, Owning, MadePlaces,
     RestorePlaces, AskedFor
<1>7. PathsDelivered'
  BY DEF RowsTyped, MachineTyped, OneConfirmation, Begun, KindFits, StagingFits,
     PathsDelivered, Placed, PathPlaces, Owning, MadePlaces, RestorePlaces
<1>8. OwnerFits'
  BY DEF RowsTyped, MachineTyped, KindFits, OwnerFits, Ahead, PathPlaces, Owning,
     MadePlaces, RestorePlaces
<1>9. OthersApart'
  BY DEF MachineTyped, OthersApart, PathPlaces, Owning, MadePlaces, RestorePlaces
<1>10. Restoring!Spares
  BY DEF MachineTyped, OthersApart, Restoring!Spares
<1>11. QED  BY <1>1, <1>2, <1>3, <1>4, <1>5, <1>6, <1>7, <1>8, <1>9, <1>10

LEMMA RestoreConsumeKept ==
  ASSUME RestoreInv, NEW r \in Requests, NEW c \in Confirmations, NEW s \in Snapshots,
         Restoring!Consume(r, c, s)
  PROVE  RestoreInv' /\ Restoring!Spares
<1> USE RestoresAssumption DEF RestoreInv, RestoreTyped, Restoring!Consume,
     Restoring!Matches, Restoring!Confirm, Restoring!Move,
          Restoring!Nothing, Restoring!Other, Restoring!Partial, Restoring!Exists
<1>1. RowsTyped'
  <2>1. request' \in [Requests -> AskedFor]
    BY DEF RowsTyped, AskedFor
  <2>2. confirmation' \in [Confirmations -> ConfirmationRows]
    BY DEF RowsTyped, ConfirmationRows
  <2>3. UNCHANGED <<kind, limit, entry>>
    OBVIOUS
  <2>4. QED  BY <2>1, <2>2, <2>3 DEF RowsTyped
<1>2. MachineTyped'
  BY DEF RowsTyped, MachineTyped, AskedFor, OneConfirmation, KindFits, Begun,
     PathPlaces, Owning, MadePlaces, RestorePlaces
<1>3. OneConfirmation'
  BY DEF RowsTyped, MachineTyped, OneConfirmation, Begun, AskedFor
<1>4. Restoring!Confirmed'
  BY DEF RowsTyped, MachineTyped, OneConfirmation, Begun, Restoring!Confirmed, AskedFor,
     ConfirmationRows
<1>5. KindFits'
  BY DEF RowsTyped, MachineTyped, KindFits, PathPlaces, Owning, MadePlaces,
     RestorePlaces
<1>6. StagingFits'
  BY DEF RowsTyped, MachineTyped, KindFits, StagingFits, PathPlaces, Owning, MadePlaces,
     RestorePlaces, AskedFor
<1>7. PathsDelivered'
  BY DEF RowsTyped, MachineTyped, OneConfirmation, Begun, KindFits, StagingFits,
     PathsDelivered, Placed, PathPlaces, Owning, MadePlaces, RestorePlaces
<1>8. OwnerFits'
  BY DEF RowsTyped, MachineTyped, KindFits, OwnerFits, Ahead, PathPlaces, Owning,
     MadePlaces, RestorePlaces
<1>9. OthersApart'
  BY DEF MachineTyped, OthersApart, PathPlaces, Owning, MadePlaces, RestorePlaces
<1>10. Restoring!Spares
  BY DEF MachineTyped, OthersApart, Restoring!Spares
<1>11. QED  BY <1>1, <1>2, <1>3, <1>4, <1>5, <1>6, <1>7, <1>8, <1>9, <1>10

LEMMA RestorePrepareKept ==
  ASSUME RestoreInv, NEW r \in Requests, Restoring!Prepare(r)
  PROVE  RestoreInv' /\ Restoring!Spares
<1> USE RestoresAssumption DEF RestoreInv, RestoreTyped, Restoring!Prepare,
     Restoring!LockFree, Restoring!Stage, Restoring!Move, Restoring!Same,
     Restoring!Repository,
          Restoring!Nothing, Restoring!Other, Restoring!Partial, Restoring!Exists
<1>1. RowsTyped'
  BY DEF RowsTyped, MachineTyped, Restoring!Limits, Restoring!Kinds, ConfirmationRows,
     AskedFor
<1>2. MachineTyped'
  <2>1. RestoreTyped /\ OneConfirmation /\ KindFits
    OBVIOUS
  <2>2. (step \in [Requests -> RestorePlaces])'
    BY <2>1 DEF RowsTyped, MachineTyped, PathPlaces, Owning, MadePlaces, RestorePlaces
  <2>3. (staging \in [Requests -> Snapshots \cup {"none", "partial"}])'
    BY <2>1 DEF RowsTyped, MachineTyped, OneConfirmation, KindFits, Begun, PathPlaces,
       AskedFor
  <2>4. (agent \in [for : Requests \cup {"none"},
                at : {"none", "claimed", "restoring", "fetched", "succeeding", "failing"}])'
    BY <2>1 DEF RowsTyped, MachineTyped
  <2>5. (target \in [made : Requests \cup {"none", "other"},
                 holds : SUBSET (Snapshots \cup {"partial", "other"}), marks : SUBSET Requests])'
    BY <2>1 DEF RowsTyped, MachineTyped, OneConfirmation, KindFits, Begun, PathPlaces,
       MadePlaces, Owning, AskedFor
  <2>6. (overtaken \subseteq Requests /\ others \in [steps : Nat, removed : BOOLEAN, exposed : BOOLEAN])'
    BY <2>1 DEF RowsTyped, MachineTyped
  <2>7. QED  BY <2>2, <2>3, <2>4, <2>5, <2>6 DEF MachineTyped
<1>3. OneConfirmation'
  BY DEF RowsTyped, MachineTyped, OneConfirmation, Begun, AskedFor
<1>4. Restoring!Confirmed'
  BY DEF RowsTyped, MachineTyped, OneConfirmation, Begun, Restoring!Confirmed, AskedFor,
     ConfirmationRows
<1>5. KindFits'
  BY DEF RowsTyped, MachineTyped, KindFits, PathPlaces, Owning, MadePlaces,
     RestorePlaces
<1>6. StagingFits'
  BY DEF RowsTyped, MachineTyped, KindFits, StagingFits, PathPlaces, Owning, MadePlaces,
     RestorePlaces, AskedFor
<1>7. PathsDelivered'
  BY DEF RowsTyped, MachineTyped, OneConfirmation, Begun, KindFits, StagingFits,
     PathsDelivered, Placed, PathPlaces, Owning, MadePlaces, RestorePlaces
<1>8. OwnerFits'
  BY DEF RowsTyped, MachineTyped, KindFits, OwnerFits, Ahead, PathPlaces, Owning,
     MadePlaces, RestorePlaces
<1>9. OthersApart'
  BY DEF MachineTyped, OthersApart, PathPlaces, Owning, MadePlaces, RestorePlaces
<1>10. Restoring!Spares
  BY DEF MachineTyped, OthersApart, Restoring!Spares
<1>11. QED  BY <1>1, <1>2, <1>3, <1>4, <1>5, <1>6, <1>7, <1>8, <1>9, <1>10

LEMMA RestoreFetchKept ==
  ASSUME RestoreInv, NEW r \in Requests, Restoring!Fetch(r)  PROVE RestoreInv' /\ Restoring!Spares
<1> USE RestoresAssumption DEF RestoreInv, RestoreTyped, Restoring!Fetch, Restoring!Move,
     Restoring!Abandoned, Restoring!Same,
          Restoring!Nothing, Restoring!Other, Restoring!Partial, Restoring!Exists
<1>1. RowsTyped'
  BY DEF RowsTyped, MachineTyped, Restoring!Limits, Restoring!Kinds, ConfirmationRows,
     AskedFor
<1>2. MachineTyped'
  <2>1. RestoreTyped /\ OneConfirmation /\ KindFits
    OBVIOUS
  <2>2. (step \in [Requests -> RestorePlaces])'
    BY <2>1 DEF RowsTyped, MachineTyped, PathPlaces, Owning, MadePlaces, RestorePlaces
  <2>3. (staging \in [Requests -> Snapshots \cup {"none", "partial"}])'
    BY <2>1 DEF RowsTyped, MachineTyped, OneConfirmation, KindFits, Begun, PathPlaces,
       AskedFor
  <2>4. (agent \in [for : Requests \cup {"none"},
                at : {"none", "claimed", "restoring", "fetched", "succeeding", "failing"}])'
    BY <2>1 DEF RowsTyped, MachineTyped
  <2>5. (target \in [made : Requests \cup {"none", "other"},
                 holds : SUBSET (Snapshots \cup {"partial", "other"}), marks : SUBSET Requests])'
    BY <2>1 DEF RowsTyped, MachineTyped, OneConfirmation, KindFits, Begun, PathPlaces,
       MadePlaces, Owning, AskedFor
  <2>6. (overtaken \subseteq Requests /\ others \in [steps : Nat, removed : BOOLEAN, exposed : BOOLEAN])'
    BY <2>1 DEF RowsTyped, MachineTyped
  <2>7. QED  BY <2>2, <2>3, <2>4, <2>5, <2>6 DEF MachineTyped
<1>3. OneConfirmation'
  BY DEF RowsTyped, MachineTyped, OneConfirmation, Begun, AskedFor
<1>4. Restoring!Confirmed'
  BY DEF RowsTyped, MachineTyped, OneConfirmation, Begun, Restoring!Confirmed, AskedFor,
     ConfirmationRows
<1>5. KindFits'
  BY DEF RowsTyped, MachineTyped, KindFits, PathPlaces, Owning, MadePlaces,
     RestorePlaces
<1>6. StagingFits'
  BY DEF RowsTyped, MachineTyped, KindFits, StagingFits, PathPlaces, Owning, MadePlaces,
     RestorePlaces, AskedFor
<1>7. PathsDelivered'
  BY DEF RowsTyped, MachineTyped, OneConfirmation, Begun, KindFits, StagingFits,
     PathsDelivered, Placed, PathPlaces, Owning, MadePlaces, RestorePlaces
<1>8. OwnerFits'
  BY DEF RowsTyped, MachineTyped, KindFits, OwnerFits, Ahead, PathPlaces, Owning,
     MadePlaces, RestorePlaces
<1>9. OthersApart'
  BY DEF MachineTyped, OthersApart, PathPlaces, Owning, MadePlaces, RestorePlaces
<1>10. Restoring!Spares
  BY DEF MachineTyped, OthersApart, Restoring!Spares
<1>11. QED  BY <1>1, <1>2, <1>3, <1>4, <1>5, <1>6, <1>7, <1>8, <1>9, <1>10

LEMMA RestoreLookKept ==
  ASSUME RestoreInv, NEW r \in Requests, Restoring!Look(r)  PROVE RestoreInv' /\ Restoring!Spares
<1> USE RestoresAssumption DEF RestoreInv, RestoreTyped, Restoring!Look, Restoring!Move,
     Restoring!Same,
          Restoring!Nothing, Restoring!Other, Restoring!Partial, Restoring!Exists
<1>1. RowsTyped'
  BY DEF RowsTyped, MachineTyped, Restoring!Limits, Restoring!Kinds, ConfirmationRows,
     AskedFor
<1>2. MachineTyped'
  BY DEF RowsTyped, MachineTyped, AskedFor, OneConfirmation, KindFits, Begun,
     PathPlaces, Owning, MadePlaces, RestorePlaces
<1>3. OneConfirmation'
  BY DEF RowsTyped, MachineTyped, OneConfirmation, Begun, AskedFor
<1>4. Restoring!Confirmed'
  BY DEF RowsTyped, MachineTyped, OneConfirmation, Begun, Restoring!Confirmed, AskedFor,
     ConfirmationRows
<1>5. KindFits'
  BY DEF RowsTyped, MachineTyped, KindFits, PathPlaces, Owning, MadePlaces,
     RestorePlaces
<1>6. StagingFits'
  BY DEF RowsTyped, MachineTyped, KindFits, StagingFits, PathPlaces, Owning, MadePlaces,
     RestorePlaces, AskedFor
<1>7. PathsDelivered'
  BY DEF RowsTyped, MachineTyped, OneConfirmation, Begun, KindFits, StagingFits,
     PathsDelivered, Placed, PathPlaces, Owning, MadePlaces, RestorePlaces
<1>8. OwnerFits'
  BY DEF RowsTyped, MachineTyped, KindFits, OwnerFits, Ahead, PathPlaces, Owning,
     MadePlaces, RestorePlaces
<1>9. OthersApart'
  BY DEF MachineTyped, OthersApart, PathPlaces, Owning, MadePlaces, RestorePlaces
<1>10. Restoring!Spares
  BY DEF MachineTyped, OthersApart, Restoring!Spares
<1>11. QED  BY <1>1, <1>2, <1>3, <1>4, <1>5, <1>6, <1>7, <1>8, <1>9, <1>10

LEMMA RestoreRenameKept ==
  ASSUME RestoreInv, NEW r \in Requests, Restoring!Rename(r)
  PROVE  RestoreInv' /\ Restoring!Spares
<1> USE RestoresAssumption DEF RestoreInv, RestoreTyped, Restoring!Rename,
     Restoring!Published, Restoring!Move, Restoring!Same,
          Restoring!Nothing, Restoring!Other, Restoring!Partial, Restoring!Exists
<1>1. RowsTyped'
  BY DEF RowsTyped, MachineTyped, Restoring!Limits, Restoring!Kinds, ConfirmationRows,
     AskedFor
<1>2. MachineTyped'
  <2>1. RestoreTyped /\ OneConfirmation /\ KindFits /\ StagingFits
    OBVIOUS
  <2>2. (step \in [Requests -> RestorePlaces])'
    BY <2>1 DEF RowsTyped, MachineTyped, PathPlaces, Owning, MadePlaces, RestorePlaces
  <2>3. (staging \in [Requests -> Snapshots \cup {"none", "partial"}])'
    BY <2>1 DEF RowsTyped, MachineTyped, OneConfirmation, KindFits, Begun, PathPlaces,
       AskedFor
  <2>4. (agent \in [for : Requests \cup {"none"},
                at : {"none", "claimed", "restoring", "fetched", "succeeding", "failing"}])'
    BY <2>1 DEF RowsTyped, MachineTyped
  <2>8. Restoring!Published(r) => staging[r] \in Snapshots
    BY <2>1 DEF KindFits, StagingFits, OneConfirmation, Begun, MachineTyped
  <2>5. (target \in [made : Requests \cup {"none", "other"},
                 holds : SUBSET (Snapshots \cup {"partial", "other"}), marks : SUBSET Requests])'
    BY <2>1, <2>8 DEF MachineTyped
  <2>6. (overtaken \subseteq Requests /\ others \in [steps : Nat, removed : BOOLEAN, exposed : BOOLEAN])'
    BY <2>1 DEF RowsTyped, MachineTyped
  <2>7. QED  BY <2>2, <2>3, <2>4, <2>5, <2>6 DEF MachineTyped
<1>3. OneConfirmation'
  BY DEF RowsTyped, MachineTyped, OneConfirmation, Begun, AskedFor
<1>4. Restoring!Confirmed'
  BY DEF RowsTyped, MachineTyped, OneConfirmation, Begun, Restoring!Confirmed, AskedFor,
     ConfirmationRows
<1>5. KindFits'
  BY DEF RowsTyped, MachineTyped, KindFits, PathPlaces, Owning, MadePlaces,
     RestorePlaces
<1>6. StagingFits'
  BY DEF RowsTyped, MachineTyped, KindFits, StagingFits, PathPlaces, Owning, MadePlaces,
     RestorePlaces, AskedFor
<1>7. PathsDelivered'
  BY DEF RowsTyped, MachineTyped, OneConfirmation, Begun, KindFits, StagingFits,
     PathsDelivered, Placed, PathPlaces, Owning, MadePlaces, RestorePlaces
<1>8. OwnerFits'
  BY DEF RowsTyped, MachineTyped, KindFits, OwnerFits, Ahead, PathPlaces, Owning,
     MadePlaces, RestorePlaces
<1>9. OthersApart'
  BY DEF MachineTyped, OthersApart, PathPlaces, Owning, MadePlaces, RestorePlaces
<1>10. Restoring!Spares
  BY DEF MachineTyped, OthersApart, Restoring!Spares
<1>11. QED  BY <1>1, <1>2, <1>3, <1>4, <1>5, <1>6, <1>7, <1>8, <1>9, <1>10

LEMMA RestoreLinkKept ==
  ASSUME RestoreInv, NEW r \in Requests, Restoring!Link(r)  PROVE RestoreInv' /\ Restoring!Spares
<1> USE RestoresAssumption DEF RestoreInv, RestoreTyped, Restoring!Link,
     Restoring!Published, Restoring!Move, Restoring!Abandoned, Restoring!Same,
          Restoring!Nothing, Restoring!Other, Restoring!Partial, Restoring!Exists
<1>1. RowsTyped'
  BY DEF RowsTyped, MachineTyped, Restoring!Limits, Restoring!Kinds, ConfirmationRows,
     AskedFor
<1>2. MachineTyped'
  <2>1. RestoreTyped /\ OneConfirmation /\ KindFits /\ StagingFits
    OBVIOUS
  <2>2. (step \in [Requests -> RestorePlaces])'
    BY <2>1 DEF RowsTyped, MachineTyped, PathPlaces, Owning, MadePlaces, RestorePlaces
  <2>3. (staging \in [Requests -> Snapshots \cup {"none", "partial"}])'
    BY <2>1 DEF RowsTyped, MachineTyped, OneConfirmation, KindFits, Begun, PathPlaces,
       AskedFor
  <2>4. (agent \in [for : Requests \cup {"none"},
                at : {"none", "claimed", "restoring", "fetched", "succeeding", "failing"}])'
    BY <2>1 DEF RowsTyped, MachineTyped
  <2>8. Restoring!Published(r) => staging[r] \in Snapshots
    BY <2>1 DEF KindFits, StagingFits, OneConfirmation, Begun, MachineTyped
  <2>5. (target \in [made : Requests \cup {"none", "other"},
                 holds : SUBSET (Snapshots \cup {"partial", "other"}), marks : SUBSET Requests])'
    BY <2>1, <2>8 DEF MachineTyped
  <2>6. (overtaken \subseteq Requests /\ others \in [steps : Nat, removed : BOOLEAN, exposed : BOOLEAN])'
    BY <2>1 DEF RowsTyped, MachineTyped
  <2>7. QED  BY <2>2, <2>3, <2>4, <2>5, <2>6 DEF MachineTyped
<1>3. OneConfirmation'
  BY DEF RowsTyped, MachineTyped, OneConfirmation, Begun, AskedFor
<1>4. Restoring!Confirmed'
  BY DEF RowsTyped, MachineTyped, OneConfirmation, Begun, Restoring!Confirmed, AskedFor,
     ConfirmationRows
<1>5. KindFits'
  BY DEF RowsTyped, MachineTyped, KindFits, PathPlaces, Owning, MadePlaces,
     RestorePlaces
<1>6. StagingFits'
  BY DEF RowsTyped, MachineTyped, KindFits, StagingFits, PathPlaces, Owning, MadePlaces,
     RestorePlaces, AskedFor
<1>7. PathsDelivered'
  BY DEF RowsTyped, MachineTyped, OneConfirmation, Begun, KindFits, StagingFits,
     PathsDelivered, Placed, PathPlaces, Owning, MadePlaces, RestorePlaces
<1>8. OwnerFits'
  BY DEF RowsTyped, MachineTyped, KindFits, OwnerFits, Ahead, PathPlaces, Owning,
     MadePlaces, RestorePlaces
<1>9. OthersApart'
  BY DEF MachineTyped, OthersApart, PathPlaces, Owning, MadePlaces, RestorePlaces
<1>10. Restoring!Spares
  BY DEF MachineTyped, OthersApart, Restoring!Spares
<1>11. QED  BY <1>1, <1>2, <1>3, <1>4, <1>5, <1>6, <1>7, <1>8, <1>9, <1>10

LEMMA RestoreRemoveStagingKept ==
  ASSUME RestoreInv, NEW r \in Requests, Restoring!RemoveStaging(r)
  PROVE  RestoreInv' /\ Restoring!Spares
<1> USE RestoresAssumption DEF RestoreInv, RestoreTyped, Restoring!RemoveStaging,
     Restoring!Move, Restoring!Same,
          Restoring!Nothing, Restoring!Other, Restoring!Partial, Restoring!Exists
<1>1. RowsTyped'
  BY DEF RowsTyped, MachineTyped, Restoring!Limits, Restoring!Kinds, ConfirmationRows,
     AskedFor
<1>2. MachineTyped'
  BY SMTT(30) DEF RowsTyped, MachineTyped, AskedFor, OneConfirmation, KindFits, Begun,
     PathPlaces, Owning, MadePlaces, RestorePlaces
<1>3. OneConfirmation'
  BY DEF RowsTyped, MachineTyped, OneConfirmation, Begun, AskedFor
<1>4. Restoring!Confirmed'
  BY DEF RowsTyped, MachineTyped, OneConfirmation, Begun, Restoring!Confirmed, AskedFor,
     ConfirmationRows
<1>5. KindFits'
  BY DEF RowsTyped, MachineTyped, KindFits, PathPlaces, Owning, MadePlaces,
     RestorePlaces
<1>6. StagingFits'
  BY DEF RowsTyped, MachineTyped, KindFits, StagingFits, PathPlaces, Owning, MadePlaces,
     RestorePlaces, AskedFor
<1>7. PathsDelivered'
  BY DEF RowsTyped, MachineTyped, OneConfirmation, Begun, KindFits, StagingFits,
     PathsDelivered, Placed, PathPlaces, Owning, MadePlaces, RestorePlaces
<1>8. OwnerFits'
  BY DEF RowsTyped, MachineTyped, KindFits, OwnerFits, Ahead, PathPlaces, Owning,
     MadePlaces, RestorePlaces
<1>9. OthersApart'
  BY DEF MachineTyped, OthersApart, PathPlaces, Owning, MadePlaces, RestorePlaces
<1>10. Restoring!Spares
  BY DEF MachineTyped, OthersApart, Restoring!Spares
<1>11. QED  BY <1>1, <1>2, <1>3, <1>4, <1>5, <1>6, <1>7, <1>8, <1>9, <1>10

LEMMA RestoreCreateRequestKept ==
  ASSUME RestoreInv, NEW r \in Requests, Restoring!CreateRequest(r)
  PROVE  RestoreInv' /\ Restoring!Spares
<1> USE RestoresAssumption DEF RestoreInv, RestoreTyped, Restoring!CreateRequest,
     Restoring!LockFree, Restoring!Enter, Restoring!Move, Restoring!Same,
     Restoring!Repository,
          Restoring!Nothing, Restoring!Other, Restoring!Partial, Restoring!Exists
<1>1. RowsTyped'
  BY DEF RowsTyped, MachineTyped, Restoring!Limits, Restoring!Kinds, ConfirmationRows,
     AskedFor
<1>2. MachineTyped'
  BY DEF RowsTyped, MachineTyped, AskedFor, OneConfirmation, KindFits, Begun,
     PathPlaces, Owning, MadePlaces, RestorePlaces
<1>3. OneConfirmation'
  BY DEF RowsTyped, MachineTyped, OneConfirmation, Begun, AskedFor
<1>4. Restoring!Confirmed'
  BY DEF RowsTyped, MachineTyped, OneConfirmation, Begun, Restoring!Confirmed, AskedFor,
     ConfirmationRows
<1>5. KindFits'
  BY DEF RowsTyped, MachineTyped, KindFits, PathPlaces, Owning, MadePlaces,
     RestorePlaces
<1>6. StagingFits'
  BY DEF RowsTyped, MachineTyped, KindFits, StagingFits, PathPlaces, Owning, MadePlaces,
     RestorePlaces, AskedFor
<1>7. PathsDelivered'
  BY DEF RowsTyped, MachineTyped, OneConfirmation, Begun, KindFits, StagingFits,
     PathsDelivered, Placed, PathPlaces, Owning, MadePlaces, RestorePlaces
<1>8. OwnerFits'
  BY DEF RowsTyped, MachineTyped, KindFits, OwnerFits, Ahead, PathPlaces, Owning,
     MadePlaces, RestorePlaces
<1>9. OthersApart'
  BY DEF MachineTyped, OthersApart, PathPlaces, Owning, MadePlaces, RestorePlaces
<1>10. Restoring!Spares
  BY DEF MachineTyped, OthersApart, Restoring!Spares
<1>11. QED  BY <1>1, <1>2, <1>3, <1>4, <1>5, <1>6, <1>7, <1>8, <1>9, <1>10

LEMMA RestoreClaimKept ==
  ASSUME RestoreInv, NEW r \in Requests, Restoring!Claim(r)  PROVE RestoreInv' /\ Restoring!Spares
<1> USE RestoresAssumption DEF RestoreInv, RestoreTyped, Restoring!Claim, Restoring!Enter,
     Restoring!Same,
          Restoring!Nothing, Restoring!Other, Restoring!Partial, Restoring!Exists
<1>1. RowsTyped'
  BY DEF RowsTyped, MachineTyped, Restoring!Limits, Restoring!Kinds, ConfirmationRows,
     AskedFor
<1>2. MachineTyped'
  BY DEF RowsTyped, MachineTyped, AskedFor, OneConfirmation, KindFits, Begun,
     PathPlaces, Owning, MadePlaces, RestorePlaces
<1>3. OneConfirmation'
  BY DEF RowsTyped, MachineTyped, OneConfirmation, Begun, AskedFor
<1>4. Restoring!Confirmed'
  BY DEF RowsTyped, MachineTyped, OneConfirmation, Begun, Restoring!Confirmed, AskedFor,
     ConfirmationRows
<1>5. KindFits'
  BY DEF RowsTyped, MachineTyped, KindFits, PathPlaces, Owning, MadePlaces,
     RestorePlaces
<1>6. StagingFits'
  BY DEF RowsTyped, MachineTyped, KindFits, StagingFits, PathPlaces, Owning, MadePlaces,
     RestorePlaces, AskedFor
<1>7. PathsDelivered'
  BY DEF RowsTyped, MachineTyped, OneConfirmation, Begun, KindFits, StagingFits,
     PathsDelivered, Placed, PathPlaces, Owning, MadePlaces, RestorePlaces
<1>8. OwnerFits'
  BY DEF RowsTyped, MachineTyped, KindFits, OwnerFits, Ahead, PathPlaces, Owning,
     MadePlaces, RestorePlaces
<1>9. OthersApart'
  BY DEF MachineTyped, OthersApart, PathPlaces, Owning, MadePlaces, RestorePlaces
<1>10. Restoring!Spares
  BY DEF MachineTyped, OthersApart, Restoring!Spares
<1>11. QED  BY <1>1, <1>2, <1>3, <1>4, <1>5, <1>6, <1>7, <1>8, <1>9, <1>10

LEMMA RestoreAgentStageKept ==
  ASSUME RestoreInv, NEW r \in Requests, Restoring!AgentStage(r)
  PROVE  RestoreInv' /\ Restoring!Spares
<1> USE RestoresAssumption DEF RestoreInv, RestoreTyped, Restoring!AgentStage,
     Restoring!AgentMove, Restoring!Same,
          Restoring!Nothing, Restoring!Other, Restoring!Partial, Restoring!Exists
<1>1. RowsTyped'
  BY DEF RowsTyped, MachineTyped, Restoring!Limits, Restoring!Kinds, ConfirmationRows,
     AskedFor
<1>2. MachineTyped'
  BY SMTT(30) DEF RowsTyped, MachineTyped, AskedFor, OneConfirmation, KindFits, Begun,
     PathPlaces, Owning, MadePlaces, RestorePlaces
<1>3. OneConfirmation'
  BY DEF RowsTyped, MachineTyped, OneConfirmation, Begun, AskedFor
<1>4. Restoring!Confirmed'
  BY DEF RowsTyped, MachineTyped, OneConfirmation, Begun, Restoring!Confirmed, AskedFor,
     ConfirmationRows
<1>5. KindFits'
  BY DEF RowsTyped, MachineTyped, KindFits, PathPlaces, Owning, MadePlaces,
     RestorePlaces
<1>6. StagingFits'
  BY DEF RowsTyped, MachineTyped, KindFits, StagingFits, PathPlaces, Owning, MadePlaces,
     RestorePlaces, AskedFor
<1>7. PathsDelivered'
  BY DEF RowsTyped, MachineTyped, OneConfirmation, Begun, KindFits, StagingFits,
     PathsDelivered, Placed, PathPlaces, Owning, MadePlaces, RestorePlaces
<1>8. OwnerFits'
  BY DEF RowsTyped, MachineTyped, KindFits, OwnerFits, Ahead, PathPlaces, Owning,
     MadePlaces, RestorePlaces
<1>9. OthersApart'
  BY DEF MachineTyped, OthersApart, PathPlaces, Owning, MadePlaces, RestorePlaces
<1>10. Restoring!Spares
  BY DEF MachineTyped, OthersApart, Restoring!Spares
<1>11. QED  BY <1>1, <1>2, <1>3, <1>4, <1>5, <1>6, <1>7, <1>8, <1>9, <1>10

LEMMA RestoreAgentFetchKept ==
  ASSUME RestoreInv, NEW r \in Requests, Restoring!AgentFetch(r)
  PROVE  RestoreInv' /\ Restoring!Spares
<1> USE RestoresAssumption DEF RestoreInv, RestoreTyped, Restoring!AgentFetch,
     Restoring!AgentMove, Restoring!Same,
          Restoring!Nothing, Restoring!Other, Restoring!Partial, Restoring!Exists
<1>1. RowsTyped'
  BY DEF RowsTyped, MachineTyped, Restoring!Limits, Restoring!Kinds, ConfirmationRows,
     AskedFor
<1>2. MachineTyped'
  BY DEF RowsTyped, MachineTyped, AskedFor, OneConfirmation, KindFits, Begun,
     PathPlaces, Owning, MadePlaces, RestorePlaces
<1>3. OneConfirmation'
  BY DEF RowsTyped, MachineTyped, OneConfirmation, Begun, AskedFor
<1>4. Restoring!Confirmed'
  BY DEF RowsTyped, MachineTyped, OneConfirmation, Begun, Restoring!Confirmed, AskedFor,
     ConfirmationRows
<1>5. KindFits'
  BY DEF RowsTyped, MachineTyped, KindFits, PathPlaces, Owning, MadePlaces,
     RestorePlaces
<1>6. StagingFits'
  BY DEF RowsTyped, MachineTyped, KindFits, StagingFits, PathPlaces, Owning, MadePlaces,
     RestorePlaces, AskedFor
<1>7. PathsDelivered'
  BY DEF RowsTyped, MachineTyped, OneConfirmation, Begun, KindFits, StagingFits,
     PathsDelivered, Placed, PathPlaces, Owning, MadePlaces, RestorePlaces
<1>8. OwnerFits'
  BY DEF RowsTyped, MachineTyped, KindFits, OwnerFits, Ahead, PathPlaces, Owning,
     MadePlaces, RestorePlaces
<1>9. OthersApart'
  BY DEF MachineTyped, OthersApart, PathPlaces, Owning, MadePlaces, RestorePlaces
<1>10. Restoring!Spares
  BY DEF MachineTyped, OthersApart, Restoring!Spares
<1>11. QED  BY <1>1, <1>2, <1>3, <1>4, <1>5, <1>6, <1>7, <1>8, <1>9, <1>10

LEMMA RestoreAgentRenameKept ==
  ASSUME RestoreInv, NEW r \in Requests, Restoring!AgentRename(r)
  PROVE  RestoreInv' /\ Restoring!Spares
<1> USE RestoresAssumption DEF RestoreInv, RestoreTyped, Restoring!AgentRename,
     Restoring!Published, Restoring!AgentMove, Restoring!Same,
          Restoring!Nothing, Restoring!Other, Restoring!Partial, Restoring!Exists
<1>1. RowsTyped'
  BY DEF RowsTyped, MachineTyped, Restoring!Limits, Restoring!Kinds, ConfirmationRows,
     AskedFor
<1>2. MachineTyped'
  <2>1. RestoreTyped /\ OneConfirmation /\ KindFits /\ StagingFits
    OBVIOUS
  <2>2. (step \in [Requests -> RestorePlaces])'
    BY <2>1 DEF RowsTyped, MachineTyped, PathPlaces, Owning, MadePlaces, RestorePlaces
  <2>3. (staging \in [Requests -> Snapshots \cup {"none", "partial"}])'
    BY <2>1 DEF RowsTyped, MachineTyped, OneConfirmation, KindFits, Begun, PathPlaces,
       AskedFor
  <2>4. (agent \in [for : Requests \cup {"none"},
                at : {"none", "claimed", "restoring", "fetched", "succeeding", "failing"}])'
    BY <2>1 DEF RowsTyped, MachineTyped
  <2>8. Restoring!Published(r) => staging[r] \in Snapshots
    BY <2>1 DEF KindFits, StagingFits, OneConfirmation, Begun, MachineTyped
  <2>5. (target \in [made : Requests \cup {"none", "other"},
                 holds : SUBSET (Snapshots \cup {"partial", "other"}), marks : SUBSET Requests])'
    BY <2>1, <2>8 DEF MachineTyped
  <2>6. (overtaken \subseteq Requests /\ others \in [steps : Nat, removed : BOOLEAN, exposed : BOOLEAN])'
    BY <2>1 DEF RowsTyped, MachineTyped
  <2>7. QED  BY <2>2, <2>3, <2>4, <2>5, <2>6 DEF MachineTyped
<1>3. OneConfirmation'
  BY DEF RowsTyped, MachineTyped, OneConfirmation, Begun, AskedFor
<1>4. Restoring!Confirmed'
  BY DEF RowsTyped, MachineTyped, OneConfirmation, Begun, Restoring!Confirmed, AskedFor,
     ConfirmationRows
<1>5. KindFits'
  BY DEF RowsTyped, MachineTyped, KindFits, PathPlaces, Owning, MadePlaces,
     RestorePlaces
<1>6. StagingFits'
  BY DEF RowsTyped, MachineTyped, KindFits, StagingFits, PathPlaces, Owning, MadePlaces,
     RestorePlaces, AskedFor
<1>7. PathsDelivered'
  BY DEF RowsTyped, MachineTyped, OneConfirmation, Begun, KindFits, StagingFits,
     PathsDelivered, Placed, PathPlaces, Owning, MadePlaces, RestorePlaces
<1>8. OwnerFits'
  BY DEF RowsTyped, MachineTyped, KindFits, OwnerFits, Ahead, PathPlaces, Owning,
     MadePlaces, RestorePlaces
<1>9. OthersApart'
  BY DEF MachineTyped, OthersApart, PathPlaces, Owning, MadePlaces, RestorePlaces
<1>10. Restoring!Spares
  BY DEF MachineTyped, OthersApart, Restoring!Spares
<1>11. QED  BY <1>1, <1>2, <1>3, <1>4, <1>5, <1>6, <1>7, <1>8, <1>9, <1>10

LEMMA RestoreCompleteKept ==
  ASSUME RestoreInv, NEW r \in Requests, Restoring!Complete(r)
  PROVE  RestoreInv' /\ Restoring!Spares
<1> USE RestoresAssumption DEF RestoreInv, RestoreTyped, Restoring!Complete,
     Restoring!Enter, Restoring!Same,
          Restoring!Nothing, Restoring!Other, Restoring!Partial, Restoring!Exists
<1>1. RowsTyped'
  BY DEF RowsTyped, MachineTyped, Restoring!Limits, Restoring!Kinds, ConfirmationRows,
     AskedFor
<1>2. MachineTyped'
  BY DEF RowsTyped, MachineTyped, AskedFor, OneConfirmation, KindFits, Begun,
     PathPlaces, Owning, MadePlaces, RestorePlaces
<1>3. OneConfirmation'
  BY DEF RowsTyped, MachineTyped, OneConfirmation, Begun, AskedFor
<1>4. Restoring!Confirmed'
  BY DEF RowsTyped, MachineTyped, OneConfirmation, Begun, Restoring!Confirmed, AskedFor,
     ConfirmationRows
<1>5. KindFits'
  BY DEF RowsTyped, MachineTyped, KindFits, PathPlaces, Owning, MadePlaces,
     RestorePlaces
<1>6. StagingFits'
  BY DEF RowsTyped, MachineTyped, KindFits, StagingFits, PathPlaces, Owning, MadePlaces,
     RestorePlaces, AskedFor
<1>7. PathsDelivered'
  BY DEF RowsTyped, MachineTyped, OneConfirmation, Begun, KindFits, StagingFits,
     PathsDelivered, Placed, PathPlaces, Owning, MadePlaces, RestorePlaces
<1>8. OwnerFits'
  BY DEF RowsTyped, MachineTyped, KindFits, OwnerFits, Ahead, PathPlaces, Owning,
     MadePlaces, RestorePlaces
<1>9. OthersApart'
  BY DEF MachineTyped, OthersApart, PathPlaces, Owning, MadePlaces, RestorePlaces
<1>10. Restoring!Spares
  BY DEF MachineTyped, OthersApart, Restoring!Spares
<1>11. QED  BY <1>1, <1>2, <1>3, <1>4, <1>5, <1>6, <1>7, <1>8, <1>9, <1>10

LEMMA RestorePollKept ==
  ASSUME RestoreInv, NEW r \in Requests, Restoring!Poll(r)  PROVE RestoreInv' /\ Restoring!Spares
<1> USE RestoresAssumption DEF RestoreInv, RestoreTyped, Restoring!Poll, Restoring!Move,
     Restoring!Same,
          Restoring!Nothing, Restoring!Other, Restoring!Partial, Restoring!Exists
<1>1. RowsTyped'
  BY DEF RowsTyped, MachineTyped, Restoring!Limits, Restoring!Kinds, ConfirmationRows,
     AskedFor
<1>2. MachineTyped'
  BY DEF RowsTyped, MachineTyped, AskedFor, OneConfirmation, KindFits, Begun,
     PathPlaces, Owning, MadePlaces, RestorePlaces
<1>3. OneConfirmation'
  BY DEF RowsTyped, MachineTyped, OneConfirmation, Begun, AskedFor
<1>4. Restoring!Confirmed'
  BY DEF RowsTyped, MachineTyped, OneConfirmation, Begun, Restoring!Confirmed, AskedFor,
     ConfirmationRows
<1>5. KindFits'
  BY DEF RowsTyped, MachineTyped, KindFits, PathPlaces, Owning, MadePlaces,
     RestorePlaces
<1>6. StagingFits'
  BY DEF RowsTyped, MachineTyped, KindFits, StagingFits, PathPlaces, Owning, MadePlaces,
     RestorePlaces, AskedFor
<1>7. PathsDelivered'
  BY DEF RowsTyped, MachineTyped, OneConfirmation, Begun, KindFits, StagingFits,
     PathsDelivered, Placed, PathPlaces, Owning, MadePlaces, RestorePlaces
<1>8. OwnerFits'
  BY DEF RowsTyped, MachineTyped, KindFits, OwnerFits, Ahead, PathPlaces, Owning,
     MadePlaces, RestorePlaces
<1>9. OthersApart'
  BY DEF MachineTyped, OthersApart, PathPlaces, Owning, MadePlaces, RestorePlaces
<1>10. Restoring!Spares
  BY DEF MachineTyped, OthersApart, Restoring!Spares
<1>11. QED  BY <1>1, <1>2, <1>3, <1>4, <1>5, <1>6, <1>7, <1>8, <1>9, <1>10

LEMMA RestoreExpireKept ==
  ASSUME RestoreInv, NEW r \in Requests, Restoring!Expire(r)
  PROVE  RestoreInv' /\ Restoring!Spares
<1> USE RestoresAssumption DEF RestoreInv, RestoreTyped, Restoring!Expire, Restoring!Enter,
     Restoring!Move, Restoring!Same,
          Restoring!Nothing, Restoring!Other, Restoring!Partial, Restoring!Exists
<1>1. RowsTyped'
  BY DEF RowsTyped, MachineTyped, Restoring!Limits, Restoring!Kinds, ConfirmationRows,
     AskedFor
<1>2. MachineTyped'
  BY DEF RowsTyped, MachineTyped, AskedFor, OneConfirmation, KindFits, Begun,
     PathPlaces, Owning, MadePlaces, RestorePlaces
<1>3. OneConfirmation'
  BY DEF RowsTyped, MachineTyped, OneConfirmation, Begun, AskedFor
<1>4. Restoring!Confirmed'
  BY DEF RowsTyped, MachineTyped, OneConfirmation, Begun, Restoring!Confirmed, AskedFor,
     ConfirmationRows
<1>5. KindFits'
  BY DEF RowsTyped, MachineTyped, KindFits, PathPlaces, Owning, MadePlaces,
     RestorePlaces
<1>6. StagingFits'
  BY DEF RowsTyped, MachineTyped, KindFits, StagingFits, PathPlaces, Owning, MadePlaces,
     RestorePlaces, AskedFor
<1>7. PathsDelivered'
  BY DEF RowsTyped, MachineTyped, OneConfirmation, Begun, KindFits, StagingFits,
     PathsDelivered, Placed, PathPlaces, Owning, MadePlaces, RestorePlaces
<1>8. OwnerFits'
  BY DEF RowsTyped, MachineTyped, KindFits, OwnerFits, Ahead, PathPlaces, Owning,
     MadePlaces, RestorePlaces
<1>9. OthersApart'
  BY DEF MachineTyped, OthersApart, PathPlaces, Owning, MadePlaces, RestorePlaces
<1>10. Restoring!Spares
  BY DEF MachineTyped, OthersApart, Restoring!Spares
<1>11. QED  BY <1>1, <1>2, <1>3, <1>4, <1>5, <1>6, <1>7, <1>8, <1>9, <1>10

LEMMA RestoreFindKept ==
  ASSUME RestoreInv, NEW r \in Requests, Restoring!Find(r)  PROVE RestoreInv' /\ Restoring!Spares
<1> USE RestoresAssumption DEF RestoreInv, RestoreTyped, Restoring!Find, Restoring!Move,
     Restoring!Untouched,
          Restoring!Nothing, Restoring!Other, Restoring!Partial, Restoring!Exists
<1>1. RowsTyped'
  BY DEF RowsTyped, MachineTyped, Restoring!Limits, Restoring!Kinds, ConfirmationRows,
     AskedFor
<1>2. MachineTyped'
  BY DEF RowsTyped, MachineTyped, AskedFor, OneConfirmation, KindFits, Begun,
     PathPlaces, Owning, MadePlaces, RestorePlaces
<1>3. OneConfirmation'
  BY DEF RowsTyped, MachineTyped, OneConfirmation, Begun, AskedFor
<1>4. Restoring!Confirmed'
  BY DEF RowsTyped, MachineTyped, OneConfirmation, Begun, Restoring!Confirmed, AskedFor,
     ConfirmationRows
<1>5. KindFits'
  BY DEF RowsTyped, MachineTyped, KindFits, PathPlaces, Owning, MadePlaces,
     RestorePlaces
<1>6. StagingFits'
  BY DEF RowsTyped, MachineTyped, KindFits, StagingFits, PathPlaces, Owning, MadePlaces,
     RestorePlaces, AskedFor
<1>7. PathsDelivered'
  BY DEF RowsTyped, MachineTyped, OneConfirmation, Begun, KindFits, StagingFits,
     PathsDelivered, Placed, PathPlaces, Owning, MadePlaces, RestorePlaces
<1>8. OwnerFits'
  BY DEF RowsTyped, MachineTyped, KindFits, OwnerFits, Ahead, PathPlaces, Owning,
     MadePlaces, RestorePlaces
<1>9. OthersApart'
  BY DEF MachineTyped, OthersApart, PathPlaces, Owning, MadePlaces, RestorePlaces
<1>10. Restoring!Spares
  BY DEF MachineTyped, OthersApart, Restoring!Spares
<1>11. QED  BY <1>1, <1>2, <1>3, <1>4, <1>5, <1>6, <1>7, <1>8, <1>9, <1>10

LEMMA RestoreInspectKept ==
  ASSUME RestoreInv, NEW r \in Requests, Restoring!Inspect(r)
  PROVE  RestoreInv' /\ Restoring!Spares
<1> USE RestoresAssumption DEF RestoreInv, RestoreTyped, Restoring!Inspect,
     Restoring!EmptyThere, Restoring!Move, Restoring!Untouched,
          Restoring!Nothing, Restoring!Other, Restoring!Partial, Restoring!Exists
<1>1. RowsTyped'
  BY DEF RowsTyped, MachineTyped, Restoring!Limits, Restoring!Kinds, ConfirmationRows,
     AskedFor
<1>2. MachineTyped'
  BY DEF RowsTyped, MachineTyped, AskedFor, OneConfirmation, KindFits, Begun,
     PathPlaces, Owning, MadePlaces, RestorePlaces
<1>3. OneConfirmation'
  BY DEF RowsTyped, MachineTyped, OneConfirmation, Begun, AskedFor
<1>4. Restoring!Confirmed'
  BY DEF RowsTyped, MachineTyped, OneConfirmation, Begun, Restoring!Confirmed, AskedFor,
     ConfirmationRows
<1>5. KindFits'
  BY DEF RowsTyped, MachineTyped, KindFits, PathPlaces, Owning, MadePlaces,
     RestorePlaces
<1>6. StagingFits'
  BY DEF RowsTyped, MachineTyped, KindFits, StagingFits, PathPlaces, Owning, MadePlaces,
     RestorePlaces, AskedFor
<1>7. PathsDelivered'
  BY DEF RowsTyped, MachineTyped, OneConfirmation, Begun, KindFits, StagingFits,
     PathsDelivered, Placed, PathPlaces, Owning, MadePlaces, RestorePlaces
<1>8. OwnerFits'
  BY DEF RowsTyped, MachineTyped, KindFits, OwnerFits, Ahead, PathPlaces, Owning,
     MadePlaces, RestorePlaces, Restoring!EmptyThere
<1>9. OthersApart'
  BY DEF MachineTyped, OthersApart, PathPlaces, Owning, MadePlaces, RestorePlaces
<1>10. Restoring!Spares
  BY DEF MachineTyped, OthersApart, Restoring!Spares
<1>11. QED  BY <1>1, <1>2, <1>3, <1>4, <1>5, <1>6, <1>7, <1>8, <1>9, <1>10

LEMMA RestoreCreateKept ==
  ASSUME RestoreInv, NEW r \in Requests, Restoring!Create(r)
  PROVE  RestoreInv' /\ Restoring!Spares
<1> USE RestoresAssumption DEF RestoreInv, RestoreTyped, Restoring!Create, Restoring!Move,
     Restoring!Untouched,
          Restoring!Nothing, Restoring!Other, Restoring!Partial, Restoring!Exists
<1>1. RowsTyped'
  BY DEF RowsTyped, MachineTyped, Restoring!Limits, Restoring!Kinds, ConfirmationRows,
     AskedFor
<1>2. MachineTyped'
  <2>1. step' \in [Requests -> RestorePlaces]
    BY DEF MachineTyped, PathPlaces, Owning, MadePlaces, RestorePlaces
  <2>2. target' \in [made : Requests \cup {"none", "other"},
                     holds : SUBSET (Snapshots \cup {"partial", "other"}), marks : SUBSET Requests]
    BY DEF MachineTyped, Restoring!Missing
  <2>3. UNCHANGED <<staging, agent, overtaken, others>>
    OBVIOUS
  <2>4. QED  BY <2>1, <2>2, <2>3 DEF MachineTyped
<1>3. OneConfirmation'
  BY DEF RowsTyped, MachineTyped, OneConfirmation, Begun, AskedFor
<1>4. Restoring!Confirmed'
  BY DEF RowsTyped, MachineTyped, OneConfirmation, Begun, Restoring!Confirmed, AskedFor,
     ConfirmationRows
<1>5. KindFits'
  BY DEF RowsTyped, MachineTyped, KindFits, PathPlaces, Owning, MadePlaces,
     RestorePlaces
<1>6. StagingFits'
  BY DEF RowsTyped, MachineTyped, KindFits, StagingFits, PathPlaces, Owning, MadePlaces,
     RestorePlaces, AskedFor
<1>7. PathsDelivered'
  BY DEF RowsTyped, MachineTyped, OneConfirmation, Begun, KindFits, StagingFits,
     PathsDelivered, Placed, PathPlaces, Owning, MadePlaces, RestorePlaces
<1>8. OwnerFits'
  BY DEF RowsTyped, MachineTyped, KindFits, OwnerFits, Ahead, PathPlaces, Owning,
     MadePlaces, RestorePlaces, Restoring!Missing
<1>9. OthersApart'
  BY DEF MachineTyped, OthersApart, PathPlaces, Owning, MadePlaces, RestorePlaces,
     Restoring!Missing
<1>10. Restoring!Spares
  BY DEF MachineTyped, OthersApart, Restoring!Spares
<1>11. QED  BY <1>1, <1>2, <1>3, <1>4, <1>5, <1>6, <1>7, <1>8, <1>9, <1>10

LEMMA RestoreMarkCreatedKept ==
  ASSUME RestoreInv, NEW r \in Requests, Restoring!MarkCreated(r)
  PROVE  RestoreInv' /\ Restoring!Spares
<1> USE RestoresAssumption DEF RestoreInv, RestoreTyped, Restoring!MarkCreated,
     Restoring!Move, Restoring!Untouched,
          Restoring!Nothing, Restoring!Other, Restoring!Partial, Restoring!Exists
<1>1. RowsTyped'
  BY DEF RowsTyped, MachineTyped, Restoring!Limits, Restoring!Kinds, ConfirmationRows,
     AskedFor
<1>2. MachineTyped'
  <2>1. step' \in [Requests -> RestorePlaces]
    BY DEF MachineTyped, PathPlaces, Owning, MadePlaces, RestorePlaces
  <2>2. target' \in [made : Requests \cup {"none", "other"},
                     holds : SUBSET (Snapshots \cup {"partial", "other"}), marks : SUBSET Requests]
    BY DEF MachineTyped, OneConfirmation, Begun
  <2>3. UNCHANGED <<staging, agent, overtaken, others>>
    OBVIOUS
  <2>4. QED  BY <2>1, <2>2, <2>3 DEF MachineTyped
<1>3. OneConfirmation'
  BY DEF RowsTyped, MachineTyped, OneConfirmation, Begun, AskedFor
<1>4. Restoring!Confirmed'
  BY DEF RowsTyped, MachineTyped, OneConfirmation, Begun, Restoring!Confirmed, AskedFor,
     ConfirmationRows
<1>5. KindFits'
  BY DEF RowsTyped, MachineTyped, KindFits, PathPlaces, Owning, MadePlaces,
     RestorePlaces
<1>6. StagingFits'
  BY DEF RowsTyped, MachineTyped, KindFits, StagingFits, PathPlaces, Owning, MadePlaces,
     RestorePlaces, AskedFor
<1>7. PathsDelivered'
  BY DEF RowsTyped, MachineTyped, OneConfirmation, Begun, KindFits, StagingFits,
     PathsDelivered, Placed, PathPlaces, Owning, MadePlaces, RestorePlaces
<1>8. OwnerFits'
  BY DEF RowsTyped, MachineTyped, KindFits, OwnerFits, Ahead, PathPlaces, Owning,
     MadePlaces, RestorePlaces
<1>9. OthersApart'
  BY DEF MachineTyped, OthersApart, PathPlaces, Owning, MadePlaces, RestorePlaces
<1>10. Restoring!Spares
  BY DEF MachineTyped, OthersApart, Restoring!Spares
<1>11. QED  BY <1>1, <1>2, <1>3, <1>4, <1>5, <1>6, <1>7, <1>8, <1>9, <1>10

LEMMA RestoreImportKept ==
  ASSUME RestoreInv, NEW r \in Requests, Restoring!Import(r)
  PROVE  RestoreInv' /\ Restoring!Spares
<1> USE RestoresAssumption DEF RestoreInv, RestoreTyped, Restoring!Import, Restoring!Move,
     Restoring!Untouched,
          Restoring!Nothing, Restoring!Other, Restoring!Partial, Restoring!Exists
<1>1. RowsTyped'
  BY DEF RowsTyped, MachineTyped, Restoring!Limits, Restoring!Kinds, ConfirmationRows,
     AskedFor
<1>2. MachineTyped'
  <2>1. step' \in [Requests -> RestorePlaces]
    BY DEF MachineTyped, PathPlaces, Owning, MadePlaces, RestorePlaces
  <2>2. target' \in [made : Requests \cup {"none", "other"},
                     holds : SUBSET (Snapshots \cup {"partial", "other"}), marks : SUBSET Requests]
    BY DEF MachineTyped, OneConfirmation, Begun
  <2>3. UNCHANGED <<staging, agent, overtaken, others>>
    OBVIOUS
  <2>4. QED  BY <2>1, <2>2, <2>3 DEF MachineTyped
<1>3. OneConfirmation'
  BY DEF RowsTyped, MachineTyped, OneConfirmation, Begun, AskedFor
<1>4. Restoring!Confirmed'
  BY DEF RowsTyped, MachineTyped, OneConfirmation, Begun, Restoring!Confirmed, AskedFor,
     ConfirmationRows
<1>5. KindFits'
  BY DEF RowsTyped, MachineTyped, KindFits, PathPlaces, Owning, MadePlaces,
     RestorePlaces
<1>6. StagingFits'
  BY DEF RowsTyped, MachineTyped, KindFits, StagingFits, PathPlaces, Owning, MadePlaces,
     RestorePlaces, AskedFor
<1>7. PathsDelivered'
  BY DEF RowsTyped, MachineTyped, OneConfirmation, Begun, KindFits, StagingFits,
     PathsDelivered, Placed, PathPlaces, Owning, MadePlaces, RestorePlaces
<1>8. OwnerFits'
  BY DEF RowsTyped, MachineTyped, KindFits, OwnerFits, Ahead, PathPlaces, Owning,
     MadePlaces, RestorePlaces
<1>9. OthersApart'
  BY DEF MachineTyped, OthersApart, PathPlaces, Owning, MadePlaces, RestorePlaces
<1>10. Restoring!Spares
  BY DEF MachineTyped, OthersApart, Restoring!Spares
<1>11. QED  BY <1>1, <1>2, <1>3, <1>4, <1>5, <1>6, <1>7, <1>8, <1>9, <1>10

LEMMA RestoreGuardKept ==
  ASSUME RestoreInv, NEW r \in Requests, Restoring!Guard(r)  PROVE RestoreInv' /\ Restoring!Spares
<1> USE RestoresAssumption DEF RestoreInv, RestoreTyped, Restoring!Guard,
     Restoring!CleanupCheck, Restoring!Move, Restoring!Untouched,
          Restoring!Nothing, Restoring!Other, Restoring!Partial, Restoring!Exists
<1>1. RowsTyped'
  BY DEF RowsTyped, MachineTyped, Restoring!Limits, Restoring!Kinds, ConfirmationRows,
     AskedFor
<1>2. MachineTyped'
  BY DEF RowsTyped, MachineTyped, AskedFor, OneConfirmation, KindFits, Begun,
     PathPlaces, Owning, MadePlaces, RestorePlaces
<1>3. OneConfirmation'
  BY DEF RowsTyped, MachineTyped, OneConfirmation, Begun, AskedFor
<1>4. Restoring!Confirmed'
  BY DEF RowsTyped, MachineTyped, OneConfirmation, Begun, Restoring!Confirmed, AskedFor,
     ConfirmationRows
<1>5. KindFits'
  BY DEF RowsTyped, MachineTyped, KindFits, PathPlaces, Owning, MadePlaces,
     RestorePlaces
<1>6. StagingFits'
  BY DEF RowsTyped, MachineTyped, KindFits, StagingFits, PathPlaces, Owning, MadePlaces,
     RestorePlaces, AskedFor
<1>7. PathsDelivered'
  BY DEF RowsTyped, MachineTyped, OneConfirmation, Begun, KindFits, StagingFits,
     PathsDelivered, Placed, PathPlaces, Owning, MadePlaces, RestorePlaces
<1>8. OwnerFits'
  BY DEF RowsTyped, MachineTyped, KindFits, OwnerFits, Ahead, PathPlaces, Owning,
     MadePlaces, RestorePlaces
<1>9. OthersApart'
  BY DEF MachineTyped, OthersApart, PathPlaces, Owning, MadePlaces, RestorePlaces
<1>10. Restoring!Spares
  BY DEF MachineTyped, OthersApart, Restoring!Spares
<1>11. QED  BY <1>1, <1>2, <1>3, <1>4, <1>5, <1>6, <1>7, <1>8, <1>9, <1>10

LEMMA RestoreDropCreatedKept ==
  ASSUME RestoreInv, NEW r \in Requests, Restoring!DropCreated(r)
  PROVE  RestoreInv' /\ Restoring!Spares
<1> USE RestoresAssumption DEF RestoreInv, RestoreTyped, Restoring!DropCreated,
     Restoring!Move, Restoring!Untouched,
          Restoring!Nothing, Restoring!Other, Restoring!Partial, Restoring!Exists
<1>1. RowsTyped'
  BY DEF RowsTyped, MachineTyped, Restoring!Limits, Restoring!Kinds, ConfirmationRows,
     AskedFor
<1>2. MachineTyped'
  BY DEF RowsTyped, MachineTyped, AskedFor, OneConfirmation, KindFits, Begun,
     PathPlaces, Owning, MadePlaces, RestorePlaces, Restoring!Missing
<1>3. OneConfirmation'
  BY DEF RowsTyped, MachineTyped, OneConfirmation, Begun, AskedFor
<1>4. Restoring!Confirmed'
  BY DEF RowsTyped, MachineTyped, OneConfirmation, Begun, Restoring!Confirmed, AskedFor,
     ConfirmationRows
<1>5. KindFits'
  BY DEF RowsTyped, MachineTyped, KindFits, PathPlaces, Owning, MadePlaces,
     RestorePlaces
<1>6. StagingFits'
  BY DEF RowsTyped, MachineTyped, KindFits, StagingFits, PathPlaces, Owning, MadePlaces,
     RestorePlaces, AskedFor
<1>7. PathsDelivered'
  BY DEF RowsTyped, MachineTyped, OneConfirmation, Begun, KindFits, StagingFits,
     PathsDelivered, Placed, PathPlaces, Owning, MadePlaces, RestorePlaces
<1>8. OwnerFits'
  BY DEF RowsTyped, MachineTyped, KindFits, OwnerFits, Ahead, PathPlaces, Owning,
     MadePlaces, RestorePlaces, Restoring!Missing
<1>9. OthersApart'
  BY DEF MachineTyped, OthersApart, PathPlaces, Owning, MadePlaces, RestorePlaces,
     Restoring!Missing
<1>10. Restoring!Spares
  BY DEF MachineTyped, OthersApart, Restoring!Spares
<1>11. QED  BY <1>1, <1>2, <1>3, <1>4, <1>5, <1>6, <1>7, <1>8, <1>9, <1>10

LEMMA RestoreUnmarkCreatedKept ==
  ASSUME RestoreInv, NEW r \in Requests, Restoring!UnmarkCreated(r)
  PROVE  RestoreInv' /\ Restoring!Spares
<1> USE RestoresAssumption DEF RestoreInv, RestoreTyped, Restoring!UnmarkCreated,
     Restoring!Move, Restoring!Untouched,
          Restoring!Nothing, Restoring!Other, Restoring!Partial, Restoring!Exists
<1>1. RowsTyped'
  BY DEF RowsTyped, MachineTyped, Restoring!Limits, Restoring!Kinds, ConfirmationRows,
     AskedFor
<1>2. MachineTyped'
  BY DEF RowsTyped, MachineTyped, AskedFor, OneConfirmation, KindFits, Begun,
     PathPlaces, Owning, MadePlaces, RestorePlaces
<1>3. OneConfirmation'
  BY DEF RowsTyped, MachineTyped, OneConfirmation, Begun, AskedFor
<1>4. Restoring!Confirmed'
  BY DEF RowsTyped, MachineTyped, OneConfirmation, Begun, Restoring!Confirmed, AskedFor,
     ConfirmationRows
<1>5. KindFits'
  BY DEF RowsTyped, MachineTyped, KindFits, PathPlaces, Owning, MadePlaces,
     RestorePlaces
<1>6. StagingFits'
  BY DEF RowsTyped, MachineTyped, KindFits, StagingFits, PathPlaces, Owning, MadePlaces,
     RestorePlaces, AskedFor
<1>7. PathsDelivered'
  BY DEF RowsTyped, MachineTyped, OneConfirmation, Begun, KindFits, StagingFits,
     PathsDelivered, Placed, PathPlaces, Owning, MadePlaces, RestorePlaces
<1>8. OwnerFits'
  BY DEF RowsTyped, MachineTyped, KindFits, OwnerFits, Ahead, PathPlaces, Owning,
     MadePlaces, RestorePlaces
<1>9. OthersApart'
  BY DEF MachineTyped, OthersApart, PathPlaces, Owning, MadePlaces, RestorePlaces
<1>10. Restoring!Spares
  BY DEF MachineTyped, OthersApart, Restoring!Spares
<1>11. QED  BY <1>1, <1>2, <1>3, <1>4, <1>5, <1>6, <1>7, <1>8, <1>9, <1>10

LEMMA RestoreSetLimitKept ==
  ASSUME RestoreInv, Restoring!SetLimit  PROVE RestoreInv' /\ Restoring!Spares
<1> USE RestoresAssumption DEF RestoreInv, RestoreTyped, Restoring!SetLimit,
          Restoring!Nothing, Restoring!Other, Restoring!Partial, Restoring!Exists
<1>1. RowsTyped'
  BY DEF RowsTyped, MachineTyped, Restoring!Limits, Restoring!Kinds, ConfirmationRows,
     AskedFor
<1>2. MachineTyped'
  BY DEF RowsTyped, MachineTyped, AskedFor, OneConfirmation, KindFits, Begun,
     PathPlaces, Owning, MadePlaces, RestorePlaces
<1>3. OneConfirmation'
  BY DEF RowsTyped, MachineTyped, OneConfirmation, Begun, AskedFor
<1>4. Restoring!Confirmed'
  BY DEF RowsTyped, MachineTyped, OneConfirmation, Begun, Restoring!Confirmed, AskedFor,
     ConfirmationRows
<1>5. KindFits'
  BY DEF RowsTyped, MachineTyped, KindFits, PathPlaces, Owning, MadePlaces,
     RestorePlaces
<1>6. StagingFits'
  BY DEF RowsTyped, MachineTyped, KindFits, StagingFits, PathPlaces, Owning, MadePlaces,
     RestorePlaces, AskedFor
<1>7. PathsDelivered'
  BY DEF RowsTyped, MachineTyped, OneConfirmation, Begun, KindFits, StagingFits,
     PathsDelivered, Placed, PathPlaces, Owning, MadePlaces, RestorePlaces
<1>8. OwnerFits'
  BY DEF RowsTyped, MachineTyped, KindFits, OwnerFits, Ahead, PathPlaces, Owning,
     MadePlaces, RestorePlaces
<1>9. OthersApart'
  BY DEF MachineTyped, OthersApart, PathPlaces, Owning, MadePlaces, RestorePlaces
<1>10. Restoring!Spares
  BY DEF MachineTyped, OthersApart, Restoring!Spares
<1>11. QED  BY <1>1, <1>2, <1>3, <1>4, <1>5, <1>6, <1>7, <1>8, <1>9, <1>10

LEMMA RestoreStopKept ==
  ASSUME RestoreInv, Restoring!Stop  PROVE RestoreInv' /\ Restoring!Spares
<1> USE RestoresAssumption DEF RestoreInv, RestoreTyped, Restoring!Stop,
          Restoring!Nothing, Restoring!Other, Restoring!Partial, Restoring!Exists
<1>1. RowsTyped'
  BY DEF RowsTyped, MachineTyped, Restoring!Limits, Restoring!Kinds, ConfirmationRows,
     AskedFor
<1>2. MachineTyped'
  BY DEF RowsTyped, MachineTyped, AskedFor, OneConfirmation, KindFits, Begun,
     PathPlaces, Owning, MadePlaces, RestorePlaces, Restoring!Ended
<1>3. OneConfirmation'
  BY DEF RowsTyped, MachineTyped, OneConfirmation, Begun, AskedFor, Restoring!Ended
<1>4. Restoring!Confirmed'
  BY DEF RowsTyped, MachineTyped, OneConfirmation, Begun, Restoring!Confirmed, AskedFor,
     ConfirmationRows, Restoring!Ended
<1>5. KindFits'
  BY DEF RowsTyped, MachineTyped, KindFits, PathPlaces, Owning, MadePlaces,
     RestorePlaces, Restoring!Ended
<1>6. StagingFits'
  BY DEF RowsTyped, MachineTyped, KindFits, StagingFits, PathPlaces, Owning, MadePlaces,
     RestorePlaces, AskedFor, Restoring!Ended
<1>7. PathsDelivered'
  BY DEF RowsTyped, MachineTyped, OneConfirmation, Begun, KindFits, StagingFits,
     PathsDelivered, Placed, PathPlaces, Owning, MadePlaces, RestorePlaces,
     Restoring!Ended
<1>8. OwnerFits'
  BY DEF RowsTyped, MachineTyped, KindFits, OwnerFits, Ahead, PathPlaces, Owning,
     MadePlaces, RestorePlaces, Restoring!Ended
<1>9. OthersApart'
  BY DEF MachineTyped, OthersApart, PathPlaces, Owning, MadePlaces, RestorePlaces,
     Restoring!Ended
<1>10. Restoring!Spares
  BY DEF MachineTyped, OthersApart, Restoring!Spares
<1>11. QED  BY <1>1, <1>2, <1>3, <1>4, <1>5, <1>6, <1>7, <1>8, <1>9, <1>10

LEMMA RestoreAgentStopsKept ==
  ASSUME RestoreInv, Restoring!AgentStops  PROVE RestoreInv' /\ Restoring!Spares
<1> USE RestoresAssumption DEF RestoreInv, RestoreTyped, Restoring!AgentStops, Restoring!Same,
          Restoring!Nothing, Restoring!Other, Restoring!Partial, Restoring!Exists
<1>1. RowsTyped'
  BY DEF RowsTyped, MachineTyped, Restoring!Limits, Restoring!Kinds, ConfirmationRows,
     AskedFor
<1>2. MachineTyped'
  BY DEF RowsTyped, MachineTyped, AskedFor, OneConfirmation, KindFits, Begun,
     PathPlaces, Owning, MadePlaces, RestorePlaces
<1>3. OneConfirmation'
  BY DEF RowsTyped, MachineTyped, OneConfirmation, Begun, AskedFor
<1>4. Restoring!Confirmed'
  BY DEF RowsTyped, MachineTyped, OneConfirmation, Begun, Restoring!Confirmed, AskedFor,
     ConfirmationRows
<1>5. KindFits'
  BY DEF RowsTyped, MachineTyped, KindFits, PathPlaces, Owning, MadePlaces,
     RestorePlaces
<1>6. StagingFits'
  BY DEF RowsTyped, MachineTyped, KindFits, StagingFits, PathPlaces, Owning, MadePlaces,
     RestorePlaces, AskedFor
<1>7. PathsDelivered'
  BY DEF RowsTyped, MachineTyped, OneConfirmation, Begun, KindFits, StagingFits,
     PathsDelivered, Placed, PathPlaces, Owning, MadePlaces, RestorePlaces
<1>8. OwnerFits'
  BY DEF RowsTyped, MachineTyped, KindFits, OwnerFits, Ahead, PathPlaces, Owning,
     MadePlaces, RestorePlaces
<1>9. OthersApart'
  BY DEF MachineTyped, OthersApart, PathPlaces, Owning, MadePlaces, RestorePlaces
<1>10. Restoring!Spares
  BY DEF MachineTyped, OthersApart, Restoring!Spares
<1>11. QED  BY <1>1, <1>2, <1>3, <1>4, <1>5, <1>6, <1>7, <1>8, <1>9, <1>10

LEMMA RestoreOthersKept ==
  ASSUME RestoreInv, Restoring!Others  PROVE RestoreInv' /\ Restoring!Spares
<1> USE RestoresAssumption DEF RestoreInv, RestoreTyped, Restoring!Others, Restoring!OthersMake,
     Restoring!OthersFill, Restoring!OthersRemove, Restoring!Between,
          Restoring!Nothing, Restoring!Other, Restoring!Partial, Restoring!Exists
<1>1. RowsTyped'
  BY DEF RowsTyped, MachineTyped, Restoring!Limits, Restoring!Kinds, ConfirmationRows,
     AskedFor
<1>2. MachineTyped'
  <2>1. RestoreTyped /\ OneConfirmation /\ KindFits
    OBVIOUS
  <2>2. (step \in [Requests -> RestorePlaces])'
    BY <2>1 DEF RowsTyped, MachineTyped, PathPlaces, Owning, MadePlaces, RestorePlaces
  <2>3. (staging \in [Requests -> Snapshots \cup {"none", "partial"}])'
    BY <2>1 DEF RowsTyped, MachineTyped, OneConfirmation, KindFits, Begun, PathPlaces,
       AskedFor
  <2>4. (agent \in [for : Requests \cup {"none"},
                at : {"none", "claimed", "restoring", "fetched", "succeeding", "failing"}])'
    BY <2>1 DEF RowsTyped, MachineTyped
  <2>5. (target \in [made : Requests \cup {"none", "other"},
                 holds : SUBSET (Snapshots \cup {"partial", "other"}), marks : SUBSET Requests])'
    BY <2>1 DEF RowsTyped, MachineTyped, OneConfirmation, KindFits, Begun, PathPlaces,
       MadePlaces, Owning, AskedFor, Restoring!Missing
  <2>6. (overtaken \subseteq Requests)' /\ others' \in [steps : Nat, removed : BOOLEAN, exposed : BOOLEAN]
    <3>1. others \in [steps : Nat, removed : BOOLEAN, exposed : BOOLEAN]
      BY <2>1 DEF MachineTyped
    <3>2. \/ \E b \in BOOLEAN : others' = [others EXCEPT !.steps = @ + 1, !.exposed = b]
          \/ others' = [others EXCEPT !.steps = @ + 1]
          \/ others' = [steps |-> others.steps + 1, removed |-> TRUE, exposed |-> FALSE]
      OBVIOUS
    <3>3. others' \in [steps : Nat, removed : BOOLEAN, exposed : BOOLEAN]
      <4> HIDE DEF Restoring!Others
      <4>1. ASSUME NEW b \in BOOLEAN, others' = [others EXCEPT !.steps = @ + 1, !.exposed = b]
            PROVE  others' \in [steps : Nat, removed : BOOLEAN, exposed : BOOLEAN]
        <5>1. others' = [steps |-> others.steps + 1, removed |-> others.removed, exposed |-> b]
          BY <3>1, <4>1
        <5>2. QED  BY <3>1, <5>1
      <4>2. CASE others' = [others EXCEPT !.steps = @ + 1]
        BY <3>1, <4>2
      <4>3. CASE others' = [steps |-> others.steps + 1, removed |-> TRUE, exposed |-> FALSE]
        BY <3>1, <4>3
      <4>4. QED  BY <3>2, <4>1, <4>2, <4>3
    <3>4. QED  BY <2>1, <3>3 DEF MachineTyped
  <2>7. QED  BY <2>2, <2>3, <2>4, <2>5, <2>6 DEF MachineTyped
<1>3. OneConfirmation'
  BY DEF RowsTyped, MachineTyped, OneConfirmation, Begun, AskedFor
<1>4. Restoring!Confirmed'
  BY DEF RowsTyped, MachineTyped, OneConfirmation, Begun, Restoring!Confirmed, AskedFor,
     ConfirmationRows
<1>5. KindFits'
  BY DEF RowsTyped, MachineTyped, KindFits, PathPlaces, Owning, MadePlaces,
     RestorePlaces
<1>6. StagingFits'
  BY DEF RowsTyped, MachineTyped, KindFits, StagingFits, PathPlaces, Owning, MadePlaces,
     RestorePlaces, AskedFor
<1>7. \/ /\ target' = [made |-> "other", holds |-> {"other"}, marks |-> {}]
         /\ target.made = "none" /\ others'.removed = others.removed
         /\ (Restoring!Between => others'.exposed)
      \/ /\ target' = [target EXCEPT !.holds = @ \cup {"other"}]
         /\ target.made # "none" /\ others'.removed = others.removed
         /\ others'.exposed = others.exposed
      \/ /\ target' = [made |-> "none", holds |-> {}, marks |-> {}]
         /\ others'.removed /\ target.made # "none"
  <2>1. others \in [steps : Nat, removed : BOOLEAN, exposed : BOOLEAN]
    BY DEF MachineTyped
  <2>2. CASE Restoring!OthersMake
    <3>1. others'.removed = others.removed /\ (Restoring!Between => others'.exposed)
      BY <2>1, <2>2 DEF Restoring!OthersMake
    <3>2. QED  BY <2>2, <3>1 DEF Restoring!OthersMake
  <2>3. CASE Restoring!OthersFill
    BY <2>1, <2>3 DEF Restoring!OthersFill
  <2>4. CASE Restoring!OthersRemove
    BY <2>4 DEF Restoring!OthersRemove, Restoring!Missing
  <2>5. QED  BY <2>2, <2>3, <2>4 DEF Restoring!Others
<1>8. UNCHANGED <<kind, step, request, staging, entry, agent, overtaken>>
  OBVIOUS
<1>9. PathsDelivered' /\ OwnerFits' /\ OthersApart'
  <2> HIDE DEF Restoring!Others
  <2>1. CASE /\ target' = [made |-> "other", holds |-> {"other"}, marks |-> {}]
             /\ target.made = "none" /\ others'.removed = others.removed
             /\ (Restoring!Between => others'.exposed)
    <3>1. PathsDelivered'
      BY <1>8, <2>1 DEF PathsDelivered, Placed, MachineTyped
    <3>2. OwnerFits'
      <4>1. kind = "database" /\ ~others.removed =>
              \A q \in Requests : step[q] \notin Owning /\ ~Ahead(q)
        BY <2>1 DEF OwnerFits, MachineTyped
      <4>2. QED  BY <1>8, <2>1, <4>1 DEF OwnerFits, Ahead, Owning
    <3>3. OthersApart'
      BY <1>8, <2>1 DEF OthersApart, Restoring!Between
    <3>4. QED  BY <3>1, <3>2, <3>3
  <2>2. CASE /\ target' = [target EXCEPT !.holds = @ \cup {"other"}]
             /\ target.made # "none" /\ others'.removed = others.removed
             /\ others'.exposed = others.exposed
    <3>1. /\ target'.made = target.made /\ target'.marks = target.marks
          /\ target.holds \subseteq target'.holds
          /\ "partial" \in target'.holds => "partial" \in target.holds
      BY <2>2 DEF MachineTyped
    <3>2. QED  BY <1>8, <2>2, <3>1 DEF PathsDelivered, Placed, OwnerFits, Ahead, OthersApart
  <2>3. CASE /\ target' = [made |-> "none", holds |-> {}, marks |-> {}]
             /\ others'.removed /\ target.made # "none"
    BY <2>3 DEF PathsDelivered, OwnerFits, OthersApart
  <2>4. QED  BY <1>7, <2>1, <2>2, <2>3
<1>10. Restoring!Spares
  BY DEF MachineTyped, OthersApart, Restoring!Spares
<1>11. QED  BY <1>1, <1>2, <1>3, <1>4, <1>5, <1>6, <1>9, <1>10

LEMMA RestoreStays == ASSUME RestoreInv, UNCHANGED Restoring!vars  PROVE RestoreInv'
<1> USE DEF RestoreInv, RestoreTyped, Restoring!vars
<1>1. RowsTyped'  BY DEF RowsTyped
<1>2. MachineTyped'  BY DEF MachineTyped
<1>3. OneConfirmation' /\ Restoring!Confirmed'  BY DEF OneConfirmation, Begun, Restoring!Confirmed
<1>4. KindFits' /\ StagingFits'  BY DEF KindFits, StagingFits
<1>5. PathsDelivered'  BY DEF PathsDelivered, Placed
<1>6. OwnerFits' /\ OthersApart'  BY DEF OwnerFits, OthersApart, Ahead, Restoring!Exists
<1>7. QED  BY <1>1, <1>2, <1>3, <1>4, <1>5, <1>6

LEMMA RestoreStep == ASSUME RestoreInv, Restoring!Next  PROVE RestoreInv' /\ Restoring!Spares
<1>1. ASSUME NEW c \in Confirmations,
             (\E s \in Snapshots : Restoring!Preflight(c, s)) \/ Restoring!Authorize(c) \/ Restoring!Lapse(c)
      PROVE  RestoreInv' /\ Restoring!Spares
  BY <1>1, RestorePreflightKept, RestoreAuthorizeKept, RestoreLapseKept
<1>2. ASSUME NEW r \in Requests, NEW c \in Confirmations, NEW s \in Snapshots, Restoring!Consume(r, c, s)
      PROVE  RestoreInv' /\ Restoring!Spares
  BY <1>2, RestoreConsumeKept
<1>3. ASSUME NEW r \in Requests,
             Restoring!Prepare(r) \/ Restoring!Fetch(r) \/ Restoring!Look(r) \/
             Restoring!Rename(r) \/ Restoring!Link(r) \/ Restoring!RemoveStaging(r) \/
             Restoring!CreateRequest(r) \/ Restoring!Claim(r) \/ Restoring!AgentStage(r) \/
             Restoring!AgentFetch(r) \/ Restoring!AgentRename(r) \/
             Restoring!Complete(r) \/ Restoring!Poll(r) \/ Restoring!Expire(r) \/
             Restoring!Find(r) \/ Restoring!Inspect(r) \/ Restoring!Create(r) \/
             Restoring!MarkCreated(r) \/ Restoring!Import(r) \/ Restoring!Guard(r) \/
             Restoring!DropCreated(r) \/ Restoring!UnmarkCreated(r)
      PROVE  RestoreInv' /\ Restoring!Spares
  BY <1>3, RestorePrepareKept, RestoreFetchKept, RestoreLookKept, RestoreRenameKept,
     RestoreLinkKept, RestoreRemoveStagingKept, RestoreCreateRequestKept,
     RestoreClaimKept, RestoreAgentStageKept, RestoreAgentFetchKept,
     RestoreAgentRenameKept, RestoreCompleteKept, RestorePollKept, RestoreExpireKept,
     RestoreFindKept, RestoreInspectKept, RestoreCreateKept, RestoreMarkCreatedKept,
     RestoreImportKept, RestoreGuardKept, RestoreDropCreatedKept,
     RestoreUnmarkCreatedKept
<1>4. CASE Restoring!SetLimit \/ Restoring!Stop \/ Restoring!AgentStops \/ Restoring!Others
  BY <1>4, RestoreSetLimitKept, RestoreStopKept, RestoreAgentStopsKept,
     RestoreOthersKept
<1>5. QED  BY <1>1, <1>2, <1>3, <1>4 DEF Restoring!Next

(* A restore that reports success was confirmed once, restored what was    *)
(* confirmed, and its result stays until others remove it, whatever the    *)
(* other restores do, for any number of requests and confirmations.        *)
THEOREM RestoresAsConfirmed == Restoring!Spec => []RestoresWhatWasConfirmed
<1>1. RestoreInv => RestoresWhatWasConfirmed
  BY DEF RestoreInv, KindFits, PathsDelivered, OwnerFits, Ahead, Placed,
     RestoresWhatWasConfirmed, Restoring!RestoresWhatWasConfirmed, Restoring!Delivered,
     Restoring!Partial
<1>2. RestoreInv /\ [Restoring!Next]_(Restoring!vars) => RestoreInv'
  BY RestoreStep, RestoreStays
<1>3. QED  BY RestoreBegins, <1>1, <1>2, PTL DEF Restoring!Spec

(* What others have made at the target of a restore is not replaced or     *)
(* removed by one, unless they made it between two of its statements that  *)
(* belong together, for any number of requests and of steps of others.     *)
THEOREM RestoresSpareOthers == Restoring!Spec => SparesOthers
<1>1. RestoreInv /\ [Restoring!Next]_(Restoring!vars) => RestoreInv' /\ [Restoring!Spares]_restoreVars
  BY RestoreStep, RestoreStays DEF restoreVars, Restoring!vars
<1>2. QED  BY RestoreBegins, <1>1, PTL DEF Restoring!Spec, SparesOthers
=============================================================================
