------------------------ MODULE TaskLifecycle_proofs ------------------------
(***************************************************************************)
(* Theorems about TaskLifecycle for any number of agents, tasks and worker *)
(* processes, any policy cap and any loss threshold.                       *)
(***************************************************************************)
EXTENDS TaskLifecycle, TLAPS

(* The initial tables are well typed.                                       *)
LEMMA TypeInit == Init => TypeOK
  BY LifecycleAssumption
     DEF Init, TypeOK, AgentStatus, OpenStates, TerminalStates, NoLease

(* Ending a task leaves the tables it writes well typed.                    *)
LEMMA FinishType ==
  ASSUME TypeOK, NEW t \in Tasks, NEW end \in TerminalStates,
         NEW by \in {"none", "worker", "worker_lost", "override"},
         Finish(t, end, by), endReports' \in [Tasks -> Nat]
  PROVE  TypeOK'
  BY LifecycleAssumption
     DEF Finish, FreedCurrent, FreedStatus, TypeOK, AgentStatus, OpenStates,
         TerminalStates, clockVars, NoLease

(* A renewed lease is a time, not NULL.                                     *)
LEMMA RenewedType ==
  ASSUME TypeOK, NEW t \in Tasks, lease[t] # NoLease
  PROVE  Renewed(t) \in Nat
  BY LifecycleAssumption DEF TypeOK, Renewed, Least, Most, NoLease

(* Every operation keeps the tables well typed.                             *)
LEMMA TypeStep == TypeOK /\ [Next]_vars => TypeOK'
<1> SUFFICES ASSUME TypeOK, [Next]_vars PROVE TypeOK'
  OBVIOUS
<1> USE LifecycleAssumption DEF agentVars, taskVars, reports, clockVars
<1>1. ASSUME NEW a \in Agents, NEW i \in Instances,
             NEW w \in Workspaces \cup {NoWorkspace}, CheckIn(a, i, w)
      PROVE  TypeOK'
  BY <1>1 DEF CheckIn, Readmitted, OpenTaskId, TypeOK, AgentStatus
<1>2. ASSUME NEW a \in Agents, NEW i \in Instances, NEW t \in Tasks \cup {NoTask},
             Heartbeat(a, i, t)
      PROVE  TypeOK'
  <2>1. heartbeatAt' \in [Agents -> Nat]
    BY <1>2 DEF Heartbeat, Stamp, Most, TypeOK
  <2>2. lease' \in [Tasks -> Nat \cup {NoLease}]
    BY <1>2, RenewedType DEF Heartbeat, Renewable, TypeOK
  <2> QED
    BY <1>2, <2>1, <2>2 DEF Heartbeat, TypeOK
<1>3. ASSUME NEW a \in Agents, ReleaseAgent(a)
      PROVE  TypeOK'
  BY <1>3 DEF ReleaseAgent, TypeOK, AgentStatus
<1>4. ASSUME NEW a \in Agents, NEW t \in Tasks, NEW d \in Durations,
             AssignTask(a, t, d)
      PROVE  TypeOK'
  BY <1>4 DEF AssignTask, Least, TypeOK, AgentStatus, OpenStates
<1>5. ASSUME NEW a \in Agents, NEW t \in Tasks, ClaimAssignment(a, t)
      PROVE  TypeOK'
  BY <1>5 DEF ClaimAssignment, SetState, TypeOK, OpenStates
<1>6. ASSUME NEW a \in Agents, NEW i \in Instances, NEW t \in Tasks,
             OpenQuestion(a, i, t)
      PROVE  TypeOK'
  BY <1>6 DEF OpenQuestion, SetState, TypeOK, OpenStates
<1>7. ASSUME NEW t \in Tasks, Reply(t)
      PROVE  TypeOK'
  BY <1>7 DEF Reply, SetState, TypeOK, OpenStates
<1>8. ASSUME NEW a \in Agents, NEW i \in Instances, NEW t \in Tasks,
             NEW end \in {"completed", "failed"}, SubmitResult(a, i, t, end)
      PROVE  TypeOK'
  BY <1>8, FinishType DEF SubmitResult, TypeOK, TerminalStates
<1>9. ASSUME NEW t \in Tasks, NEW end \in {"canceled", "failed"}, SetTaskState(t, end)
      PROVE  TypeOK'
  BY <1>9, FinishType DEF SetTaskState, TypeOK, TerminalStates
<1>10. ASSUME NEW t \in Tasks, CancelTask(t)
       PROVE  TypeOK'
  BY <1>10, FinishType DEF CancelTask, TypeOK, TerminalStates
<1>11. CASE Sweep
  BY <1>11 DEF Sweep, FreedCurrent, FreedStatus, TypeOK, AgentStatus,
               TerminalStates, NoLease
<1>12. CASE Tick
  BY <1>12 DEF Tick, TypeOK
<1>13. CASE StepBack
  BY <1>13 DEF StepBack, TypeOK
<1>14. CASE UNCHANGED vars
  BY <1>14 DEF vars, TypeOK
<1> QED
  BY <1>1, <1>2, <1>3, <1>4, <1>5, <1>6, <1>7, <1>8, <1>9, <1>10, <1>11,
     <1>12, <1>13, <1>14 DEF Next

(* The agent and task tables always hold values of their types.             *)
THEOREM TypeCorrect == Spec => []TypeOK
<1>1. Init => TypeOK
  BY TypeInit
<1>2. TypeOK /\ [Next]_vars => TypeOK'
  BY TypeStep
<1> QED
  BY <1>1, <1>2, PTL DEF Spec

----------------------------------------------------------------------------
(* The two tables agree.  AgentTaskAgreement is inductive with TypeOK.      *)

(* Ending an open task frees the one agent that was on it.                  *)
LEMMA FinishAgreement ==
  ASSUME TypeOK, AgentTaskAgreement, NEW t \in Tasks,
         NEW end \in TerminalStates, NEW by, Finish(t, end, by)
  PROVE  AgentTaskAgreement'
<1>1. \A a \in Agents : current'[a] = IF current[a] = t THEN NoTask ELSE current[a]
  BY DEF Finish, FreedCurrent
<1>2. \A u \in Tasks : Open(u)' <=> Open(u) /\ u # t
  BY DEF Finish, Open, TypeOK, OpenStates, TerminalStates
<1>3. \A a \in Agents :
         status'[a] = IF current[a] = t /\ status[a] = "busy" THEN "idle" ELSE status[a]
  BY DEF Finish, FreedStatus
<1>4. UNCHANGED assignee
  BY DEF Finish
<1> QED
  BY <1>1, <1>2, <1>3, <1>4, LifecycleAssumption DEF AgentTaskAgreement, TypeOK

(* A step that moves an open task between open states disturbs nothing.     *)
LEMMA SetStateAgreement ==
  ASSUME TypeOK, AgentTaskAgreement, NEW t \in Tasks, NEW s \in OpenStates,
         Open(t), SetState(t, s)
  PROVE  AgentTaskAgreement'
<1>1. \A u \in Tasks : Open(u)' <=> Open(u)
  BY DEF SetState, Open, TypeOK
<1>2. UNCHANGED <<assignee, current, status>>
  BY DEF SetState, agentVars
<1> QED
  BY <1>1, <1>2, LifecycleAssumption DEF AgentTaskAgreement, TypeOK

(* Every operation keeps the agent and the task table in agreement.         *)
LEMMA AgreementStep == TypeOK /\ AgentTaskAgreement /\ [Next]_vars => AgentTaskAgreement'
<1> SUFFICES ASSUME TypeOK, AgentTaskAgreement, [Next]_vars
             PROVE  AgentTaskAgreement'
  OBVIOUS
<1> USE LifecycleAssumption DEF agentVars, taskVars
<1>1. ASSUME NEW a \in Agents, NEW i \in Instances,
             NEW w \in Workspaces \cup {NoWorkspace}, CheckIn(a, i, w)
      PROVE  AgentTaskAgreement'
  <2>1. OpenTaskId(a) = current[a]
    BY DEF OpenTaskId, AgentTaskAgreement
  <2>2. UNCHANGED <<current, state, assignee>>
    BY <1>1, <2>1 DEF CheckIn, TypeOK
  <2>3. \A t \in Tasks : Open(t)' <=> Open(t)
    BY <2>2 DEF Open
  <2>4. \A b \in Agents :
            status'[b] = IF b # a THEN status[b]
                         ELSE IF status[a] = "released" THEN "released"
                         ELSE IF current[a] # NoTask THEN "busy" ELSE "idle"
    BY <1>1, <2>1 DEF CheckIn, Readmitted, TypeOK
  <2> QED
    BY <2>2, <2>3, <2>4 DEF AgentTaskAgreement, TypeOK
<1>2. ASSUME NEW a \in Agents, NEW i \in Instances, NEW t \in Tasks \cup {NoTask},
             Heartbeat(a, i, t)
      PROVE  AgentTaskAgreement'
  BY <1>2 DEF Heartbeat, AgentTaskAgreement, Open
<1>3. ASSUME NEW a \in Agents, ReleaseAgent(a)
      PROVE  AgentTaskAgreement'
  BY <1>3 DEF ReleaseAgent, AgentTaskAgreement, TypeOK, Open
<1>4. ASSUME NEW a \in Agents, NEW t \in Tasks, NEW d \in Durations,
             AssignTask(a, t, d)
      PROVE  AgentTaskAgreement'
  <2>1. current[a] = NoTask /\ ~Open(t)
    BY <1>4 DEF AssignTask, AgentTaskAgreement, Open, OpenStates
  <2>2. \A u \in Tasks : Open(u)' <=> Open(u) \/ u = t
    BY <1>4 DEF AssignTask, TypeOK, Open, OpenStates
  <2>3. \A b \in Agents : current[b] # t
    BY <2>1 DEF AgentTaskAgreement
  <2> QED
    BY <1>4, <2>1, <2>2, <2>3 DEF AssignTask, AgentTaskAgreement, TypeOK
<1>5. ASSUME NEW a \in Agents, NEW t \in Tasks, ClaimAssignment(a, t)
      PROVE  AgentTaskAgreement'
  BY <1>5, SetStateAgreement DEF ClaimAssignment, Open, OpenStates
<1>6. ASSUME NEW a \in Agents, NEW i \in Instances, NEW t \in Tasks,
             OpenQuestion(a, i, t)
      PROVE  AgentTaskAgreement'
  BY <1>6, SetStateAgreement DEF OpenQuestion, Admitted, OpenStates
<1>7. ASSUME NEW t \in Tasks, Reply(t)
      PROVE  AgentTaskAgreement'
  BY <1>7, SetStateAgreement DEF Reply, Open, OpenStates
<1>8. ASSUME NEW a \in Agents, NEW i \in Instances, NEW t \in Tasks,
             NEW end \in {"completed", "failed"}, SubmitResult(a, i, t, end)
      PROVE  AgentTaskAgreement'
  BY <1>8, FinishAgreement DEF SubmitResult, TerminalStates
<1>9. ASSUME NEW t \in Tasks, NEW end \in {"canceled", "failed"}, SetTaskState(t, end)
      PROVE  AgentTaskAgreement'
  BY <1>9, FinishAgreement DEF SetTaskState, TerminalStates
<1>10. ASSUME NEW t \in Tasks, CancelTask(t)
       PROVE  AgentTaskAgreement'
  BY <1>10, FinishAgreement DEF CancelTask, TerminalStates
<1>11. CASE Sweep
  <2>1. \A t \in Tasks : Open(t)' <=> Open(t) /\ t \notin Stranded
    BY <1>11 DEF Sweep, Open, OpenStates
  <2>2. \A a \in Agents :
           /\ current'[a] = IF current[a] \in Stranded THEN NoTask ELSE current[a]
           /\ status'[a] = FreedStatus(a, IF a \in Silent THEN "lost" ELSE status[a],
                                       Stranded)
    BY <1>11 DEF Sweep, FreedCurrent
  <2>3. \A a \in Silent : current[a] = NoTask \/ current[a] \in Stranded
    BY DEF Silent, Stranded, AgentTaskAgreement, TypeOK
  <2>4. UNCHANGED assignee
    BY <1>11 DEF Sweep
  <2>5. \A a \in Agents : current'[a] # NoTask =>
            state'[current'[a]] \in OpenStates /\ assignee'[current'[a]] = a
    <3> SUFFICES ASSUME NEW a \in Agents, current'[a] # NoTask
                 PROVE  state'[current'[a]] \in OpenStates /\ assignee'[current'[a]] = a
      OBVIOUS
    <3>1. current'[a] = current[a] /\ current[a] \in Tasks \ Stranded
      BY <2>2 DEF TypeOK
    <3>2. Open(current[a]) /\ assignee[current[a]] = a
      BY <3>1 DEF AgentTaskAgreement
    <3> QED
      BY <2>1, <2>4, <3>1, <3>2 DEF Open
  <2>6. \A t \in Tasks : Open(t)' =>
            assignee'[t] \in Agents /\ current'[assignee'[t]] = t
    <3> SUFFICES ASSUME NEW t \in Tasks, Open(t)'
                 PROVE  assignee[t] \in Agents /\ current'[assignee[t]] = t
      BY <2>4
    <3>1. Open(t) /\ t \notin Stranded
      BY <2>1
    <3>2. assignee[t] \in Agents /\ current[assignee[t]] = t
      BY <3>1 DEF AgentTaskAgreement
    <3> QED
      BY <2>2, <3>1, <3>2
  <2>7. \A a \in Agents :
            /\ status'[a] = "busy" => current'[a] # NoTask
            /\ status'[a] \in {"absent", "idle", "lost"} => current'[a] = NoTask
    BY <2>2, <2>3 DEF AgentTaskAgreement, FreedStatus, Silent
  <2> QED
    BY <2>5, <2>6, <2>7 DEF AgentTaskAgreement, Open
<1>12. CASE Tick
  BY <1>12 DEF Tick, AgentTaskAgreement, Open
<1>13. CASE StepBack
  BY <1>13 DEF StepBack, AgentTaskAgreement, Open
<1>14. CASE UNCHANGED vars
  BY <1>14 DEF vars, AgentTaskAgreement, Open
<1> QED
  BY <1>1, <1>2, <1>3, <1>4, <1>5, <1>6, <1>7, <1>8, <1>9, <1>10, <1>11,
     <1>12, <1>13, <1>14 DEF Next

(* agent.current_task_id, agent.status and task.state never disagree,       *)
(* whatever workers, Alice and the sweeper do.                              *)
THEOREM AgreementHolds == Spec => []AgentTaskAgreement
<1>1. Init => AgentTaskAgreement
  BY LifecycleAssumption DEF Init, AgentTaskAgreement, Open, OpenStates
<1>2. TypeOK /\ AgentTaskAgreement /\ [Next]_vars => AgentTaskAgreement'
  BY AgreementStep
<1> QED
  BY <1>1, <1>2, TypeCorrect, PTL DEF Spec

----------------------------------------------------------------------------
(* Live agents keep to their own workspaces: inductive with TypeOK.         *)

(* Agents that are live after a step were live with the same workspace, or  *)
(* are a: enough for every operation but a check-in.                        *)
LEMMA NobodyMovesIn ==
  ASSUME WorkspaceExclusive, UNCHANGED workspace,
         \A b \in Agents : status'[b] \in LiveStatus => status[b] \in LiveStatus
  PROVE  WorkspaceExclusive'
  BY DEF WorkspaceExclusive

(* Every operation keeps the workspaces of live agents apart.               *)
LEMMA WorkspaceStep == TypeOK /\ WorkspaceExclusive /\ [Next]_vars => WorkspaceExclusive'
<1> SUFFICES ASSUME TypeOK, WorkspaceExclusive, [Next]_vars
             PROVE  WorkspaceExclusive'
  OBVIOUS
<1> USE DEF agentVars
<1>1. ASSUME NEW a \in Agents, NEW i \in Instances,
             NEW w \in Workspaces \cup {NoWorkspace}, CheckIn(a, i, w)
      PROVE  WorkspaceExclusive'
  <2>1. \A b \in Agents \ {a} : status'[b] = status[b] /\ workspace'[b] = workspace[b]
    BY <1>1 DEF CheckIn, TypeOK
  <2>2. workspace'[a] = w
    BY <1>1 DEF CheckIn, TypeOK
  <2>3. \A b \in Agents \ {a} :
            w # NoWorkspace /\ workspace[b] = w => status[b] \notin LiveStatus
    BY <1>1 DEF CheckIn, WorkspaceIsFree
  <2> QED
    BY <2>1, <2>2, <2>3 DEF WorkspaceExclusive
<1>2. ASSUME NEW a \in Agents, NEW i \in Instances, NEW t \in Tasks \cup {NoTask},
             Heartbeat(a, i, t)
      PROVE  WorkspaceExclusive'
  BY <1>2, NobodyMovesIn DEF Heartbeat
<1>3. ASSUME NEW a \in Agents, ReleaseAgent(a)
      PROVE  WorkspaceExclusive'
  BY <1>3, NobodyMovesIn DEF ReleaseAgent, LiveStatus, TypeOK
<1>4. ASSUME NEW a \in Agents, NEW t \in Tasks, NEW d \in Durations,
             AssignTask(a, t, d)
      PROVE  WorkspaceExclusive'
  BY <1>4, NobodyMovesIn DEF AssignTask, LiveStatus, TypeOK
<1>5. ASSUME NEW a \in Agents, NEW t \in Tasks, ClaimAssignment(a, t)
      PROVE  WorkspaceExclusive'
  BY <1>5, NobodyMovesIn DEF ClaimAssignment, SetState
<1>6. ASSUME NEW a \in Agents, NEW i \in Instances, NEW t \in Tasks,
             OpenQuestion(a, i, t)
      PROVE  WorkspaceExclusive'
  BY <1>6, NobodyMovesIn DEF OpenQuestion, SetState
<1>7. ASSUME NEW t \in Tasks, Reply(t)
      PROVE  WorkspaceExclusive'
  BY <1>7, NobodyMovesIn DEF Reply, SetState
<1>8. ASSUME NEW a \in Agents, NEW i \in Instances, NEW t \in Tasks,
             NEW end \in {"completed", "failed"}, SubmitResult(a, i, t, end)
      PROVE  WorkspaceExclusive'
  BY <1>8, NobodyMovesIn DEF SubmitResult, Finish, FreedStatus, LiveStatus, TypeOK
<1>9. ASSUME NEW t \in Tasks, NEW end \in {"canceled", "failed"}, SetTaskState(t, end)
      PROVE  WorkspaceExclusive'
  BY <1>9, NobodyMovesIn DEF SetTaskState, Finish, FreedStatus, LiveStatus, TypeOK
<1>10. ASSUME NEW t \in Tasks, CancelTask(t)
       PROVE  WorkspaceExclusive'
  BY <1>10, NobodyMovesIn DEF CancelTask, Finish, FreedStatus, LiveStatus, TypeOK
<1>11. CASE Sweep
  BY <1>11, NobodyMovesIn DEF Sweep, FreedStatus, LiveStatus, TypeOK
<1>12. CASE Tick
  BY <1>12, NobodyMovesIn DEF Tick
<1>13. CASE StepBack
  BY <1>13, NobodyMovesIn DEF StepBack
<1>14. CASE UNCHANGED vars
  BY <1>14, NobodyMovesIn DEF vars
<1> QED
  BY <1>1, <1>2, <1>3, <1>4, <1>5, <1>6, <1>7, <1>8, <1>9, <1>10, <1>11,
     <1>12, <1>13, <1>14 DEF Next

(* Two live workers never share a clone, whatever losses, releases and      *)
(* check-ins came before.                                                   *)
THEOREM WorkspaceHolds == Spec => []WorkspaceExclusive
<1>1. Init => WorkspaceExclusive
  BY DEF Init, WorkspaceExclusive
<1>2. TypeOK /\ WorkspaceExclusive /\ [Next]_vars => WorkspaceExclusive'
  BY WorkspaceStep
<1> QED
  BY <1>1, <1>2, TypeCorrect, PTL DEF Spec

----------------------------------------------------------------------------
(* No lease outlives the policy cap: inductive with TypeOK.                 *)

(* A step that gives no open task a later lease keeps the cap.              *)
LEMMA NoLaterLease ==
  ASSUME LeaseWithinCap, UNCHANGED created,
         \A t \in Tasks : Open(t)' => Open(t) /\ lease'[t] = lease[t]
  PROVE  LeaseWithinCap'
  BY DEF LeaseWithinCap

(* A renewed lease is within the cap, whatever the clock reads.             *)
LEMMA RenewedWithinCap ==
  ASSUME TypeOK, NEW t \in Tasks, lease[t] # NoLease
  PROVE  Renewed(t) <= created[t] + MaxTaskLease
  BY LifecycleAssumption DEF TypeOK, Renewed, Least, Most, NoLease

(* Every operation keeps the leases of open tasks within the cap.           *)
LEMMA LeaseStep == TypeOK /\ LeaseWithinCap /\ [Next]_vars => LeaseWithinCap'
<1> SUFFICES ASSUME TypeOK, LeaseWithinCap, [Next]_vars
             PROVE  LeaseWithinCap'
  OBVIOUS
<1> USE LifecycleAssumption DEF taskVars
<1>1. ASSUME NEW a \in Agents, NEW i \in Instances,
             NEW w \in Workspaces \cup {NoWorkspace}, CheckIn(a, i, w)
      PROVE  LeaseWithinCap'
  BY <1>1, NoLaterLease DEF CheckIn, Open
<1>2. ASSUME NEW a \in Agents, NEW i \in Instances, NEW t \in Tasks \cup {NoTask},
             Heartbeat(a, i, t)
      PROVE  LeaseWithinCap'
  <2>1. \A u \in Tasks : Open(u)' <=> Open(u)
    BY <1>2 DEF Heartbeat, Open
  <2>2. \A u \in Tasks : \/ lease'[u] = lease[u]
                           \/ lease'[u] <= created[u] + MaxTaskLease
    BY <1>2, RenewedWithinCap DEF Heartbeat, Renewable, TypeOK
  <2>3. UNCHANGED created
    BY <1>2 DEF Heartbeat
  <2> QED
    BY <2>1, <2>2, <2>3 DEF LeaseWithinCap
<1>3. ASSUME NEW a \in Agents, ReleaseAgent(a)
      PROVE  LeaseWithinCap'
  BY <1>3, NoLaterLease DEF ReleaseAgent, Open
<1>4. ASSUME NEW a \in Agents, NEW t \in Tasks, NEW d \in Durations,
             AssignTask(a, t, d)
      PROVE  LeaseWithinCap'
  <2>1. lease'[t] <= created'[t] + MaxTaskLease
    BY <1>4 DEF AssignTask, Least, TypeOK
  <2>2. \A u \in Tasks \ {t} : /\ Open(u)' <=> Open(u)
                                /\ lease'[u] = lease[u]
                                /\ created'[u] = created[u]
    BY <1>4 DEF AssignTask, Open, TypeOK
  <2> QED
    BY <2>1, <2>2 DEF LeaseWithinCap
<1>5. ASSUME NEW a \in Agents, NEW t \in Tasks, ClaimAssignment(a, t)
      PROVE  LeaseWithinCap'
  BY <1>5, NoLaterLease DEF ClaimAssignment, SetState, Open, OpenStates, TypeOK
<1>6. ASSUME NEW a \in Agents, NEW i \in Instances, NEW t \in Tasks,
             OpenQuestion(a, i, t)
      PROVE  LeaseWithinCap'
  BY <1>6, NoLaterLease DEF OpenQuestion, SetState, Admitted, Open, OpenStates, TypeOK
<1>7. ASSUME NEW t \in Tasks, Reply(t)
      PROVE  LeaseWithinCap'
  BY <1>7, NoLaterLease DEF Reply, SetState, Open, OpenStates, TypeOK
<1>8. ASSUME NEW a \in Agents, NEW i \in Instances, NEW t \in Tasks,
             NEW end \in {"completed", "failed"}, SubmitResult(a, i, t, end)
      PROVE  LeaseWithinCap'
  <2>1. \A u \in Tasks : Open(u)' => u # t /\ Open(u) /\ lease'[u] = lease[u]
    BY <1>8 DEF SubmitResult, Finish, Open, OpenStates, TypeOK
  <2>2. UNCHANGED created
    BY <1>8 DEF SubmitResult, Finish
  <2> QED
    BY <2>1, <2>2, NoLaterLease
<1>9. ASSUME NEW t \in Tasks, NEW end \in {"canceled", "failed"}, SetTaskState(t, end)
      PROVE  LeaseWithinCap'
  <2>1. \A u \in Tasks : Open(u)' => u # t /\ Open(u) /\ lease'[u] = lease[u]
    BY <1>9 DEF SetTaskState, Finish, Open, OpenStates, TypeOK
  <2>2. UNCHANGED created
    BY <1>9 DEF SetTaskState, Finish
  <2> QED
    BY <2>1, <2>2, NoLaterLease
<1>10. ASSUME NEW t \in Tasks, CancelTask(t)
       PROVE  LeaseWithinCap'
  <2>1. \A u \in Tasks : Open(u)' => u # t /\ Open(u) /\ lease'[u] = lease[u]
    BY <1>10 DEF CancelTask, Finish, Open, OpenStates, TypeOK
  <2>2. UNCHANGED created
    BY <1>10 DEF CancelTask, Finish
  <2> QED
    BY <2>1, <2>2, NoLaterLease
<1>11. CASE Sweep
  <2>1. \A t \in Tasks : /\ Open(t)' => Open(t)
                         /\ lease'[t] = lease[t] \/ lease'[t] = NoLease
                         /\ created'[t] = created[t]
    BY <1>11 DEF Sweep, Open, OpenStates
  <2> QED
    BY <2>1 DEF LeaseWithinCap, NoLease, TypeOK
<1>12. CASE Tick
  BY <1>12, NoLaterLease DEF Tick, Open
<1>13. CASE StepBack
  BY <1>13, NoLaterLease DEF StepBack, Open
<1>14. CASE UNCHANGED vars
  BY <1>14, NoLaterLease DEF vars, Open
<1> QED
  BY <1>1, <1>2, <1>3, <1>4, <1>5, <1>6, <1>7, <1>8, <1>9, <1>10, <1>11,
     <1>12, <1>13, <1>14 DEF Next

(* Heartbeats never carry a lease past created + max_task_lease_min.        *)
THEOREM LeaseHolds == Spec => []LeaseWithinCap
<1>1. Init => LeaseWithinCap
  BY DEF Init, LeaseWithinCap, Open, OpenStates
<1>2. TypeOK /\ LeaseWithinCap /\ [Next]_vars => LeaseWithinCap'
  BY LeaseStep
<1> QED
  BY <1>1, <1>2, TypeCorrect, PTL DEF Spec

----------------------------------------------------------------------------
(* Each event is queued once.                                               *)

(* A task id not yet minted has no reports: with it, ReportedOnce is        *)
(* inductive.                                                               *)
ReportsInv ==
    /\ ReportedOnce
    /\ \A t \in Tasks : state[t] = "none" => leaseReports[t] = 0 /\ endReports[t] = 0

(* A step that gives no lease to, takes none from and reports nothing about *)
(* any task, and ends none, changes nothing here.                           *)
LEMMA NothingReported ==
  ASSUME ReportsInv, UNCHANGED <<reports, result>>,
         \A t \in Tasks : /\ state'[t] = state[t] \/ (Open(t) /\ Open(t)')
                          /\ lease'[t] = NoLease <=> lease[t] = NoLease
  PROVE  ReportsInv'
  BY DEF ReportsInv, ReportedOnce, reports, Open, OpenStates, TerminalStates

(* An open task ends with one ending event if its worker ended it, with     *)
(* none if Alice did.                                                       *)
LEMMA FinishReports ==
  ASSUME TypeOK, ReportsInv, NEW t \in Tasks, Open(t), NEW end \in TerminalStates,
         NEW by \in {"none", "worker", "override"}, Finish(t, end, by),
         endReports' = IF by = "worker" THEN [endReports EXCEPT ![t] = @ + 1]
                       ELSE endReports
  PROVE  ReportsInv'
<1>1. /\ state'[t] = end
      /\ result'[t] = by
      /\ endReports'[t] = IF by = "worker" THEN 1 ELSE 0
      /\ leaseReports'[t] = leaseReports[t]
  BY DEF Finish, TypeOK, ReportsInv, ReportedOnce
<1>2. \A u \in Tasks \ {t} :
         /\ state'[u] = state[u] /\ result'[u] = result[u] /\ lease'[u] = lease[u]
         /\ endReports'[u] = endReports[u] /\ leaseReports'[u] = leaseReports[u]
  BY DEF Finish, TypeOK
<1>3. end # "none" /\ end \notin OpenStates
  BY DEF TerminalStates, OpenStates
<1> QED
  BY <1>1, <1>2, <1>3 DEF ReportsInv, ReportedOnce, Open

(* Every operation keeps the count of reports right.                        *)
LEMMA ReportsStep == TypeOK /\ ReportsInv /\ [Next]_vars => ReportsInv'
<1> SUFFICES ASSUME TypeOK, ReportsInv, [Next]_vars
             PROVE  ReportsInv'
  OBVIOUS
<1> USE LifecycleAssumption DEF taskVars, reports
<1>1. ASSUME NEW a \in Agents, NEW i \in Instances,
             NEW w \in Workspaces \cup {NoWorkspace}, CheckIn(a, i, w)
      PROVE  ReportsInv'
  BY <1>1, NothingReported DEF CheckIn
<1>2. ASSUME NEW a \in Agents, NEW i \in Instances, NEW t \in Tasks \cup {NoTask},
             Heartbeat(a, i, t)
      PROVE  ReportsInv'
  <2>1. \A u \in Tasks : lease'[u] = NoLease <=> lease[u] = NoLease
    BY <1>2, RenewedType DEF Heartbeat, Renewable, TypeOK, NoLease
  <2> QED
    BY <1>2, <2>1, NothingReported DEF Heartbeat
<1>3. ASSUME NEW a \in Agents, ReleaseAgent(a)
      PROVE  ReportsInv'
  BY <1>3, NothingReported DEF ReleaseAgent
<1>4. ASSUME NEW a \in Agents, NEW t \in Tasks, NEW d \in Durations,
             AssignTask(a, t, d)
      PROVE  ReportsInv'
  <2>1. state'[t] = "submitted" /\ lease'[t] \in Nat
    BY <1>4 DEF AssignTask, Least, TypeOK
  <2>2. leaseReports[t] = 0 /\ endReports[t] = 0
    BY <1>4 DEF AssignTask, ReportsInv
  <2>3. UNCHANGED <<leaseReports, endReports, result>>
    BY <1>4 DEF AssignTask
  <2>4. \A u \in Tasks \ {t} : state'[u] = state[u] /\ lease'[u] = lease[u]
    BY <1>4 DEF AssignTask, TypeOK
  <2> QED
    BY <2>1, <2>2, <2>3, <2>4
       DEF ReportsInv, ReportedOnce, Open, OpenStates, TerminalStates, NoLease
<1>5. ASSUME NEW a \in Agents, NEW t \in Tasks, ClaimAssignment(a, t)
      PROVE  ReportsInv'
  BY <1>5, NothingReported DEF ClaimAssignment, SetState, Open, OpenStates, TypeOK
<1>6. ASSUME NEW a \in Agents, NEW i \in Instances, NEW t \in Tasks,
             OpenQuestion(a, i, t)
      PROVE  ReportsInv'
  BY <1>6, NothingReported DEF OpenQuestion, SetState, Admitted, Open, OpenStates, TypeOK
<1>7. ASSUME NEW t \in Tasks, Reply(t)
      PROVE  ReportsInv'
  BY <1>7, NothingReported DEF Reply, SetState, Open, OpenStates, TypeOK
<1>8. ASSUME NEW a \in Agents, NEW i \in Instances, NEW t \in Tasks,
             NEW end \in {"completed", "failed"}, SubmitResult(a, i, t, end)
      PROVE  ReportsInv'
  BY <1>8, FinishReports DEF SubmitResult, Admitted, TerminalStates
<1>9. ASSUME NEW t \in Tasks, NEW end \in {"canceled", "failed"}, SetTaskState(t, end)
      PROVE  ReportsInv'
  BY <1>9, FinishReports DEF SetTaskState, TerminalStates
<1>10. ASSUME NEW t \in Tasks, CancelTask(t)
       PROVE  ReportsInv'
  BY <1>10, FinishReports DEF CancelTask, TerminalStates
<1>11. CASE Sweep
  <2>1. \A t \in Tasks :
           /\ state'[t] = IF t \in Stranded THEN "failed" ELSE state[t]
           /\ result'[t] = IF t \in Stranded THEN "worker_lost" ELSE result[t]
           /\ lease'[t] = IF t \in Overdue \cup Stranded THEN NoLease ELSE lease[t]
           /\ leaseReports'[t] = IF t \in Overdue THEN leaseReports[t] + 1
                                 ELSE leaseReports[t]
           /\ endReports'[t] = IF t \in Stranded THEN endReports[t] + 1
                               ELSE endReports[t]
    BY <1>11 DEF Sweep
  <2>2. \A t \in Overdue : Open(t) /\ leaseReports[t] = 0
    <3> SUFFICES ASSUME NEW t \in Overdue PROVE Open(t) /\ leaseReports[t] = 0
      OBVIOUS
    <3>1. t \in Tasks /\ Open(t) /\ lease[t] # NoLease
      BY DEF Overdue
    <3>2. leaseReports[t] <= 1 /\ leaseReports[t] # 1
      BY <3>1 DEF ReportsInv, ReportedOnce
    <3>3. leaseReports[t] \in Nat
      BY <3>1 DEF TypeOK
    <3> QED
      BY <3>1, <3>2, <3>3
  <2>3. \A t \in Stranded : Open(t) /\ endReports[t] = 0
    BY DEF Stranded, ReportsInv, ReportedOnce
  <2>4. \A t \in Tasks : leaseReports'[t] <= 1
    BY <2>1, <2>2 DEF ReportsInv, ReportedOnce
  <2>5. \A t \in Tasks : Open(t)' =>
            endReports'[t] = 0 /\ (lease'[t] = NoLease <=> leaseReports'[t] = 1)
    BY <2>1, <2>2 DEF ReportsInv, ReportedOnce, Open, OpenStates
  <2>6. \A t \in Tasks : state'[t] \in TerminalStates =>
            endReports'[t] = IF result'[t] \in {"worker", "worker_lost"} THEN 1 ELSE 0
    BY <2>1, <2>3 DEF ReportsInv, ReportedOnce
  <2>7. \A t \in Tasks : state'[t] = "none" =>
            leaseReports'[t] = 0 /\ endReports'[t] = 0
    BY <2>1, <2>2 DEF ReportsInv, Open, OpenStates
  <2> QED
    BY <2>4, <2>5, <2>6, <2>7 DEF ReportsInv, ReportedOnce
<1>12. CASE Tick
  BY <1>12, NothingReported DEF Tick
<1>13. CASE StepBack
  BY <1>13, NothingReported DEF StepBack
<1>14. CASE UNCHANGED vars
  BY <1>14, NothingReported DEF vars
<1> QED
  BY <1>1, <1>2, <1>3, <1>4, <1>5, <1>6, <1>7, <1>8, <1>9, <1>10, <1>11,
     <1>12, <1>13, <1>14 DEF Next

(* Alice is told of an expired lease, an ended or an abandoned task once,   *)
(* and of her own overrides and cancels not at all.                         *)
THEOREM ReportedOnceHolds == Spec => []ReportedOnce
<1>1. Init => ReportsInv
  BY DEF Init, ReportsInv, ReportedOnce, Open, OpenStates, TerminalStates
<1>2. TypeOK /\ ReportsInv /\ [Next]_vars => ReportsInv'
  BY ReportsStep
<1>3. ReportsInv => ReportedOnce
  BY DEF ReportsInv
<1> QED
  BY <1>1, <1>2, <1>3, TypeCorrect, PTL DEF Spec

----------------------------------------------------------------------------
(* What a step may never do.                                                *)

(* No operation takes an agent out of "released".                           *)
LEMMA ReleasedStep ==
  ASSUME TypeOK, [Next]_vars, NEW b \in Agents, status[b] = "released"
  PROVE  status'[b] = "released"
<1> USE DEF agentVars
<1>1. ASSUME NEW a \in Agents, NEW i \in Instances,
             NEW w \in Workspaces \cup {NoWorkspace}, CheckIn(a, i, w)
      PROVE  status'[b] = "released"
  BY <1>1 DEF CheckIn, Readmitted, TypeOK
<1>2. ASSUME NEW a \in Agents, NEW i \in Instances, NEW t \in Tasks \cup {NoTask},
             Heartbeat(a, i, t)
      PROVE  status'[b] = "released"
  BY <1>2 DEF Heartbeat
<1>3. ASSUME NEW a \in Agents, ReleaseAgent(a)
      PROVE  status'[b] = "released"
  BY <1>3 DEF ReleaseAgent, TypeOK
<1>4. ASSUME NEW a \in Agents, NEW t \in Tasks, NEW d \in Durations,
             AssignTask(a, t, d)
      PROVE  status'[b] = "released"
  BY <1>4 DEF AssignTask, TypeOK
<1>5. ASSUME NEW a \in Agents, NEW t \in Tasks, ClaimAssignment(a, t)
      PROVE  status'[b] = "released"
  BY <1>5 DEF ClaimAssignment, SetState
<1>6. ASSUME NEW a \in Agents, NEW i \in Instances, NEW t \in Tasks,
             OpenQuestion(a, i, t)
      PROVE  status'[b] = "released"
  BY <1>6 DEF OpenQuestion, SetState
<1>7. ASSUME NEW t \in Tasks, Reply(t)
      PROVE  status'[b] = "released"
  BY <1>7 DEF Reply, SetState
<1>8. ASSUME NEW a \in Agents, NEW i \in Instances, NEW t \in Tasks,
             NEW end \in {"completed", "failed"}, SubmitResult(a, i, t, end)
      PROVE  status'[b] = "released"
  BY <1>8 DEF SubmitResult, Finish, FreedStatus
<1>9. ASSUME NEW t \in Tasks, NEW end \in {"canceled", "failed"}, SetTaskState(t, end)
      PROVE  status'[b] = "released"
  BY <1>9 DEF SetTaskState, Finish, FreedStatus
<1>10. ASSUME NEW t \in Tasks, CancelTask(t)
       PROVE  status'[b] = "released"
  BY <1>10 DEF CancelTask, Finish, FreedStatus
<1>11. CASE Sweep
  BY <1>11 DEF Sweep, Silent, LiveStatus, FreedStatus
<1>12. CASE Tick
  BY <1>12 DEF Tick
<1>13. CASE StepBack
  BY <1>13 DEF StepBack
<1>14. CASE UNCHANGED vars
  BY <1>14 DEF vars
<1> QED
  BY <1>1, <1>2, <1>3, <1>4, <1>5, <1>6, <1>7, <1>8, <1>9, <1>10, <1>11,
     <1>12, <1>13, <1>14 DEF Next

(* A release is final.                                                      *)
THEOREM ReleaseHolds == Spec => ReleaseIsFinal
<1>1. TypeOK /\ [Next]_vars =>
        [\A a \in Agents : status[a] = "released" => status'[a] = "released"]_vars
  BY ReleasedStep
<1> QED
  BY <1>1, TypeCorrect, PTL DEF Spec, ReleaseIsFinal

(* A terminal task holds no lease.                                          *)
EndedHasNoLease == \A t \in Tasks : state[t] \in TerminalStates => lease[t] = NoLease

(* No operation changes an ended task, leases it or gives it to an agent.   *)
LEMMA TerminalStep ==
  ASSUME TypeOK, AgentTaskAgreement, EndedHasNoLease, [Next]_vars,
         NEW u \in Tasks, state[u] \in TerminalStates
  PROVE  /\ state'[u] = state[u] /\ result'[u] = result[u] /\ lease'[u] = NoLease
         /\ \A b \in Agents : current'[b] # u
<1> DEFINE Goal == /\ state'[u] = state[u] /\ result'[u] = result[u]
                   /\ lease'[u] = NoLease
                   /\ \A b \in Agents : current'[b] # u
<1>a. ~Open(u) /\ lease[u] = NoLease /\ state[u] # "none"
  BY DEF EndedHasNoLease, Open, OpenStates, TerminalStates
<1>b. u # NoTask /\ \A b \in Agents : current[b] # u
  BY <1>a, LifecycleAssumption DEF AgentTaskAgreement
<1> USE <1>a, <1>b DEF agentVars, taskVars
<1>1. ASSUME NEW a \in Agents, NEW i \in Instances,
             NEW w \in Workspaces \cup {NoWorkspace}, CheckIn(a, i, w)
      PROVE  Goal
  BY <1>1 DEF CheckIn, OpenTaskId, TypeOK
<1>2. ASSUME NEW a \in Agents, NEW i \in Instances, NEW t \in Tasks \cup {NoTask},
             Heartbeat(a, i, t)
      PROVE  Goal
  BY <1>2 DEF Heartbeat, Renewable, TypeOK
<1>3. ASSUME NEW a \in Agents, ReleaseAgent(a)
      PROVE  Goal
  BY <1>3 DEF ReleaseAgent
<1>4. ASSUME NEW a \in Agents, NEW t \in Tasks, NEW d \in Durations,
             AssignTask(a, t, d)
      PROVE  Goal
  BY <1>4 DEF AssignTask, TypeOK
<1>5. ASSUME NEW a \in Agents, NEW t \in Tasks, ClaimAssignment(a, t)
      PROVE  Goal
  BY <1>5 DEF ClaimAssignment, SetState, TypeOK, Open, OpenStates
<1>6. ASSUME NEW a \in Agents, NEW i \in Instances, NEW t \in Tasks,
             OpenQuestion(a, i, t)
      PROVE  Goal
  BY <1>6 DEF OpenQuestion, SetState, Admitted, TypeOK, Open, OpenStates
<1>7. ASSUME NEW t \in Tasks, Reply(t)
      PROVE  Goal
  BY <1>7 DEF Reply, SetState, TypeOK, Open, OpenStates
<1>8. ASSUME NEW a \in Agents, NEW i \in Instances, NEW t \in Tasks,
             NEW end \in {"completed", "failed"}, SubmitResult(a, i, t, end)
      PROVE  Goal
  BY <1>8 DEF SubmitResult, Finish, FreedCurrent, Admitted, TypeOK
<1>9. ASSUME NEW t \in Tasks, NEW end \in {"canceled", "failed"}, SetTaskState(t, end)
      PROVE  Goal
  BY <1>9 DEF SetTaskState, Finish, FreedCurrent, TypeOK
<1>10. ASSUME NEW t \in Tasks, CancelTask(t)
       PROVE  Goal
  BY <1>10 DEF CancelTask, Finish, FreedCurrent, TypeOK
<1>11. CASE Sweep
  BY <1>11 DEF Sweep, Overdue, Stranded, FreedCurrent
<1>12. CASE Tick
  BY <1>12 DEF Tick
<1>13. CASE StepBack
  BY <1>13 DEF StepBack
<1>14. CASE UNCHANGED vars
  BY <1>14 DEF vars
<1> QED
  BY <1>1, <1>2, <1>3, <1>4, <1>5, <1>6, <1>7, <1>8, <1>9, <1>10, <1>11,
     <1>12, <1>13, <1>14 DEF Next

(* A step leaves every ended task without a lease, those it ends included.  *)
LEMMA EndedStep ==
  TypeOK /\ AgentTaskAgreement /\ EndedHasNoLease /\ [Next]_vars => EndedHasNoLease'
<1> SUFFICES ASSUME TypeOK, AgentTaskAgreement, EndedHasNoLease, [Next]_vars,
                    NEW u \in Tasks, state'[u] \in TerminalStates
             PROVE  lease'[u] = NoLease
  BY DEF EndedHasNoLease
<1>0. CASE state[u] \in TerminalStates
  BY <1>0, TerminalStep
<1> SUFFICES ASSUME state[u] \notin TerminalStates
             PROVE  lease'[u] = NoLease
  BY <1>0
<1> USE DEF taskVars
<1>1. ASSUME NEW a \in Agents, NEW i \in Instances,
             NEW w \in Workspaces \cup {NoWorkspace}, CheckIn(a, i, w)
      PROVE  lease'[u] = NoLease
  BY <1>1 DEF CheckIn
<1>2. ASSUME NEW a \in Agents, NEW i \in Instances, NEW t \in Tasks \cup {NoTask},
             Heartbeat(a, i, t)
      PROVE  lease'[u] = NoLease
  BY <1>2 DEF Heartbeat
<1>3. ASSUME NEW a \in Agents, ReleaseAgent(a)
      PROVE  lease'[u] = NoLease
  BY <1>3 DEF ReleaseAgent
<1>4. ASSUME NEW a \in Agents, NEW t \in Tasks, NEW d \in Durations,
             AssignTask(a, t, d)
      PROVE  lease'[u] = NoLease
  BY <1>4 DEF AssignTask, TypeOK, TerminalStates
<1>5. ASSUME NEW a \in Agents, NEW t \in Tasks, ClaimAssignment(a, t)
      PROVE  lease'[u] = NoLease
  BY <1>5 DEF ClaimAssignment, SetState, TypeOK, TerminalStates
<1>6. ASSUME NEW a \in Agents, NEW i \in Instances, NEW t \in Tasks,
             OpenQuestion(a, i, t)
      PROVE  lease'[u] = NoLease
  BY <1>6 DEF OpenQuestion, SetState, TypeOK, TerminalStates
<1>7. ASSUME NEW t \in Tasks, Reply(t)
      PROVE  lease'[u] = NoLease
  BY <1>7 DEF Reply, SetState, TypeOK, TerminalStates
<1>8. ASSUME NEW a \in Agents, NEW i \in Instances, NEW t \in Tasks,
             NEW end \in {"completed", "failed"}, SubmitResult(a, i, t, end)
      PROVE  lease'[u] = NoLease
  BY <1>8 DEF SubmitResult, Finish, TypeOK
<1>9. ASSUME NEW t \in Tasks, NEW end \in {"canceled", "failed"}, SetTaskState(t, end)
      PROVE  lease'[u] = NoLease
  BY <1>9 DEF SetTaskState, Finish, TypeOK
<1>10. ASSUME NEW t \in Tasks, CancelTask(t)
       PROVE  lease'[u] = NoLease
  BY <1>10 DEF CancelTask, Finish, TypeOK
<1>11. CASE Sweep
  BY <1>11 DEF Sweep
<1>12. CASE Tick
  BY <1>12 DEF Tick
<1>13. CASE StepBack
  BY <1>13 DEF StepBack
<1>14. CASE UNCHANGED vars
  BY <1>14 DEF vars
<1> QED
  BY <1>1, <1>2, <1>3, <1>4, <1>5, <1>6, <1>7, <1>8, <1>9, <1>10, <1>11,
     <1>12, <1>13, <1>14 DEF Next

(* Late results, overrides, sweeps and heartbeats never touch an ended task. *)
THEOREM TerminalHolds == Spec => TerminalIsFinal
<1>1. Init => EndedHasNoLease
  BY DEF Init, EndedHasNoLease
<1>2. TypeOK /\ AgentTaskAgreement /\ EndedHasNoLease /\ [Next]_vars => EndedHasNoLease'
  BY EndedStep
<1>3. TypeOK /\ AgentTaskAgreement /\ EndedHasNoLease /\ [Next]_vars =>
        [\A t \in Tasks : state[t] \in TerminalStates =>
            /\ state'[t] = state[t] /\ result'[t] = result[t]
            /\ lease'[t] = NoLease
            /\ \A a \in Agents : current'[a] # t]_vars
  BY TerminalStep
<1> QED
  BY <1>1, <1>2, <1>3, TypeCorrect, AgreementHolds, PTL DEF Spec, TerminalIsFinal

(* A renewal within the cap never shortens a lease.                         *)
LEMMA RenewedNotEarlier ==
  ASSUME TypeOK, LeaseWithinCap, NEW t \in Tasks, Open(t), lease[t] # NoLease
  PROVE  Renewed(t) >= lease[t]
  BY LifecycleAssumption DEF TypeOK, LeaseWithinCap, Renewed, Least, Most, NoLease

(* No operation moves a live worker's stamp or a running lease back.        *)
LEMMA MonotoneStep ==
  ASSUME TypeOK, LeaseWithinCap, [Next]_vars
  PROVE  /\ \A b \in Agents : status[b] \in LiveStatus /\ instance[b] # NoInstance
                => heartbeatAt'[b] >= heartbeatAt[b]
         /\ \A u \in Tasks : Open(u) =>
                \/ lease'[u] = lease[u]
                \/ lease'[u] = NoLease
                \/ lease[u] > clock /\ lease'[u] > lease[u]
<1> DEFINE Goal ==
         /\ \A b \in Agents : status[b] \in LiveStatus /\ instance[b] # NoInstance
                => heartbeatAt'[b] >= heartbeatAt[b]
         /\ \A u \in Tasks : Open(u) =>
                \/ lease'[u] = lease[u]
                \/ lease'[u] = NoLease
                \/ lease[u] > clock /\ lease'[u] > lease[u]
<1>a. \A b \in Agents : heartbeatAt[b] \in Nat
  BY DEF TypeOK
<1>b. UNCHANGED <<heartbeatAt, lease>> => Goal
  BY <1>a
<1> USE DEF agentVars, taskVars
<1>1. ASSUME NEW a \in Agents, NEW i \in Instances,
             NEW w \in Workspaces \cup {NoWorkspace}, CheckIn(a, i, w)
      PROVE  Goal
  <2>1. ~(status[a] \in LiveStatus /\ instance[a] # NoInstance)
    BY <1>1 DEF CheckIn, NameIsFree
  <2>2. \A b \in Agents \ {a} : heartbeatAt'[b] = heartbeatAt[b]
    BY <1>1 DEF CheckIn, TypeOK
  <2> QED
    BY <1>1, <1>a, <2>1, <2>2 DEF CheckIn
<1>2. ASSUME NEW a \in Agents, NEW i \in Instances, NEW t \in Tasks \cup {NoTask},
             Heartbeat(a, i, t)
      PROVE  Goal
  <2>1. \A b \in Agents : heartbeatAt'[b] >= heartbeatAt[b]
    BY <1>2 DEF Heartbeat, Stamp, Most, TypeOK
  <2>2. CASE Renewable(a, t)
    <3>1. t \in Tasks /\ Open(t) /\ lease[t] > clock /\ lease[t] # NoLease
      BY <2>2 DEF Renewable
    <3>2. Renewed(t) \in Nat /\ Renewed(t) >= lease[t] /\ lease[t] \in Nat
      BY <3>1, RenewedType, RenewedNotEarlier DEF TypeOK
    <3>3. lease' = [lease EXCEPT ![t] = Renewed(t)]
      BY <1>2, <2>2 DEF Heartbeat
    <3>4. lease'[t] = lease[t] \/ lease'[t] > lease[t]
      BY <3>1, <3>2, <3>3 DEF TypeOK
    <3>5. \A u \in Tasks \ {t} : lease'[u] = lease[u]
      BY <3>3 DEF TypeOK
    <3> QED
      BY <2>1, <3>1, <3>4, <3>5
  <2>3. CASE ~Renewable(a, t)
    BY <1>2, <2>1, <2>3 DEF Heartbeat
  <2> QED
    BY <2>2, <2>3
<1>3. ASSUME NEW a \in Agents, ReleaseAgent(a)
      PROVE  Goal
  BY <1>3, <1>b DEF ReleaseAgent
<1>4. ASSUME NEW a \in Agents, NEW t \in Tasks, NEW d \in Durations,
             AssignTask(a, t, d)
      PROVE  Goal
  <2>1. ~Open(t) /\ \A u \in Tasks \ {t} : lease'[u] = lease[u]
    BY <1>4 DEF AssignTask, Open, OpenStates, TypeOK
  <2> QED
    BY <1>4, <1>a, <2>1 DEF AssignTask
<1>5. ASSUME NEW a \in Agents, NEW t \in Tasks, ClaimAssignment(a, t)
      PROVE  Goal
  BY <1>5, <1>b DEF ClaimAssignment, SetState
<1>6. ASSUME NEW a \in Agents, NEW i \in Instances, NEW t \in Tasks,
             OpenQuestion(a, i, t)
      PROVE  Goal
  BY <1>6, <1>b DEF OpenQuestion, SetState
<1>7. ASSUME NEW t \in Tasks, Reply(t)
      PROVE  Goal
  BY <1>7, <1>b DEF Reply, SetState
<1>8. ASSUME NEW a \in Agents, NEW i \in Instances, NEW t \in Tasks,
             NEW end \in {"completed", "failed"}, SubmitResult(a, i, t, end)
      PROVE  Goal
  <2>1. \A u \in Tasks : lease'[u] = lease[u] \/ lease'[u] = NoLease
    BY <1>8 DEF SubmitResult, Finish, TypeOK
  <2> QED
    BY <1>8, <1>a, <2>1 DEF SubmitResult, Finish
<1>9. ASSUME NEW t \in Tasks, NEW end \in {"canceled", "failed"}, SetTaskState(t, end)
      PROVE  Goal
  <2>1. \A u \in Tasks : lease'[u] = lease[u] \/ lease'[u] = NoLease
    BY <1>9 DEF SetTaskState, Finish, TypeOK
  <2> QED
    BY <1>9, <1>a, <2>1 DEF SetTaskState, Finish
<1>10. ASSUME NEW t \in Tasks, CancelTask(t)
       PROVE  Goal
  <2>1. \A u \in Tasks : lease'[u] = lease[u] \/ lease'[u] = NoLease
    BY <1>10 DEF CancelTask, Finish, TypeOK
  <2> QED
    BY <1>10, <1>a, <2>1 DEF CancelTask, Finish
<1>11. CASE Sweep
  <2>1. \A u \in Tasks : lease'[u] = lease[u] \/ lease'[u] = NoLease
    BY <1>11 DEF Sweep
  <2> QED
    BY <1>11, <1>a, <2>1 DEF Sweep
<1>12. CASE Tick
  BY <1>12, <1>b DEF Tick
<1>13. CASE StepBack
  BY <1>13, <1>b DEF StepBack
<1>14. CASE UNCHANGED vars
  BY <1>14, <1>b DEF vars
<1> QED
  BY <1>1, <1>2, <1>3, <1>4, <1>5, <1>6, <1>7, <1>8, <1>9, <1>10, <1>11,
     <1>12, <1>13, <1>14 DEF Next

(* Liveness stamps and leases survive a clock that steps back (issue 120).  *)
THEOREM NothingMovesBackHolds == Spec => NothingMovesBack
<1>1. TypeOK /\ LeaseWithinCap /\ [Next]_vars =>
        [/\ \A a \in Agents : status[a] \in LiveStatus /\ instance[a] # NoInstance
                => heartbeatAt'[a] >= heartbeatAt[a]
         /\ \A t \in Tasks : Open(t) =>
              \/ lease'[t] = lease[t]
              \/ lease'[t] = NoLease
              \/ lease[t] > clock /\ lease'[t] > lease[t]]_vars
  BY MonotoneStep
<1> QED
  BY <1>1, TypeCorrect, LeaseHolds, PTL DEF Spec, NothingMovesBack

=============================================================================
