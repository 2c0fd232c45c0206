---------------------------- MODULE TaskLifecycle ----------------------------
(***************************************************************************)
(* The agent and task tables of HubStore and every operation that changes  *)
(* them: worker check-in, heartbeat, Alice's assignments, overrides and    *)
(* releases, the worker's claim, question and result, and the sweeper that *)
(* turns the passage of time into LEASE_EXPIRED and AGENT_LOST events.     *)
(*                                                                         *)
(* Each operation is one SQLite transaction on the hub's only event loop,  *)
(* so each is one action.  Time is a wall clock that workers and sweeper   *)
(* read; it advances, and it may be stepped backwards (issue 120).         *)
(* The replay paths of the operation ledger and of source_event_id change  *)
(* nothing here and are not actions of this module.                        *)
(***************************************************************************)
EXTENDS Integers

CONSTANTS
    Agents,        \* worker names (primary key of the agent table)
    Tasks,         \* task ids that may be minted
    Instances,     \* worker_instance_ids, one per worker-mcp process
    Workspaces,    \* workspace_ids a check-in may report
    Durations,     \* lease_min values Alice may ask for
    MaxTaskLease,  \* policy max_task_lease_min, counted from task creation
    LostAfter,     \* HUB_LOST_AFTER_S
    MaxTime,       \* bound: the last reading of the clock
    MaxStepsBack,  \* bound: how often the clock steps back
    NoTask, NoAgent, NoInstance, NoWorkspace   \* the NULLs

ASSUME LifecycleAssumption ==
    /\ NoTask \notin Tasks
    /\ NoAgent \notin Agents
    /\ NoInstance \notin Instances
    /\ NoWorkspace \notin Workspaces
    /\ Durations \subseteq Nat
    /\ MaxTaskLease \in Nat
    /\ LostAfter \in Nat
    /\ MaxTime \in Nat
    /\ MaxStepsBack \in Nat

VARIABLES
    clock,         \* the hub's wall clock
    stepsBack,     \* how often it has been stepped back
    status,        \* agent.status; "absent" before the first check-in
    instance,      \* agent.worker_instance_id; '' for a pre-v8 row
    heartbeatAt,   \* agent.last_heartbeat
    workspace,     \* agent.workspace_id
    current,       \* agent.current_task_id
    state,         \* task.state; "none" before the task exists
    assignee,      \* task.assignee
    created,       \* task.created
    duration,      \* task.lease_duration_s
    lease,         \* task.lease_expires; NoLease for NULL
    result,        \* who wrote task.result_json, "none" for NULL
    leaseReports,  \* LEASE_EXPIRED events queued for the task
    endReports     \* TASK_COMPLETED, TASK_FAILED, AGENT_LOST events naming it

clockVars == <<clock, stepsBack>>
agentVars == <<status, instance, heartbeatAt, workspace, current>>
taskVars  == <<state, assignee, created, duration, lease, result>>
reports   == <<leaseReports, endReports>>
vars == <<clockVars, agentVars, taskVars, reports>>

NoLease == -1

AgentStatus == {"absent", "idle", "busy", "lost", "released"}
LiveStatus  == {"idle", "busy"}
OpenStates  == {"submitted", "working", "input-required"}
TerminalStates == {"completed", "failed", "canceled"}

Least(x, y) == IF x <= y THEN x ELSE y
Most(x, y)  == IF x <= y THEN y ELSE x

Open(t) == state[t] \in OpenStates

----------------------------------------------------------------------------
(* The hub starts on a new database, or on an upgraded one whose agents     *)
(* have no worker instance yet (the migration's DEFAULT '').                *)

Init ==
    /\ clock = 0
    /\ stepsBack = 0
    /\ status \in [Agents -> {"absent", "idle"}]
    /\ instance = [a \in Agents |-> NoInstance]
    /\ heartbeatAt = [a \in Agents |-> 0]
    /\ workspace = [a \in Agents |-> NoWorkspace]
    /\ current = [a \in Agents |-> NoTask]
    /\ state = [t \in Tasks |-> "none"]
    /\ assignee = [t \in Tasks |-> NoAgent]
    /\ created = [t \in Tasks |-> 0]
    /\ duration = [t \in Tasks |-> 0]
    /\ lease = [t \in Tasks |-> NoLease]
    /\ result = [t \in Tasks |-> "none"]
    /\ leaseReports = [t \in Tasks |-> 0]
    /\ endReports = [t \in Tasks |-> 0]

----------------------------------------------------------------------------
(* _finish: the tasks of T reach a terminal state, and any agent whose      *)
(* current task is one of them loses it; only a busy agent becomes idle.    *)

FreedCurrent(a, T) == IF current[a] \in T THEN NoTask ELSE current[a]

(* Fault: whoever held the task becomes idle.                               *)
FreedStatus_Always(a, now, T) == IF current[a] \in T THEN "idle" ELSE now

FreedStatus(a, now, T) ==
    IF current[a] \in T /\ now = "busy" THEN "idle" ELSE now

(* Fault: state and result swapped.                                         *)
Finish_Swapped(t, end, by) ==
    /\ state' = [state EXCEPT ![t] = by]
    /\ lease' = [lease EXCEPT ![t] = NoLease]
    /\ result' = [result EXCEPT ![t] = end]
    /\ current' = [a \in Agents |-> FreedCurrent(a, {t})]
    /\ status' = [a \in Agents |-> FreedStatus(a, status[a], {t})]
    /\ UNCHANGED <<clockVars, instance, heartbeatAt, workspace,
                   assignee, created, duration, leaseReports>>

Finish(t, end, by) ==
    /\ state' = [state EXCEPT ![t] = end]
    /\ lease' = [lease EXCEPT ![t] = NoLease]
    /\ result' = [result EXCEPT ![t] = by]
    /\ current' = [a \in Agents |-> FreedCurrent(a, {t})]
    /\ status' = [a \in Agents |-> FreedStatus(a, status[a], {t})]
    /\ UNCHANGED <<clockVars, instance, heartbeatAt, workspace,
                   assignee, created, duration, leaseReports>>

----------------------------------------------------------------------------
(* Agents *)

(* The name is free for a new process unless a live row with an instance    *)
(* holds it, and a workspace unless another live agent holds it.            *)
NameIsFree(a) == status[a] \notin LiveStatus \/ instance[a] = NoInstance

(* Fault: only a busy owner is looked for.                                  *)
WorkspaceIsFree_Busy(a, w) ==
    \A b \in Agents \ {a} :
        w # NoWorkspace /\ workspace[b] = w => status[b] # "busy"

WorkspaceIsFree(a, w) ==
    \A b \in Agents \ {a} :
        w # NoWorkspace /\ workspace[b] = w => status[b] \notin LiveStatus

OpenTaskId(a) == IF current[a] # NoTask /\ Open(current[a]) THEN current[a] ELSE NoTask

(* Fault: a returning worker's open task is forgotten.                      *)
Readmitted_Idle(a) == IF status[a] = "released" THEN "released" ELSE "idle"

Readmitted(a) ==
    IF status[a] = "released" THEN "released"
    ELSE IF OpenTaskId(a) # NoTask THEN "busy" ELSE "idle"

CheckIn(a, i, w) ==
    /\ clock + LostAfter <= MaxTime
    /\ WorkspaceIsFree(a, w)
    /\ NameIsFree(a)
    /\ status' = [status EXCEPT ![a] = Readmitted(a)]
    /\ instance' = [instance EXCEPT ![a] = i]
    /\ heartbeatAt' = [heartbeatAt EXCEPT ![a] = clock]
    /\ workspace' = [workspace EXCEPT ![a] = w]
    /\ current' = [current EXCEPT ![a] = OpenTaskId(a)]
    /\ UNCHANGED <<clockVars, taskVars, reports>>

(* Fault: renewal without the cap.                                          *)
Renewed_NoCap(t) == Most(clock + duration[t], lease[t])

(* min(max(now + duration, expiry), created + cap).  The code's separate    *)
(* branch for a cap already past yields the cap too: this minimum.          *)
Renewed(t) ==
    Least(Most(clock + duration[t], lease[t]), created[t] + MaxTaskLease)

(* Fault: a lease that was reported, or is due, is renewed too.             *)
Renewable_Late(a, t) == t # NoTask /\ current[a] = t /\ assignee[t] = a /\ Open(t)

Renewable(a, t) ==
    /\ t # NoTask
    /\ current[a] = t
    /\ assignee[t] = a
    /\ Open(t)
    /\ lease[t] # NoLease
    /\ lease[t] > clock

(* Fault: the stamp follows the clock.                                      *)
Stamp_Clock(a) == clock

(* MAX(last_heartbeat, now)                                                 *)
Stamp(a) == Most(heartbeatAt[a], clock)

(* A worker's background heartbeat.  t is the task the worker believes it   *)
(* is on, which may be stale.  A superseded instance or a lost agent is     *)
(* answered accepted=False and changes nothing.                             *)
Heartbeat(a, i, t) ==
    /\ clock + LostAfter <= MaxTime
    /\ instance[a] = i
    /\ status[a] # "lost"
    /\ heartbeatAt' = [heartbeatAt EXCEPT ![a] = Stamp(a)]
    /\ lease' = IF Renewable(a, t) THEN [lease EXCEPT ![t] = Renewed(t)] ELSE lease
    /\ UNCHANGED <<clockVars, status, instance, workspace, current,
                   state, assignee, created, duration, result, reports>>

(* Alice releases any agent that has ever checked in, in any status.        *)
ReleaseAgent(a) ==
    /\ status[a] \notin {"absent", "released"}
    /\ status' = [status EXCEPT ![a] = "released"]
    /\ UNCHANGED <<clockVars, instance, heartbeatAt, workspace, current,
                   taskVars, reports>>

----------------------------------------------------------------------------
(* Tasks *)

(* Alice gives an idle agent a new task under a lease of at most the cap.   *)
AssignTask(a, t, d) ==
    /\ clock + MaxTaskLease <= MaxTime
    /\ state[t] = "none"
    /\ status[a] = "idle"
    /\ state' = [state EXCEPT ![t] = "submitted"]
    /\ assignee' = [assignee EXCEPT ![t] = a]
    /\ created' = [created EXCEPT ![t] = clock]
    /\ duration' = [duration EXCEPT ![t] = Least(d, MaxTaskLease)]
    /\ lease' = [lease EXCEPT ![t] = clock + Least(d, MaxTaskLease)]
    /\ status' = [status EXCEPT ![a] = "busy"]
    /\ current' = [current EXCEPT ![a] = t]
    /\ UNCHANGED <<clockVars, instance, heartbeatAt, workspace, result, reports>>

SetState(t, s) ==
    /\ state' = [state EXCEPT ![t] = s]
    /\ UNCHANGED <<clockVars, agentVars, assignee, created, duration, lease,
                   result, reports>>

(* The held NEXT poll of agent a finds its submitted task.  At most one is  *)
(* submitted per agent, so the oldest is the one.                           *)
ClaimAssignment(a, t) ==
    /\ status[a] # "released"
    /\ assignee[t] = a
    /\ state[t] = "submitted"
    /\ SetState(t, "working")

(* Fault: calls are admitted on ended tasks too.                            *)
Admitted_Ended(a, i, t) == instance[a] = i /\ status[a] # "lost" /\ assignee[t] = a

(* A call on a task is admitted from its assignee's current instance, and   *)
(* not from a lost agent.                                                   *)
Admitted(a, i, t) ==
    /\ instance[a] = i
    /\ status[a] # "lost"
    /\ assignee[t] = a
    /\ Open(t)

OpenQuestion(a, i, t) ==
    /\ Admitted(a, i, t)
    /\ SetState(t, "input-required")

Reply(t) ==
    /\ state[t] = "input-required"
    /\ SetState(t, "working")

SubmitResult(a, i, t, end) ==
    /\ Admitted(a, i, t)
    /\ Finish(t, end, "worker")
    /\ endReports' = [endReports EXCEPT ![t] = @ + 1]

(* Alice's set_task_state, which leaves a note as the result.               *)
SetTaskState(t, end) ==
    /\ Open(t)
    /\ Finish(t, end, "override")
    /\ UNCHANGED endReports

(* A2A tasks/cancel, which leaves no result.                                *)
CancelTask(t) ==
    /\ Open(t)
    /\ Finish(t, "canceled", "none")
    /\ UNCHANGED endReports

----------------------------------------------------------------------------
(* The sweeper: one transaction that first expires leases, then declares    *)
(* silent agents lost and fails the open task each of them holds.           *)

(* Fault: only tasks being worked on are looked at.                         *)
Overdue_Working == {t \in Tasks : state[t] = "working" /\ lease[t] # NoLease
                                                      /\ lease[t] <= clock}

Overdue == {t \in Tasks : Open(t) /\ lease[t] # NoLease /\ lease[t] <= clock}

Silent == {a \in Agents : /\ status[a] \in LiveStatus
                          /\ heartbeatAt[a] + LostAfter <= clock}

(* Fault: a task waiting for Alice is not failed with its worker.           *)
Stranded_Working == {t \in Tasks : state[t] = "working" /\ \E a \in Silent : current[a] = t}

Stranded == {t \in Tasks : Open(t) /\ \E a \in Silent : current[a] = t}

Sweep ==
    /\ state' = [t \in Tasks |-> IF t \in Stranded THEN "failed" ELSE state[t]]
    /\ result' = [t \in Tasks |-> IF t \in Stranded THEN "worker_lost" ELSE result[t]]
    /\ lease' = [t \in Tasks |->
                    IF t \in Overdue \cup Stranded THEN NoLease ELSE lease[t]]
    /\ current' = [a \in Agents |-> FreedCurrent(a, Stranded)]
    /\ status' = [a \in Agents |->
                    FreedStatus(a, IF a \in Silent THEN "lost" ELSE status[a], Stranded)]
    /\ leaseReports' = [t \in Tasks |->
                    IF t \in Overdue THEN leaseReports[t] + 1 ELSE leaseReports[t]]
    /\ endReports' = [t \in Tasks |->
                    IF t \in Stranded THEN endReports[t] + 1 ELSE endReports[t]]
    /\ UNCHANGED <<clockVars, instance, heartbeatAt, workspace,
                   assignee, created, duration>>

Tick ==
    /\ clock < MaxTime
    /\ clock' = clock + 1
    /\ UNCHANGED <<stepsBack, agentVars, taskVars, reports>>

(* The wall clock is resynchronised backwards (WSL2).                       *)
StepBack ==
    /\ stepsBack < MaxStepsBack
    /\ clock > 0
    /\ clock' = clock - 1
    /\ stepsBack' = stepsBack + 1
    /\ UNCHANGED <<agentVars, taskVars, reports>>

----------------------------------------------------------------------------
Next ==
    \/ \E a \in Agents, i \in Instances, w \in Workspaces \cup {NoWorkspace} :
            CheckIn(a, i, w)
    \/ \E a \in Agents, i \in Instances, t \in Tasks \cup {NoTask} : Heartbeat(a, i, t)
    \/ \E a \in Agents : ReleaseAgent(a)
    \/ \E a \in Agents, t \in Tasks, d \in Durations : AssignTask(a, t, d)
    \/ \E a \in Agents, t \in Tasks : ClaimAssignment(a, t)
    \/ \E a \in Agents, i \in Instances, t \in Tasks : OpenQuestion(a, i, t)
    \/ \E t \in Tasks : Reply(t)
    \/ \E a \in Agents, i \in Instances, t \in Tasks, end \in {"completed", "failed"} :
            SubmitResult(a, i, t, end)
    \/ \E t \in Tasks, end \in {"canceled", "failed"} : SetTaskState(t, end)
    \/ \E t \in Tasks : CancelTask(t)
    \/ Sweep
    \/ Tick
    \/ StepBack

Spec == Init /\ [][Next]_vars

(* The sweeper is an endless loop that survives its own failures, and time  *)
(* passes.  Nothing is assumed of Alice or of the workers.                  *)
FairSpec == Spec /\ WF_vars(Sweep) /\ WF_vars(Tick)

----------------------------------------------------------------------------
(* Properties *)

(* Every column holds a value of its type.                                  *)
TypeOK ==
    /\ clock \in 0..MaxTime
    /\ stepsBack \in 0..MaxStepsBack
    /\ status \in [Agents -> AgentStatus]
    /\ instance \in [Agents -> Instances \cup {NoInstance}]
    /\ heartbeatAt \in [Agents -> Nat]
    /\ workspace \in [Agents -> Workspaces \cup {NoWorkspace}]
    /\ current \in [Agents -> Tasks \cup {NoTask}]
    /\ state \in [Tasks -> {"none"} \cup OpenStates \cup TerminalStates]
    /\ assignee \in [Tasks -> Agents \cup {NoAgent}]
    /\ created \in [Tasks -> Nat]
    /\ duration \in [Tasks -> Nat]
    /\ lease \in [Tasks -> Nat \cup {NoLease}]
    /\ result \in [Tasks -> {"none", "worker", "worker_lost", "override"}]
    /\ leaseReports \in [Tasks -> Nat]
    /\ endReports \in [Tasks -> Nat]

(* agent.current_task_id and task.state, kept in two tables by seven         *)
(* operations, never disagree: a current task is open and assigned to that  *)
(* agent; an open task is its assignee's current one, so no agent ever      *)
(* holds two; a busy agent has one, and an idle, lost or absent agent none. *)
AgentTaskAgreement ==
    /\ \A a \in Agents : current[a] # NoTask =>
            Open(current[a]) /\ assignee[current[a]] = a
    /\ \A t \in Tasks : Open(t) =>
            assignee[t] \in Agents /\ current[assignee[t]] = t
    /\ \A a \in Agents :
            /\ status[a] = "busy" => current[a] # NoTask
            /\ status[a] \in {"absent", "idle", "lost"} => current[a] = NoTask

(* Two live agents never share a workspace clone, whatever sequence of      *)
(* losses, releases and check-ins leads there (check_in's DuplicateAgent).  *)
WorkspaceExclusive ==
    \A a, b \in Agents :
        (a # b /\ status[a] \in LiveStatus /\ status[b] \in LiveStatus
               /\ workspace[a] # NoWorkspace)
            => workspace[a] # workspace[b]

(* Heartbeats, sent however often and whatever the clock does, never carry  *)
(* a lease past created + max_task_lease_min.                               *)
LeaseWithinCap ==
    \A t \in Tasks : Open(t) => lease[t] <= created[t] + MaxTaskLease

(* Alice is told of each thing she did not do herself exactly once: an open *)
(* task has lost its lease exactly when LEASE_EXPIRED has been queued, and  *)
(* a task that its worker finished or abandoned has one ending event; one   *)
(* that an override or cancel ended has none.                               *)
ReportedOnce ==
    \A t \in Tasks :
        /\ leaseReports[t] <= 1
        /\ Open(t) => endReports[t] = 0 /\ (lease[t] = NoLease <=> leaseReports[t] = 1)
        /\ state[t] \in TerminalStates =>
              endReports[t] = IF result[t] \in {"worker", "worker_lost"} THEN 1 ELSE 0

(* The liveness stamps of a live worker never go back, and a heartbeat      *)
(* neither shortens a lease nor revives one that is due or was reported,    *)
(* though the clock itself may step back (issue 120).                       *)
NothingMovesBack ==
    [][/\ \A a \in Agents : status[a] \in LiveStatus /\ instance[a] # NoInstance
                => heartbeatAt'[a] >= heartbeatAt[a]
       /\ \A t \in Tasks : Open(t) =>
            \/ lease'[t] = lease[t]
            \/ lease'[t] = NoLease
            \/ lease[t] > clock /\ lease'[t] > lease[t]]_vars

(* A release is final: no check-in, heartbeat, result or sweep makes a      *)
(* released agent available, lost or busy again.                            *)
ReleaseIsFinal ==
    [][\A a \in Agents : status[a] = "released" => status'[a] = "released"]_vars

(* A terminal task is never reopened, ended again, given a lease or made    *)
(* somebody's current task, though results, overrides, the sweeper and      *)
(* heartbeats that name it may still arrive.                                *)
TerminalIsFinal ==
    [][\A t \in Tasks : state[t] \in TerminalStates =>
        /\ state'[t] = state[t] /\ result'[t] = result[t]
        /\ lease'[t] = NoLease
        /\ \A a \in Agents : current'[a] # t]_vars

(* No open task stays silent: it ends, or its lease runs out and Alice is   *)
(* told, even when its worker heartbeats forever (the cap sees to that).    *)
OpenTaskEndsOrIsReported ==
    \A t \in Tasks : Open(t) ~> (~Open(t) \/ leaseReports[t] = 1)

(* A task whose worker has stopped heartbeating does not stay open, unless  *)
(* Alice released that worker: the sweeper fails it.  (Every worker is      *)
(* silent from MaxTime - LostAfter on.)                                     *)
TaskOfSilentWorkerEnds ==
    \A t \in Tasks : Open(t) ~> (~Open(t) \/ status[assignee[t]] = "released")

=============================================================================
