----------------------------- MODULE Supervision -----------------------------
(***************************************************************************)
(* scripts/step6_launch.py: a supervisor for each of Alice, Bob and        *)
(* Charlie keeps one runtime process alive and sends it the next turn when *)
(* the model ends one too early. Alice's runtime has the hub as its child, *)
(* so her supervisor decides how long the hub lives: when the workflow is  *)
(* done it first waits, no longer than a deadline, until both workers have *)
(* observed their release. Any of them may die and be launched again.      *)
(*                                                                         *)
(* max_turns is not counted: a supervisor may give up after any turn.      *)
(***************************************************************************)
EXTENDS HubProcess

CONSTANT Workers   \* Bob and Charlie

VARIABLES
    runtime,    \* codex app-server is alive
    alice,      \* her supervisor: "off", "serving" (the runtime has no thread
                \* yet), "turn", "ended", "releasing", "closing"
    workflow,   \* "none", "active", "done", "halted" (escalated, paused)
    agent,      \* the hub's row of each worker: "absent", "live", "released"
    worker,     \* its supervisor: "off", "turn"
    told        \* a release in its telemetry: "no", "before" (an earlier
                \* launch), "now"

aliceVars == <<runtime, alice>>
workerVars == <<worker, told>>
supervisors == <<aliceVars, workflow, agent, workerVars>>
allVars == <<vars, supervisors>>

SupervisionInit ==
    /\ Init
    /\ runtime = FALSE
    /\ alice = "off"
    /\ workflow = "none"
    /\ agent = [w \in Workers |-> "absent"]
    /\ worker = [w \in Workers |-> "off"]
    /\ told = [w \in Workers |-> "no"]

----------------------------------------------------------------------------
(* Alice *)

(* hub_healthy: a hub answers on the run's port.                            *)
HubHealthy == http = "on"

(* Refused while one does. The operator also waits for the old runtime and  *)
(* its hub to be gone: two hubs on one directory are left out.              *)
StartAlice ==
    /\ alice = "off"
    /\ ~HubHealthy
    /\ proc = "down" /\ ~runtime
    /\ runtime' = TRUE
    /\ alice' = "serving"
    /\ UNCHANGED <<vars, workflow, agent, workerVars>>

(* thread/start, or thread/resume of the recorded one: the runtime launches *)
(* the hub and begins a turn. What the prompt says, the kickoff or "never   *)
(* re-initialize", is left out.                                             *)
OpenThread ==
    /\ alice = "serving"
    /\ runtime
    /\ Launch
    /\ alice' = "turn"
    /\ UNCHANGED <<runtime, workflow, agent, workerVars>>

(* No answer: the runtime has exited, or 300 s are over.                    *)
OpenThreadFails ==
    /\ alice = "serving"
    /\ alice' = "closing"
    /\ UNCHANGED <<vars, runtime, workflow, agent, workerVars>>

(* Her tools work while the hub is up and none of her calls is held.        *)
HasTools == alice \in {"turn", "off"} /\ runtime /\ mcp = "on" /\ session = "open"
            /\ initialized /\ ~held

(* Created once; a restarted Alice confirms the goal and policy of it.      *)
InitializeWorkflow ==
    /\ HasTools
    /\ workflow = "none"
    /\ workflow' = "active"
    /\ UNCHANGED <<vars, aliceVars, agent, workerVars>>

ReleaseAgent(w) ==
    /\ HasTools
    /\ agent[w] = "live"
    /\ agent' = [agent EXCEPT ![w] = "released"]
    /\ UNCHANGED <<vars, aliceVars, workflow, workerVars>>

(* She escalates, pauses and resumes; done is her last word.                *)
SetWorkflowStatus(status) ==
    /\ HasTools
    /\ workflow \in {"active", "halted"} \ {status}
    /\ workflow' = status
    /\ UNCHANGED <<vars, aliceVars, agent, workerVars>>

(* turn/completed, or the end of the runtime's output.                      *)
EndTurn ==
    /\ alice = "turn"
    /\ alice' = "ended"
    /\ UNCHANGED <<vars, runtime, workflow, agent, workerVars>>

(* The status is read from the hub's database, hub or no hub.               *)
AfterTurn ==
    /\ alice = "ended"
    /\ alice' \in IF ~runtime \/ workflow = "halted" THEN {"closing"}
                  ELSE IF workflow = "done" THEN {"releasing"}
                  ELSE {"turn", "closing"}
    /\ UNCHANGED <<vars, runtime, workflow, agent, workerVars>>

(* wait_for_worker_release: a release anywhere in each worker's telemetry.  *)
ReleaseObserved ==
    /\ alice = "releasing"
    /\ \A w \in Workers : told[w] # "no"
    /\ alice' = "closing"
    /\ UNCHANGED <<vars, runtime, workflow, agent, workerVars>>

(* Fault: the hub is kept up until the workers are told, however long.      *)
DeadlinePasses_Never == ReleaseObserved

(* 900 s are over.                                                          *)
DeadlinePasses ==
    /\ alice = "releasing"
    /\ alice' = "closing"
    /\ UNCHANGED <<vars, runtime, workflow, agent, workerVars>>

(* The runtime is gone, and the pipes of its child with it.                 *)
RuntimeEnds ==
    /\ runtime' = FALSE
    /\ IF session = "open" THEN CloseSession ELSE UNCHANGED vars

(* stop_tree closes the runtime's stdin, and kills it after the grace.      *)
StopRuntime ==
    /\ alice = "closing"
    /\ alice' = "off"
    /\ RuntimeEnds
    /\ UNCHANGED <<workflow, agent, workerVars>>

(* A killed supervisor leaves a runtime that will find its stdin closed.    *)
SupervisorDies ==
    /\ alice # "off"
    /\ alice' = "off"
    /\ UNCHANGED <<vars, runtime, workflow, agent, workerVars>>

RuntimeAlone ==
    /\ alice = "off"
    /\ runtime
    /\ RuntimeEnds
    /\ UNCHANGED <<alice, workflow, agent, workerVars>>

RuntimeDies ==
    /\ alice # "off"
    /\ runtime
    /\ RuntimeEnds
    /\ UNCHANGED <<alice, workflow, agent, workerVars>>

----------------------------------------------------------------------------
(* Bob and Charlie *)

(* Telemetry(path): what the file holds now is of an earlier launch.        *)
StartWorker(w) ==
    /\ worker[w] = "off"
    /\ worker' = [worker EXCEPT ![w] = "turn"]
    /\ UNCHANGED <<vars, aliceVars, workflow, agent, told>>

CheckIn(w) ==
    /\ worker[w] = "turn"
    /\ http = "on"
    /\ agent[w] = "absent"
    /\ agent' = [agent EXCEPT ![w] = "live"]
    /\ UNCHANGED <<vars, aliceVars, workflow, workerVars>>

(* await_assignment answers "release", and worker-mcp records it.           *)
HearRelease(w) ==
    /\ worker[w] = "turn"
    /\ http = "on"
    /\ agent[w] = "released"
    /\ told' = [told EXCEPT ![w] = "now"]
    /\ UNCHANGED <<vars, aliceVars, workflow, agent, worker>>

(* The release is there at the end of a turn; the last turn was ended       *)
(* without one (any other is followed by the next); the runtime or its      *)
(* supervisor dies.                                                         *)
StopWorker(w) ==
    /\ worker[w] = "turn"
    /\ worker' = [worker EXCEPT ![w] = "off"]
    /\ told' = [told EXCEPT ![w] = IF @ = "now" THEN "before" ELSE @]
    /\ UNCHANGED <<vars, aliceVars, workflow, agent>>

----------------------------------------------------------------------------

HubAlone == HubStep /\ UNCHANGED supervisors

SupervisorStep ==
    \/ OpenThread \/ OpenThreadFails \/ EndTurn \/ AfterTurn
    \/ ReleaseObserved \/ DeadlinePasses \/ StopRuntime \/ RuntimeAlone

SupervisionNext ==
    \/ HubAlone
    \/ StartAlice \/ SupervisorStep
    \/ InitializeWorkflow
    \/ \E status \in {"active", "halted", "done"} : SetWorkflowStatus(status)
    \/ SupervisorDies \/ RuntimeDies
    \/ \E w \in Workers :
           \/ ReleaseAgent(w)
           \/ StartWorker(w) \/ CheckIn(w) \/ HearRelease(w)
           \/ StopWorker(w)

(* Every step of the hub that waits for nobody is taken; a held call ends   *)
(* by its own timeout. The runtime ends every turn (the supervisor waits    *)
(* for it without a limit), a supervisor takes its next step, and a runtime *)
(* whose stdin is closed ends. Launches, signals, deaths and the worker     *)
(* supervisors are nobody's duty.                                           *)
SupervisionSpec ==
    /\ SupervisionInit
    /\ [][SupervisionNext]_allVars
    /\ WF_allVars(StartStep /\ UNCHANGED supervisors)
    /\ WF_allVars(StopStep /\ UNCHANGED supervisors)
    /\ WF_allVars(CallReturns /\ UNCHANGED supervisors)
    /\ WF_allVars(SupervisorStep)

----------------------------------------------------------------------------
(* Properties *)

(* Once the workflow is done the run closes: whoever dies, is launched      *)
(* again or never hears of its release, Alice's supervisor ends and takes   *)
(* the hub with it.                                                         *)
RunCloses == (workflow = "done") ~> (alice = "off" /\ proc = "down")

=============================================================================
