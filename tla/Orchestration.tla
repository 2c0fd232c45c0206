---------------------------- MODULE Orchestration ----------------------------
(***************************************************************************)
(* One task from check-in to the end of the workflow: the reference        *)
(* orchestrator (scripts/mock-alice.py) and the reference worker           *)
(* (scripts/mock-worker.py) on the hub's tables.                           *)
(*                                                                         *)
(* Alice may die before any of her calls, and a conflict or a deadline     *)
(* ends her too; started again she finds her place from get_state and from *)
(* the events she has not acknowledged.  The worker may die at any point;  *)
(* the sweeper then declares it lost and fails its task, and a new         *)
(* instance checks in.  Delivery ids are left to EventInbox: here an event *)
(* is queued, delivered, delivered and due again, or acked.                *)
(***************************************************************************)
EXTENDS Naturals, Sequences

CONSTANTS
    MaxEvents,      \* bound: events ever queued
    MaxCrashes,     \* bound: deaths of Alice that are not conflicts
    MaxRestarts,    \* bound: deaths of the worker
    MaxExpiries     \* bound: delivery leases that run out

ASSUME OrchestrationAssumption ==
    /\ MaxEvents \in Nat
    /\ MaxCrashes \in Nat
    /\ MaxRestarts \in Nat
    /\ MaxExpiries \in Nat

VARIABLES
    workflow,   \* workflow.status; "none" before the row exists
    decisions,  \* check-in events whose assignment is in the decision log
    agent,      \* agent.status
    tasks,      \* the task rows: their source event, state and question
    events,     \* the event rows: their kind and state
    alice,      \* Alice's next step
    hand,       \* the event she will ack next; 0: none
    known,      \* her last state read showed the worker
    unacked,    \* the unacked check-ins it showed
    source,     \* the check-in she acts on; 0: none
    worker,     \* the worker's next step
    crashes, restarts, expiries

hub == <<workflow, decisions, agent, tasks, events>>
session == <<alice, hand, known, unacked, source>>
counts == <<crashes, restarts, expiries>>
vars == <<hub, session, worker, counts>>

Init ==
    /\ workflow = "none"
    /\ decisions = {}
    /\ agent = "none"
    /\ tasks = <<>>
    /\ events = <<>>
    /\ alice = "down"
    /\ hand = 0
    /\ known = FALSE
    /\ unacked = {}
    /\ source = 0
    /\ worker = "down"
    /\ crashes = 0
    /\ restarts = 0
    /\ expiries = 0

Terminal == {"completed", "failed"}
Open == {"submitted", "working", "input-required"}

(* The worker's open task, as a set of at most one index.                   *)
OpenTasks == {t \in DOMAIN tasks : tasks[t].state \in Open}

----------------------------------------------------------------------------
(* The hub's tables *)

(* Events of the given kinds are appended.                                  *)
Emit(kinds) ==
    /\ Len(events) + Len(kinds) <= MaxEvents
    /\ events' = events \o [i \in DOMAIN kinds |-> [kind |-> kinds[i], state |-> "queued"]]

SetTask(t, s) == tasks' = [tasks EXCEPT ![t].state = s]

Eligible == {e \in DOMAIN events : events[e].state \in {"queued", "due"}}

(* Fault: an event counts as acknowledged when it is delivered.             *)
Leased_Acked(evs, e) == [evs EXCEPT ![e].state = "acked"]

Leased(evs, e) == [evs EXCEPT ![e].state = "delivered"]

(* The ack of the event in hand, on time or late.                           *)
Acked(evs) ==
    IF hand # 0 /\ evs[hand].state \in {"delivered", "due"}
    THEN [evs EXCEPT ![hand].state = "acked"] ELSE evs

(* wait_for_event(ack=hand) returns the oldest eligible event e.            *)
Delivers(e) ==
    /\ e \in Eligible \ {hand}
    /\ \A f \in Eligible \ {hand} : e <= f
    /\ events' = Leased(Acked(events), e)
    /\ hand' = e

(* Nothing came within the timeout: the ack is applied all the same.        *)
ComesBackEmpty ==
    /\ Eligible \subseteq {hand}
    /\ events' = Acked(events)
    /\ hand' = 0

ExpireDelivery(e) ==
    /\ expiries < MaxExpiries
    /\ e \in DOMAIN events
    /\ events[e].state = "delivered"
    /\ events' = [events EXCEPT ![e].state = "due"]
    /\ expiries' = expiries + 1
    /\ UNCHANGED <<workflow, decisions, agent, tasks, session, worker, crashes, restarts>>

(* The sweeper on a worker that has stopped heartbeating.                   *)
LoseAgent ==
    /\ agent \in {"idle", "busy"}
    /\ worker = "down"
    /\ agent' = "lost"
    /\ IF OpenTasks = {}
       THEN Emit(<<"agent_lost">>) /\ UNCHANGED tasks
       ELSE /\ \E t \in OpenTasks : SetTask(t, "failed")
            /\ Emit(<<"task_failed", "agent_lost">>)
    /\ UNCHANGED <<workflow, decisions, session, worker, counts>>

----------------------------------------------------------------------------
(* Alice *)

Goes(step) == alice' = step
Idle == UNCHANGED <<workflow, decisions, agent, tasks, worker, counts>>

(* A new session knows nothing but what it reads.                           *)
Forget ==
    /\ alice' = "down"
    /\ hand' = 0
    /\ known' = FALSE
    /\ unacked' = {}
    /\ source' = 0

StartAlice ==
    /\ alice = "down"
    /\ Goes("initialize")
    /\ UNCHANGED <<hub, hand, known, unacked, source, worker, counts>>

(* Created once; a restarted Alice confirms it.                             *)
InitializeWorkflow ==
    /\ alice = "initialize"
    /\ workflow' = IF workflow = "none" THEN "active" ELSE workflow
    /\ Goes("look")
    /\ UNCHANGED <<decisions, agent, tasks, events, hand, known, unacked, source, worker, counts>>

(* Fault: a restarted Alice looks only for work that is still open.         *)
FindTask_OpenOnly == OpenTasks # {}

(* The worker's first task, in any state but canceled.                      *)
FindTask == tasks # <<>>

(* A task there already is resumed, not assigned again.                     *)
Look ==
    /\ alice = "look"
    /\ Goes(IF FindTask THEN "wait" ELSE "read")
    /\ Idle /\ UNCHANGED <<events, hand, known, unacked, source>>

(* get_state, again before each wait for the check-in.                      *)
ReadState ==
    /\ alice = "read"
    /\ known' = (agent \notin {"none", "released"})
    /\ unacked' = {e \in DOMAIN events : /\ events[e].kind = "agent_checked_in"
                                         /\ events[e].state \in {"delivered", "due"}}
    /\ Goes("seek")
    /\ Idle /\ UNCHANGED <<events, hand, source>>

(* A check-in delivered now is the source of the assignment.                *)
SeekFinds ==
    /\ alice = "seek"
    /\ \E e \in DOMAIN events :
        /\ Delivers(e)
        /\ IF events[e].kind = "agent_checked_in"
           THEN Goes("decide") /\ source' = e
           ELSE Goes("read") /\ UNCHANGED source
    /\ Idle /\ UNCHANGED <<known, unacked>>

(* None came: one delivered to an earlier session serves, the oldest first. *)
SeekComesBackEmpty ==
    /\ alice = "seek"
    /\ ComesBackEmpty
    /\ IF known /\ unacked # {}
       THEN /\ Goes("decide")
            /\ \E e \in unacked : (\A f \in unacked : e <= f) /\ source' = e
       ELSE Goes("read") /\ UNCHANGED source
    /\ Idle /\ UNCHANGED <<known, unacked>>

LogDecision ==
    /\ alice = "decide"
    /\ decisions' = decisions \cup {source}
    /\ Goes("assign")
    /\ UNCHANGED <<workflow, agent, tasks, events, hand, known, unacked, source, worker, counts>>

(* A replay by its source event returns the task; a worker that is not idle *)
(* is a conflict, which ends the session.                                   *)
AssignTask ==
    /\ alice = "assign"
    /\ IF \E t \in DOMAIN tasks : tasks[t].source = source
       THEN Goes("wait") /\ UNCHANGED <<agent, tasks, hand, known, unacked, source>>
       ELSE IF agent = "idle"
       THEN /\ tasks' = Append(tasks, [source |-> source, state |-> "submitted",
                                       question |-> "none"])
            /\ agent' = "busy"
            /\ Goes("wait")
            /\ UNCHANGED <<hand, known, unacked, source>>
       ELSE Forget /\ UNCHANGED <<agent, tasks>>
    /\ UNCHANGED <<workflow, decisions, events, worker, counts>>

(* Progress and everything else is noted; a question is answered; the end   *)
(* of the task ends the wait.                                               *)
WaitFinds ==
    /\ alice = "wait"
    /\ \E e \in DOMAIN events :
        /\ Delivers(e)
        /\ Goes(CASE events[e].kind = "worker_question" -> "reply"
                  [] events[e].kind \in {"task_completed", "task_failed"} -> "finish"
                  [] OTHER -> "wait")
    /\ Idle /\ UNCHANGED <<known, unacked, source>>

WaitComesBackEmpty ==
    /\ alice = "wait"
    /\ ComesBackEmpty
    /\ Goes("recheck")
    /\ Idle /\ UNCHANGED <<known, unacked, source>>

(* The end may have been reported to a session that died.                   *)
Recheck ==
    /\ alice = "recheck"
    /\ Goes(IF tasks[1].state \in Terminal THEN "finish" ELSE "wait")
    /\ Idle /\ UNCHANGED <<events, hand, known, unacked, source>>

(* Applied once, and only while the question is open.                       *)
Reply ==
    /\ alice = "reply"
    /\ tasks' = [t \in DOMAIN tasks |->
                    IF tasks[t].state = "input-required"
                    THEN [tasks[t] EXCEPT !.state = "working", !.question = "answered"]
                    ELSE tasks[t]]
    /\ Goes("wait")
    /\ UNCHANGED <<workflow, decisions, agent, events, hand, known, unacked, source,
                   worker, counts>>

(* The last ack is another wait, which may lease one more event.            *)
FinalAck ==
    /\ alice = "finish"
    /\ IF hand = 0 THEN UNCHANGED <<events, hand>>
       ELSE ComesBackEmpty \/ \E e \in DOMAIN events : Delivers(e)
    /\ Goes("release")
    /\ Idle /\ UNCHANGED <<known, unacked, source>>

ReleaseAgent ==
    /\ alice = "release"
    /\ agent' = "released"
    /\ Goes("close")
    /\ UNCHANGED <<workflow, decisions, tasks, events, hand, known, unacked, source,
                   worker, counts>>

SetWorkflowDone ==
    /\ alice = "close"
    /\ workflow' = "done"
    /\ Goes("over")
    /\ UNCHANGED <<decisions, agent, tasks, events, hand, known, unacked, source,
                   worker, counts>>

(* A crash at delivery, before an ack, after an action, or anywhere else;   *)
(* a deadline that passes.                                                  *)
CrashAlice ==
    /\ alice \notin {"down", "over"}
    /\ crashes < MaxCrashes
    /\ crashes' = crashes + 1
    /\ Forget
    /\ UNCHANGED <<hub, worker, restarts, expiries>>

AliceStep ==
    \/ StartAlice \/ InitializeWorkflow \/ Look \/ ReadState \/ SeekFinds
    \/ SeekComesBackEmpty \/ LogDecision \/ AssignTask \/ WaitFinds
    \/ WaitComesBackEmpty \/ Recheck \/ Reply \/ FinalAck \/ ReleaseAgent
    \/ SetWorkflowDone

----------------------------------------------------------------------------
(* The worker *)

(* Fault: a released worker that comes back is idle again.                  *)
Readmitted_Idle == "idle"

(* A release outlives the connection it was issued on.                      *)
Readmitted ==
    IF agent = "released" THEN "released"
    ELSE IF OpenTasks # {} THEN "busy" ELSE "idle"

(* Refused while the hub holds the previous instance to be alive.           *)
CheckIn ==
    /\ worker = "down"
    /\ agent \notin {"idle", "busy"}
    /\ agent' = Readmitted
    /\ Emit(<<"agent_checked_in">>)
    /\ worker' = "await"
    /\ UNCHANGED <<workflow, decisions, tasks, session, counts>>

Claim ==
    /\ worker = "await"
    /\ agent # "released"
    /\ \E t \in DOMAIN tasks : tasks[t].state = "submitted" /\ SetTask(t, "working")
    /\ worker' = "progress"
    /\ UNCHANGED <<workflow, decisions, agent, events, session, counts>>

(* The first of the two reports; the second, like it, changes nothing here. *)
ReportProgress ==
    /\ worker = "progress"
    /\ Emit(<<"task_progress">>)
    /\ worker' \in {"ask", "submit"}
    /\ UNCHANGED <<workflow, decisions, agent, tasks, session, counts>>

AskAlice ==
    /\ worker = "ask"
    /\ \E t \in OpenTasks :
        tasks' = [tasks EXCEPT ![t].state = "input-required", ![t].question = "open"]
    /\ Emit(<<"worker_question">>)
    /\ worker' = "listen"
    /\ UNCHANGED <<workflow, decisions, agent, session, counts>>

(* The answer, or the end of the hold: the worker goes on either way.       *)
Listen ==
    /\ worker = "listen"
    /\ worker' = "submit"
    /\ UNCHANGED <<hub, session, counts>>

SubmitResult ==
    /\ worker = "submit"
    /\ \E t \in OpenTasks, s \in Terminal :
        SetTask(t, s) /\ Emit(<<IF s = "completed" THEN "task_completed" ELSE "task_failed">>)
    /\ agent' = IF agent = "busy" THEN "idle" ELSE agent
    /\ worker' = "await"
    /\ UNCHANGED <<workflow, decisions, session, counts>>

HearRelease ==
    /\ worker = "await"
    /\ agent = "released"
    /\ worker' = "gone"
    /\ UNCHANGED <<hub, session, counts>>

CrashWorker ==
    /\ worker \notin {"down", "gone"}
    /\ restarts < MaxRestarts
    /\ restarts' = restarts + 1
    /\ worker' = "down"
    /\ UNCHANGED <<hub, session, crashes, expiries>>

WorkerStep ==
    CheckIn \/ Claim \/ ReportProgress \/ AskAlice \/ Listen \/ SubmitResult \/ HearRelease

----------------------------------------------------------------------------
(* The system *)

Next ==
    \/ AliceStep
    \/ WorkerStep
    \/ CrashAlice
    \/ CrashWorker
    \/ LoseAgent
    \/ \E e \in 1..MaxEvents : ExpireDelivery(e)

(* Alice and the worker are started again and go on; the sweeper runs.      *)
Fairness == WF_vars(AliceStep) /\ WF_vars(WorkerStep) /\ WF_vars(LoseAgent)

Spec == Init /\ [][Next]_vars /\ Fairness

----------------------------------------------------------------------------
(* Properties *)

(* Every variable holds a value of its type.                                *)
TypeOK ==
    /\ workflow \in {"none", "active", "done"}
    /\ decisions \subseteq DOMAIN events
    /\ agent \in {"none", "idle", "busy", "lost", "released"}
    /\ \A t \in DOMAIN tasks : tasks[t].state \in Open \cup Terminal
    /\ \A e \in DOMAIN events : events[e].state \in {"queued", "delivered", "due", "acked"}
    /\ hand \in 0..Len(events)
    /\ known \in BOOLEAN
    /\ unacked \subseteq DOMAIN events
    /\ source \in 0..Len(events)

(* However often Alice and the worker start again, the work is assigned     *)
(* once, on a check-in whose assignment was in the decision log before.     *)
AssignedOnce ==
    /\ Len(tasks) <= 1
    /\ \A t \in DOMAIN tasks : tasks[t].source \in decisions

(* A workflow marked done stays over: its task has ended, and its worker,   *)
(* also one that comes back later, is told to stop.                         *)
DoneIsOver ==
    workflow = "done" =>
        /\ \A t \in DOMAIN tasks : tasks[t].state \in Terminal
        /\ agent = "released"

(* Nothing Alice has acknowledged is left undone by her death: behind an    *)
(* acknowledged check-in there is a task, behind an acknowledged question   *)
(* an answer, or the end of the task that asked it.                         *)
AckedIsDone ==
    \A e \in DOMAIN events : events[e].state = "acked" =>
        /\ events[e].kind = "agent_checked_in" => tasks # <<>>
        /\ events[e].kind = "worker_question" =>
              \A t \in DOMAIN tasks : tasks[t].state # "input-required"

(* With Alice and the worker started again after each of finitely many      *)
(* deaths, the workflow is done in the end.                                 *)
WorkflowEnds == <>(workflow = "done")

=============================================================================
