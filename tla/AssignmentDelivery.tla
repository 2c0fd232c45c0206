------------------------- MODULE AssignmentDelivery -------------------------
(***************************************************************************)
(* How an assignment travels from Alice's assign_task to the worker        *)
(* process that does the work: NEXT polls held in the hub, successive      *)
(* processes of one worker name, and streams that break.                   *)
(*                                                                         *)
(* One agent row; its processes are the worker-mcp instances started under *)
(* the name.  A poll is checked against the row when it arrives and then   *)
(* waits by name alone.  The hub cannot tell a stream whose client is gone *)
(* from one that still has a reader until it writes to it, if then.        *)
(***************************************************************************)
EXTENDS Naturals, FiniteSets

CONSTANTS
    Procs,         \* worker processes, each its own worker_instance_id
    Tasks,         \* task ids that may be minted
    MaxBreaks,     \* bound: streams that break unnoticed
    MaxLosses,     \* bound: times the sweeper declares the agent lost
    NoProc, NoTask \* the NULLs

ASSUME DeliveryAssumption ==
    /\ NoProc \notin Procs
    /\ NoTask \notin Tasks
    /\ MaxBreaks \in Nat
    /\ MaxLosses \in Nat

VARIABLES
    status,      \* agent.status; "absent" before the first check-in
    instance,    \* agent.worker_instance_id
    current,     \* agent.current_task_id
    state,       \* task.state: "none", "submitted", "working" or "ended"
    polling,     \* processes whose NEXT stream is held and still read
    deaf,        \* process -> held NEXT streams whose reader is gone
    knows,       \* the task a process was given, its current_task_id
    taken,       \* task -> NEXT streams it was handed to
    exited,      \* processes that were told of a release
    breaks, losses

agent == <<status, instance, current>>
streams == <<polling, deaf>>
vars == <<agent, state, streams, knows, taken, exited, breaks, losses>>

LiveStatus == {"idle", "busy"}
Open(t) == state[t] \in {"submitted", "working"}

Init ==
    /\ status = "absent"
    /\ instance = NoProc
    /\ current = NoTask
    /\ state = [t \in Tasks |-> "none"]
    /\ polling = {}
    /\ deaf = [p \in Procs |-> 0]
    /\ knows = [p \in Procs |-> NoTask]
    /\ taken = [t \in Tasks |-> 0]
    /\ exited = {}
    /\ breaks = 0
    /\ losses = 0

----------------------------------------------------------------------------
(* The worker processes *)

(* Fault: the open task of a returning worker is forgotten.                 *)
OpenTaskId_None == NoTask

OpenTaskId == IF current # NoTask /\ Open(current) THEN current ELSE NoTask

(* A process with no call outstanding registers; the name must not be live. *)
CheckIn(p) ==
    /\ p \notin polling \cup exited
    /\ status \notin LiveStatus
    /\ status' = IF status = "released" THEN "released"
                 ELSE IF OpenTaskId # NoTask THEN "busy" ELSE "idle"
    /\ instance' = p
    /\ current' = OpenTaskId
    /\ knows' = [knows EXCEPT ![p] = NoTask]
    /\ UNCHANGED <<state, streams, taken, exited, breaks, losses>>

(* Fault: a NEXT is not admitted while the agent is busy.                   *)
IsCurrent_Idle(p) == instance = p /\ status \in {"idle", "released"}

(* _require_current_instance, made of every call as it arrives.             *)
IsCurrent(p) == instance = p /\ status # "lost"

(* await_assignment: a NEXT stream is opened by the current process.        *)
Poll(p) ==
    /\ p \notin polling \cup exited
    /\ IsCurrent(p)
    /\ polling' = polling \cup {p}
    /\ UNCHANGED <<agent, state, deaf, knows, taken, exited, breaks, losses>>

(* Fault: a task stays claimable while it is worked on.                     *)
Claimable_Open(t) == status # "released" /\ current = t /\ Open(t)

(* Fault: a released agent is still given the task assigned before.         *)
Claimable_Released(t) == current = t /\ state[t] = "submitted"

(* _claim_assignment, by agent name: release comes first, then the oldest   *)
(* submitted task of the name, which is its only open one.                  *)
Claimable(t) == status # "released" /\ current = t /\ state[t] = "submitted"

Claim(t) ==
    /\ Claimable(t)
    /\ state' = [state EXCEPT ![t] = "working"]
    /\ taken' = [taken EXCEPT ![t] = @ + 1]

(* A held stream claims the task and its process is told.                   *)
PollAnswered(p, t) ==
    /\ p \in polling
    /\ Claim(t)
    /\ polling' = polling \ {p}
    /\ knows' = [knows EXCEPT ![p] = t]
    /\ UNCHANGED <<agent, deaf, exited, breaks, losses>>

(* A stream without a reader claims the task and nobody is told.            *)
AnswerLost(p, t) ==
    /\ deaf[p] > 0
    /\ Claim(t)
    /\ deaf' = [deaf EXCEPT ![p] = @ - 1]
    /\ UNCHANGED <<agent, polling, knows, exited, breaks, losses>>

PollReleased(p) ==
    /\ p \in polling
    /\ status = "released"
    /\ polling' = polling \ {p}
    /\ exited' = exited \cup {p}
    /\ UNCHANGED <<agent, state, deaf, knows, taken, breaks, losses>>

(* The deadline passes with nothing to claim.                               *)
PollTimesOut(p) ==
    /\ status # "released"
    /\ \A t \in Tasks : ~Claimable(t)
    /\ \/ /\ p \in polling
          /\ polling' = polling \ {p}
          /\ UNCHANGED deaf
       \/ /\ deaf[p] > 0
          /\ deaf' = [deaf EXCEPT ![p] = @ - 1]
          /\ UNCHANGED polling
    /\ UNCHANGED <<agent, state, knows, taken, exited, breaks, losses>>

(* The client loses its stream and will retry NEXT.  The hub notices, and   *)
(* drops the stream, or it does not.                                        *)
PollBreaks(p) ==
    /\ p \in polling
    /\ breaks < MaxBreaks
    /\ breaks' = breaks + 1
    /\ polling' = polling \ {p}
    /\ \/ deaf' = [deaf EXCEPT ![p] = @ + 1]
       \/ deaf' = deaf
    /\ UNCHANGED <<agent, state, knows, taken, exited, losses>>

(* submit_result: the task ends, a busy agent becomes idle.                 *)
EndTask(t) ==
    /\ state' = [state EXCEPT ![t] = "ended"]
    /\ current' = IF current = t THEN NoTask ELSE current
    /\ status' = IF current = t /\ status = "busy" THEN "idle" ELSE status

SubmitResult(p, t) ==
    /\ knows[p] = t
    /\ IsCurrent(p)
    /\ Open(t)
    /\ EndTask(t)
    /\ knows' = [knows EXCEPT ![p] = NoTask]
    /\ UNCHANGED <<instance, streams, taken, exited, breaks, losses>>

----------------------------------------------------------------------------
(* Alice and the sweeper *)

AssignTask(t) ==
    /\ state[t] = "none"
    /\ status = "idle"
    /\ state' = [state EXCEPT ![t] = "submitted"]
    /\ status' = "busy"
    /\ current' = t
    /\ UNCHANGED <<instance, streams, knows, taken, exited, breaks, losses>>

(* set_task_state, for instance after LEASE_EXPIRED.                        *)
SetTaskState(t) ==
    /\ Open(t)
    /\ EndTask(t)
    /\ UNCHANGED <<instance, streams, knows, taken, exited, breaks, losses>>

ReleaseAgent ==
    /\ status \in LiveStatus \cup {"lost"}
    /\ status' = "released"
    /\ UNCHANGED <<instance, current, state, streams, knows, taken, exited, breaks, losses>>

(* The heartbeats of the process stopped reaching the hub; its streams may  *)
(* well be held still.                                                      *)
LoseAgent ==
    /\ status \in LiveStatus
    /\ losses < MaxLosses
    /\ losses' = losses + 1
    /\ status' = "lost"
    /\ state' = [t \in Tasks |-> IF t = current /\ Open(t) THEN "ended" ELSE state[t]]
    /\ current' = NoTask
    /\ UNCHANGED <<instance, streams, knows, taken, exited, breaks>>

----------------------------------------------------------------------------
Next ==
    \/ \E p \in Procs : \/ CheckIn(p)
                        \/ Poll(p)
                        \/ PollReleased(p)
                        \/ PollTimesOut(p)
                        \/ PollBreaks(p)
    \/ \E p \in Procs, t \in Tasks : \/ PollAnswered(p, t)
                                     \/ AnswerLost(p, t)
                                     \/ SubmitResult(p, t)
    \/ \E t \in Tasks : AssignTask(t) \/ SetTaskState(t)
    \/ ReleaseAgent
    \/ LoseAgent

Spec == Init /\ [][Next]_vars

(* Worker processes keep polling and the hub serves held streams.  Nothing  *)
(* is assumed of Alice or the sweeper.                                      *)
Fairness ==
    \A p \in Procs :
        /\ WF_vars(Poll(p))
        /\ WF_vars(PollReleased(p))
        /\ WF_vars(\E t \in Tasks : PollAnswered(p, t))

FairSpec == Spec /\ Fairness

----------------------------------------------------------------------------
(* Properties *)

(* Every variable holds a value of its type.                                *)
TypeOK ==
    /\ status \in {"absent", "idle", "busy", "lost", "released"}
    /\ instance \in Procs \cup {NoProc}
    /\ current \in Tasks \cup {NoTask}
    /\ state \in [Tasks -> {"none", "submitted", "working", "ended"}]
    /\ polling \subseteq Procs
    /\ deaf \in [Procs -> 0..MaxBreaks]
    /\ knows \in [Procs -> Tasks \cup {NoTask}]
    /\ taken \in [Tasks -> Nat]
    /\ exited \subseteq Procs
    /\ breaks \in 0..MaxBreaks
    /\ losses \in 0..MaxLosses

(* However many NEXT streams are held for the name, by whichever processes, *)
(* a task is handed to one of them at most.                                 *)
HandedOutOnce == \A t \in Tasks : taken[t] <= 1

(* An open task is what its agent is on and an agent is on no ended task:   *)
(* a stale or repeated result never ends another process's task.            *)
OnlyCurrentIsOpen ==
    /\ \A t \in Tasks : Open(t) => current = t
    /\ current # NoTask => Open(current) /\ status \in {"busy", "released"}
    /\ \A t \in Tasks : state[t] = "submitted" => taken[t] = 0

(* No task is handed out once its agent is released, nor to a process that  *)
(* was told of the release.                                                 *)
ReleasedGetsNoWork ==
    [][\A t \in Tasks : taken'[t] > taken[t] => status # "released" /\ status' # "released"]_vars

(* An assigned task is claimed by a process that is told of it, unless the  *)
(* task is ended or the agent released first: a worker only has to repeat   *)
(* NEXT, which "needs no such correlation: it has no per-call state to      *)
(* resume" (poc-spec 4.1).                                                  *)
AssignedIsClaimed ==
    \A t \in Tasks : state[t] = "submitted" ~>
        (state[t] = "ended" \/ status = "released" \/ \E p \in Procs : knows[p] = t)

(* The same of a worker whose streams have not broken yet, through losses,  *)
(* restarts and releases: repeating NEXT is enough.                         *)
ClaimedUnlessBroken ==
    \A t \in Tasks : state[t] = "submitted" ~>
        \/ state[t] = "ended"
        \/ status = "released"
        \/ \E p \in Procs : knows[p] = t
        \/ breaks > 0

=============================================================================
