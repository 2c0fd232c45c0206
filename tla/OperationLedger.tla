--------------------------- MODULE OperationLedger ---------------------------
(***************************************************************************)
(* Idempotent worker mutations: the worker client keeps the operation id   *)
(* of a call that did not return and reuses it for the same payload, the   *)
(* transport repeats and delays requests, and the hub records each         *)
(* operation it has carried out with its response.                         *)
(*                                                                         *)
(* One worker process and one task.  A request that was sent may reach the *)
(* hub any number of times, at any later moment; a response may be lost.   *)
(***************************************************************************)
EXTENDS Naturals

CONSTANTS
    Notes,       \* progress notes the worker may report
    Results,     \* results it may submit
    MaxOps,      \* bound: operation ids the client mints
    MaxLosses    \* bound: times the sweeper declares the agent lost

(* "none" is the NULL of task.result_json, so it is no result.              *)
ASSUME LedgerAssumption ==
    /\ MaxOps \in Nat
    /\ MaxLosses \in Nat
    /\ "none" \notin Results

Ops == 1..MaxOps
NoOp == 0

(* A call is its intent and payload; its hash stands for both.              *)
CheckInCall == [intent |-> "check_in", payload |-> "profile"]
ProgressCalls == [intent : {"progress"}, payload : Notes]
ResultCalls == [intent : {"result"}, payload : Results]
Calls == {CheckInCall} \cup ProgressCalls \cup ResultCalls
NoCall == [intent |-> "none", payload |-> "none"]

Intents == {"check_in", "progress", "result"}

Replies == {"ok", "conflict", "not admitted"}

VARIABLES
    status,       \* agent.status: "absent", "live" (idle or busy) or "lost"
    task,         \* the task: "none", "open" or "ended"
    result,       \* the payload task.result_json came from, "none" for none
    ledger,       \* op -> the call recorded in the operation table, or NoCall
    effects,      \* op -> how often its message and event were written
    sent,         \* <<op, call>>: requests on the network
    calling,      \* <<op, call>> the client waits for, or <<NoOp, NoCall>>
    pending,      \* intent -> [op, call] the client would reuse
    registered,   \* the client has a contextId
    minted,       \* operation ids minted
    answers,      \* <<op, reply>>: what calls returned to the worker
    losses

hub == <<status, task, result, ledger, effects>>
client == <<calling, pending, registered, minted, answers>>
vars == <<hub, sent, client, losses>>

Idle == <<NoOp, NoCall>>
NothingPending == [op |-> NoOp, call |-> NoCall]

Init ==
    /\ status = "absent"
    /\ task = "none"
    /\ result = "none"
    /\ ledger = [op \in Ops |-> NoCall]
    /\ effects = [op \in Ops |-> 0]
    /\ sent = {}
    /\ calling = Idle
    /\ pending = [i \in Intents |-> NothingPending]
    /\ registered = FALSE
    /\ minted = 0
    /\ answers = {}
    /\ losses = 0

----------------------------------------------------------------------------
(* The worker client *)

(* Fault: every call is a new operation.                                    *)
OperationId_Fresh(c) == minted + 1

(* The pending operation of the same payload is retried under its id.       *)
OperationId(c) ==
    IF pending[c.intent].call = c THEN pending[c.intent].op ELSE minted + 1

(* check_in, report_progress or submit_result sends its request.  A worker  *)
(* knows its task's id only once Alice has assigned it.                     *)
Call(c) ==
    LET op == OperationId(c) IN
    /\ calling = Idle
    /\ op <= MaxOps
    /\ c = CheckInCall \/ (registered /\ task # "none")
    /\ pending' = [pending EXCEPT ![c.intent] = [op |-> op, call |-> c]]
    /\ minted' = IF op > minted THEN op ELSE minted
    /\ sent' = sent \cup {<<op, c>>}
    /\ calling' = <<op, c>>
    /\ UNCHANGED <<hub, registered, answers, losses>>

(* The retries are exhausted: the call fails and stays pending.             *)
GiveUp ==
    /\ calling # Idle
    /\ calling' = Idle
    /\ UNCHANGED <<hub, sent, pending, registered, minted, answers, losses>>

(* What a success clears: a result call keeps its own pending entry and     *)
(* drops the task's pending progress.                                       *)
Cleared(intent) == IF intent = "result" THEN "progress" ELSE intent

(* The client receives the reply to the request r, or waits on: the reply   *)
(* is lost, or was to an earlier copy nobody waits for.                     *)
Receive(r, reply) ==
    \/ UNCHANGED client
    \/ /\ calling = r
       /\ calling' = Idle
       /\ answers' = answers \cup {<<r[1], reply>>}
       /\ pending' = IF reply = "ok"
                     THEN [pending EXCEPT ![Cleared(r[2].intent)] = NothingPending]
                     ELSE pending
       /\ registered' = (registered \/ (reply = "ok" /\ r[2] = CheckInCall))
       /\ UNCHANGED minted

----------------------------------------------------------------------------
(* The hub *)

(* _resolve_agent and _require_current_instance, before the ledger is       *)
(* looked at: a task call of a lost agent is turned away.                   *)
AdmittedCall(c) == c = CheckInCall \/ status = "live"

Recorded(op) == ledger[op] # NoCall

(* Fault: the ledger is consulted for open tasks only.                      *)
Replayed_Open(op, c) == Recorded(op) /\ (c = CheckInCall \/ task = "open")

(* Fault: the ledger is not consulted for progress.                         *)
Replayed_NoProgress(op, c) == Recorded(op) /\ c.intent # "progress"

(* The replay comes first in the transaction.                               *)
Replayed(op, c) == Recorded(op)

(* Fault: an ended task takes another result.                               *)
Allowed_Ended(c) == IF c = CheckInCall THEN status # "live" ELSE task # "none"

(* What the operation needs when it is carried out for the first time.      *)
Allowed(c) == IF c = CheckInCall THEN status # "live" ELSE task = "open"

(* The operation is carried out and recorded in the same transaction.       *)
CarryOut(op, c) ==
    /\ ledger' = [ledger EXCEPT ![op] = c]
    /\ effects' = [effects EXCEPT ![op] = @ + 1]
    /\ status' = IF c = CheckInCall THEN "live" ELSE status
    /\ task' = IF c.intent = "result" THEN "ended" ELSE task
    /\ result' = IF c.intent = "result" THEN c.payload ELSE result

(* One copy of a request is served: turned away, replayed, refused, or      *)
(* carried out.                                                             *)
Serve(r) ==
    LET op == r[1]
        c == r[2]
    IN
    /\ r \in sent
    /\ \/ /\ ~AdmittedCall(c)
          /\ Receive(r, "not admitted")
          /\ UNCHANGED hub
       \/ /\ AdmittedCall(c)
          /\ Replayed(op, c)
          /\ Receive(r, IF ledger[op] = c THEN "ok" ELSE "conflict")
          /\ UNCHANGED hub
       \/ /\ AdmittedCall(c)
          /\ ~Replayed(op, c)
          /\ ~Allowed(c)
          /\ Receive(r, "conflict")
          /\ UNCHANGED hub
       \/ /\ AdmittedCall(c)
          /\ ~Replayed(op, c)
          /\ Allowed(c)
          /\ CarryOut(op, c)
          /\ Receive(r, "ok")
    /\ UNCHANGED <<sent, losses>>

AssignTask ==
    /\ status = "live"
    /\ task = "none"
    /\ task' = "open"
    /\ UNCHANGED <<status, result, ledger, effects, sent, client, losses>>

(* The hub cancels the task: tasks/cancel, or Alice's set_task_state.       *)
CancelTask ==
    /\ task = "open"
    /\ task' = "ended"
    /\ UNCHANGED <<status, result, ledger, effects, sent, client, losses>>

(* The sweeper loses the silent agent and fails its task.                   *)
LoseAgent ==
    /\ status = "live"
    /\ losses < MaxLosses
    /\ losses' = losses + 1
    /\ status' = "lost"
    /\ task' = IF task = "open" THEN "ended" ELSE task
    /\ UNCHANGED <<result, ledger, effects, sent, client>>

----------------------------------------------------------------------------
Next ==
    \/ \E c \in Calls : Call(c)
    \/ GiveUp
    \/ \E op \in Ops, c \in Calls : Serve(<<op, c>>)
    \/ AssignTask
    \/ CancelTask
    \/ LoseAgent

Spec == Init /\ [][Next]_vars

----------------------------------------------------------------------------
(* Properties *)

(* Every variable holds a value of its type.                                *)
TypeOK ==
    /\ status \in {"absent", "live", "lost"}
    /\ task \in {"none", "open", "ended"}
    /\ result \in Results \cup {"none"}
    /\ ledger \in [Ops -> Calls \cup {NoCall}]
    /\ effects \in [Ops -> Nat]
    /\ sent \subseteq Ops \X Calls
    /\ calling \in (sent \cup {Idle})
    /\ pending \in [Intents -> [op : Ops \cup {NoOp}, call : Calls \cup {NoCall}]]
    /\ registered \in BOOLEAN
    /\ minted \in 0..MaxOps
    /\ answers \subseteq Ops \X Replies
    /\ losses \in 0..MaxLosses

(* However often a request is repeated and however late a copy arrives, an  *)
(* operation writes its message and event once, in the transaction that     *)
(* records it.                                                              *)
EffectOnce == \A op \in Ops : effects[op] = IF Recorded(op) THEN 1 ELSE 0

(* A worker told "ok" was heard: the operation is recorded; one told that   *)
(* the task is over was not: no result or note of that operation stands.    *)
(* So a worker whose applied result's response was lost is never told that  *)
(* it came too late.                                                        *)
AnswersAreTrue ==
    \A a \in answers :
        /\ a[2] = "ok" => Recorded(a[1])
        /\ a[2] = "conflict" /\ <<a[1], CheckInCall>> \notin sent => ~Recorded(a[1])

(* A task has one result, the first applied, and the operation that wrote   *)
(* it is the only result operation recorded.                                *)
OneResult ==
    \A op \in Ops : ledger[op].intent = "result" =>
        /\ task = "ended"
        /\ result = ledger[op].payload
        /\ \A other \in Ops : ledger[other].intent = "result" => other = op

(* The client never reuses an operation id for another payload, so a live   *)
(* worker's check-in, note or result is never refused as a mismatched       *)
(* replay of an earlier one (OPERATION_CONFLICT).                           *)
OneCallPerOperation ==
    \A r, s \in sent : r[1] = s[1] => r[2] = s[2]

(* A result submitted again because its response was lost is never refused  *)
(* because it is already in: unless the worker changed its mind in between, *)
(* the retry is the same operation.                                         *)
ResubmissionIsRecognised ==
    \A a \in answers, c \in ResultCalls :
        a[2] = "conflict" /\ <<a[1], c>> \in sent /\ result = c.payload =>
            \E r \in sent : r[2] \in ResultCalls \ {c} /\ r[1] < a[1]

=============================================================================
