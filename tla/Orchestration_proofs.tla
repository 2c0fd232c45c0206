------------------------- MODULE Orchestration_proofs -------------------------
(***************************************************************************)
(* Theorems about Orchestration for any number of events, deaths and       *)
(* expired leases.                                                         *)
(***************************************************************************)
EXTENDS Orchestration, SequenceTheorems, TLAPS

Kinds == {"agent_checked_in", "agent_lost", "task_completed", "task_failed",
          "task_progress", "worker_question"}

EventStates == {"queued", "delivered", "due", "acked"}

Tasks == [source : Nat, state : Open \cup Terminal,
          question : {"none", "open", "answered"}]

Events == [kind : Kinds, state : EventStates]

(* Alice's steps before she knows of a task, and those after.               *)
Seeking == {"read", "seek", "decide", "assign"}
Assigned == {"wait", "recheck", "reply", "finish", "release", "close", "over"}

(* The types of the rows and of the two programs' next steps.               *)
Typed ==
    /\ TypeOK
    /\ tasks \in Seq(Tasks)
    /\ events \in Seq(Events)
    /\ alice \in {"down", "initialize", "look"} \cup Seeking \cup Assigned
    /\ worker \in {"down", "await", "progress", "ask", "listen", "submit", "gone"}
    /\ alice \in {"decide", "assign"} => source \in DOMAIN events

AllEnded == \A t \in DOMAIN tasks : tasks[t].state \in Terminal

(* What Alice's place says of the tables: she assigns only while there is   *)
(* no task and after the decision was logged, she releases the worker only  *)
(* when its task has ended, and she is over once the workflow is.           *)
PlaceIsTrue ==
    /\ alice \in Seeking => tasks = <<>>
    /\ alice \in Assigned => tasks # <<>>
    /\ alice = "assign" => source \in decisions
    /\ alice \in {"finish", "release", "close", "over"} => AllEnded
    /\ alice \in {"close", "over"} => agent = "released"
    /\ workflow = "done" => alice = "over"

(* The event Alice will ack next needs no more of her: no check-in before   *)
(* she has assigned, no question once she waits for something else.         *)
HandIsHandled ==
    /\ alice \in {"down", "initialize", "look"} => hand = 0
    /\ alice \in {"read", "seek"} /\ hand # 0 => events[hand].kind # "agent_checked_in"
    /\ alice \in {"wait", "recheck", "finish"} /\ hand # 0
          /\ events[hand].kind = "worker_question" =>
              \A t \in DOMAIN tasks : tasks[t].state # "input-required"

(* What an event tells is so, and stays so: the end of the task is the end, *)
(* and a question is the only one of its task, asked after the claim.       *)
EventsAreTrue ==
    \A e \in DOMAIN events :
        /\ events[e].kind \in {"task_completed", "task_failed"} => tasks # <<>> /\ AllEnded
        /\ events[e].kind = "worker_question" =>
              /\ tasks # <<>>
              /\ \A t \in DOMAIN tasks : tasks[t].state # "submitted"
              /\ worker \notin {"progress", "ask"}

IInv ==
    /\ Typed
    /\ AssignedOnce
    /\ PlaceIsTrue
    /\ HandIsHandled
    /\ EventsAreTrue
    /\ AckedIsDone

-------------------------------------------------------------------------------
(* What the operations do to the rows *)

(* A row of the task table, or of the event table, has the type of one.     *)
LEMMA Rows ==
  ASSUME Typed
  PROVE  /\ Len(tasks) \in Nat /\ DOMAIN tasks = 1..Len(tasks)
         /\ \A t \in DOMAIN tasks : tasks[t] \in Tasks
         /\ Len(events) \in Nat /\ DOMAIN events = 1..Len(events)
         /\ \A e \in DOMAIN events : events[e] \in Events
  BY LenProperties, ElementOfSeq DEF Typed

(* The event rows stay, with their kinds; none is acknowledged but by the   *)
(* ack of the hand, and a new one is to be delivered.                       *)
RowsStay ==
    /\ events' \in Seq(Events)
    /\ Len(events) <= Len(events')
    /\ \A e \in DOMAIN events :
          /\ events'[e].kind = events[e].kind
          /\ events'[e].state = "acked" =>
                \/ events[e].state = "acked"
                \/ e = hand /\ alice \in {"seek", "wait", "finish"}
    /\ \A e \in DOMAIN events' \ DOMAIN events : events'[e].state = "queued"

(* A wait acknowledges the hand and takes what it returns into it.          *)
LEMMA WaitsEffect ==
  ASSUME Typed, alice \in {"seek", "wait", "finish"},
         (\E e \in DOMAIN events : Delivers(e)) \/ ComesBackEmpty
  PROVE  RowsStay /\ Len(events') = Len(events) /\ hand' \in 0..Len(events)
<1>1. hand \in 0..Len(events)
  BY DEF Typed, TypeOK
<1> DEFINE acks == Acked(events)
<1>2. /\ acks \in Seq(Events) /\ Len(acks) = Len(events)
      /\ \A e \in DOMAIN events :
            /\ acks[e] \in Events
            /\ acks[e].kind = events[e].kind
            /\ acks[e].state = "acked" => events[e].state = "acked" \/ e = hand
  <2>1. CASE hand # 0 /\ events[hand].state \in {"delivered", "due"}
    <3> DEFINE row == [events[hand] EXCEPT !.state = "acked"]
    <3>1. hand \in 1..Len(events) /\ events[hand] \in Events
      BY <1>1, <2>1, Rows
    <3>2. row \in Events /\ row.kind = events[hand].kind
      BY <3>1 DEF Events, EventStates
    <3>3. acks = [events EXCEPT ![hand] = row]
      BY <2>1, Rows, <3>1 DEF Acked
    <3> QED
      BY <3>1, <3>2, <3>3, Rows, ExceptSeq DEF Typed
  <2>2. CASE ~(hand # 0 /\ events[hand].state \in {"delivered", "due"})
    BY <2>2, Rows DEF Acked, Typed
  <2> QED
    BY <2>1, <2>2
<1>3. ASSUME NEW e \in DOMAIN events, Delivers(e)
      PROVE  RowsStay /\ Len(events') = Len(events) /\ hand' \in 0..Len(events)
  <2> DEFINE row == [acks[e] EXCEPT !.state = "delivered"]
  <2>1. e \in 1..Len(acks) /\ acks[e] \in Events
    BY <1>2, Rows
  <2>2. row \in Events /\ row.kind = events[e].kind /\ row.state # "acked"
    BY <1>2, <2>1 DEF Events, EventStates
  <2>3. events' = [acks EXCEPT ![e] = row]
    BY <1>3, <1>2, Rows DEF Delivers, Leased
  <2>4. /\ events' \in Seq(Events) /\ Len(events') = Len(acks)
        /\ \A f \in 1..Len(acks) : events'[f] = IF f = e THEN row ELSE acks[f]
    BY <1>2, <2>1, <2>2, <2>3, ExceptSeq
  <2> HIDE DEF row, acks
  <2>5. RowsStay /\ Len(events') = Len(events)
    <3>1. DOMAIN events' = DOMAIN events
      BY <1>2, <2>4, LenProperties, Rows
    <3>2. ASSUME NEW f \in DOMAIN events
          PROVE  /\ events'[f].kind = events[f].kind
                 /\ events'[f].state = "acked" => events[f].state = "acked" \/ f = hand
      <4>1. f \in 1..Len(acks) /\ events'[f] = IF f = e THEN row ELSE acks[f]
        BY <1>2, <2>4, Rows
      <4> QED
        BY <1>2, <2>2, <4>1
    <3> QED
      BY <1>2, <2>4, <3>1, <3>2, Rows DEF RowsStay
  <2> QED
    BY <1>3, <2>5, Rows DEF Delivers
<1>4. CASE ComesBackEmpty
  BY <1>2, <1>4, Rows DEF ComesBackEmpty, RowsStay
<1> QED
  BY <1>3, <1>4

(* What is emitted is a sequence of kinds.                                  *)
LEMMA KindsAreKinds ==
  /\ \A k \in Kinds : <<k>> \in Seq(Kinds) /\ DOMAIN <<k>> = {1} /\ <<k>>[1] = k
  /\ <<"task_failed", "agent_lost">> \in Seq(Kinds)
  /\ <<"agent_lost">> \in Seq(Kinds) /\ <<"agent_checked_in">> \in Seq(Kinds)
  /\ <<"task_progress">> \in Seq(Kinds) /\ <<"worker_question">> \in Seq(Kinds)
  /\ <<"task_completed">> \in Seq(Kinds) /\ <<"task_failed">> \in Seq(Kinds)
  BY DEF Kinds

(* Emitting appends rows of the kinds given, to be delivered.               *)
LEMMA EmitEffect ==
  ASSUME Typed, NEW kinds \in Seq(Kinds), Emit(kinds)
  PROVE  /\ RowsStay
         /\ \A e \in DOMAIN events' \ DOMAIN events :
               \E i \in DOMAIN kinds : events'[e].kind = kinds[i]
<1> DEFINE new == [i \in DOMAIN kinds |-> [kind |-> kinds[i], state |-> "queued"]]
<1>1. Len(kinds) \in Nat /\ DOMAIN kinds = 1..Len(kinds)
  BY LenProperties
<1>2. \A i \in 1..Len(kinds) : kinds[i] \in Kinds
  BY ElementOfSeq
<1>3. new \in Seq(Events) /\ Len(new) = Len(kinds)
  BY <1>1, <1>2 DEF Events, EventStates
<1>4. /\ \A i \in 1..Len(kinds) : new[i].kind = kinds[i] /\ new[i].state = "queued"
  BY <1>1
<1> HIDE DEF new
<1>5. /\ events \o new \in Seq(Events)
      /\ Len(events \o new) = Len(events) + Len(kinds)
      /\ \A e \in 1..Len(events) + Len(kinds) : (events \o new)[e] =
            IF e <= Len(events) THEN events[e] ELSE new[e - Len(events)]
  <2>1. events \in Seq(Events)
    BY DEF Typed
  <2>2. /\ events \o new \in Seq(Events)
        /\ Len(events \o new) = Len(events) + Len(new)
        /\ \A e \in 1..Len(events) + Len(new) : (events \o new)[e] =
              IF e <= Len(events) THEN events[e] ELSE new[e - Len(events)]
    BY <1>3, <2>1, ConcatProperties
  <2> QED
    BY <1>3, <2>2
<1>6. events' = events \o new
  BY DEF Emit, new
<1>7. /\ events' \in Seq(Events) /\ Len(events) <= Len(events')
      /\ \A e \in DOMAIN events : events'[e] = events[e]
  BY <1>1, <1>5, <1>6, Rows
<1>8. ASSUME NEW e \in DOMAIN events' \ DOMAIN events
      PROVE  /\ events'[e].state = "queued"
             /\ \E i \in DOMAIN kinds : events'[e].kind = kinds[i]
  <2>1. e - Len(events) \in 1..Len(kinds) /\ events'[e] = new[e - Len(events)]
    <3>1. DOMAIN events' = 1..Len(events')
      BY <1>7, LenProperties
    <3> QED
      BY <1>1, <1>5, <1>6, <1>8, <3>1, Rows
  <2> QED
    BY <1>1, <1>4, <2>1
<1> QED
  BY <1>7, <1>8 DEF RowsStay

(* What is new after one kind was emitted is of that kind.                  *)
LEMMA EmitOne ==
  ASSUME Typed, NEW k \in Kinds, Emit(<<k>>)
  PROVE  \A e \in DOMAIN events' \ DOMAIN events : events'[e].kind = k
<1>1. <<k>> \in Seq(Kinds) /\ DOMAIN <<k>> = {1} /\ <<k>>[1] = k
  BY KindsAreKinds
<1> QED
  BY <1>1, EmitEffect

(* The tasks stay, and a task that has ended or was claimed stays so; only  *)
(* the worker's question has one wait for its answer.                       *)
TasksStay ==
    /\ tasks' \in Seq(Tasks)
    /\ Len(tasks') = Len(tasks)
    /\ \A t \in DOMAIN tasks :
          /\ tasks'[t].source = tasks[t].source
          /\ tasks[t].state \in Terminal => tasks'[t].state = tasks[t].state
          /\ tasks[t].state # "submitted" => tasks'[t].state # "submitted"
          /\ tasks'[t].state = "input-required" =>
                tasks[t].state = "input-required" \/ worker = "ask"

(* Setting the state of an open task, and with it the question.             *)
LEMMA SetTaskEffect ==
  ASSUME Typed, NEW t \in OpenTasks,
         NEW s \in (Open \cup Terminal) \ {"submitted"}, s = "input-required" => worker = "ask",
         NEW q \in {"none", "open", "answered"},
         \/ tasks' = [tasks EXCEPT ![t].state = s]
         \/ tasks' = [tasks EXCEPT ![t].state = s, ![t].question = q]
  PROVE  /\ TasksStay
         /\ tasks'[t].state = s
         /\ \A u \in DOMAIN tasks \ {t} : tasks'[u] = tasks[u]
<1>1. t \in 1..Len(tasks) /\ tasks[t] \in Tasks /\ tasks[t].state \in Open
  BY Rows DEF OpenTasks
<1>2. PICK row \in Tasks : /\ tasks' = [tasks EXCEPT ![t] = row]
                           /\ row.state = s
                           /\ row.source = tasks[t].source
  <2>1. CASE tasks' = [tasks EXCEPT ![t].state = s]
    <3> DEFINE r == [tasks[t] EXCEPT !.state = s]
    <3>1. r \in Tasks /\ r.state = s /\ r.source = tasks[t].source
      BY <1>1 DEF Tasks
    <3>2. tasks' = [tasks EXCEPT ![t] = r]
      BY <1>1, <2>1
    <3> QED
      BY <3>1, <3>2
  <2>2. CASE tasks' = [tasks EXCEPT ![t].state = s, ![t].question = q]
    <3> DEFINE r == [[tasks[t] EXCEPT !.state = s] EXCEPT !.question = q]
    <3>1. r \in Tasks /\ r.state = s /\ r.source = tasks[t].source
      BY <1>1 DEF Tasks
    <3>2. tasks' = [tasks EXCEPT ![t] = r]
      BY <1>1, <2>2
    <3> QED
      BY <3>1, <3>2
  <2> QED
    BY <2>1, <2>2
<1>3. /\ tasks' \in Seq(Tasks) /\ Len(tasks') = Len(tasks)
      /\ \A u \in 1..Len(tasks) : tasks'[u] = IF u = t THEN row ELSE tasks[u]
  BY <1>1, <1>2, ExceptSeq DEF Typed
<1> QED
  BY <1>1, <1>2, <1>3, Rows DEF TasksStay, Open, Terminal

(* A reply moves the task that waits for it, and leaves none waiting.       *)
LEMMA ReplyEffect ==
  ASSUME Typed, Reply
  PROVE  TasksStay /\ \A t \in DOMAIN tasks : tasks'[t].state # "input-required"
<1> DEFINE row(t) == IF tasks[t].state = "input-required"
                     THEN [tasks[t] EXCEPT !.state = "working", !.question = "answered"]
                     ELSE tasks[t]
<1>1. ASSUME NEW t \in DOMAIN tasks
      PROVE  /\ row(t) \in Tasks
             /\ row(t).source = tasks[t].source
             /\ tasks[t].state \in Terminal => row(t).state = tasks[t].state
             /\ tasks[t].state # "submitted" => row(t).state # "submitted"
             /\ row(t).state # "input-required"
  BY <1>1, Rows DEF Tasks, Open, Terminal
<1>2. tasks' = [t \in 1..Len(tasks) |-> row(t)]
  BY Rows DEF Reply
<1> HIDE DEF row
<1>3. tasks' \in Seq(Tasks) /\ Len(tasks') = Len(tasks)
  BY <1>1, <1>2, Rows
<1> QED
  BY <1>1, <1>2, <1>3, Rows DEF TasksStay
-------------------------------------------------------------------------------
(* What a step does to the tables *)

(* Only these steps touch the event rows; each leaves them as they were.    *)
LEMMA RowsStep ==
  ASSUME Typed, [Next]_vars
  PROVE  RowsStay
<1>1. CASE events' = events
  BY <1>1, Rows DEF RowsStay, Typed
<1>2. CASE SeekFinds \/ SeekComesBackEmpty \/ WaitFinds \/ WaitComesBackEmpty
  BY <1>2, WaitsEffect DEF SeekFinds, SeekComesBackEmpty, WaitFinds, WaitComesBackEmpty
<1>3. CASE FinalAck
  BY <1>1, <1>3, WaitsEffect DEF FinalAck
<1>4. ASSUME NEW e \in 1..MaxEvents, ExpireDelivery(e) PROVE RowsStay
  <2> DEFINE row == [events[e] EXCEPT !.state = "due"]
  <2>1. e \in 1..Len(events) /\ events[e] \in Events
    BY <1>4, Rows DEF ExpireDelivery
  <2>2. row \in Events /\ row.kind = events[e].kind /\ row.state # "acked"
    BY <2>1 DEF Events, EventStates
  <2>3. events' = [events EXCEPT ![e] = row]
    BY <1>4, <2>1, Rows DEF ExpireDelivery
  <2>4. /\ events' \in Seq(Events) /\ Len(events') = Len(events)
        /\ \A f \in 1..Len(events) : events'[f] = IF f = e THEN row ELSE events[f]
    BY <2>1, <2>2, <2>3, ExceptSeq DEF Typed
  <2> HIDE DEF row
  <2>5. DOMAIN events' = DOMAIN events
    BY <2>4, LenProperties, Rows
  <2> QED
    BY <2>2, <2>4, <2>5, Rows DEF RowsStay
<1>5. ASSUME NEW kinds \in Seq(Kinds), Emit(kinds) PROVE RowsStay
  BY <1>5, EmitEffect
<1>6. CASE LoseAgent
  BY <1>5, <1>6, KindsAreKinds DEF LoseAgent
<1>7. CASE CheckIn \/ ReportProgress \/ AskAlice
  BY <1>5, <1>7, KindsAreKinds DEF CheckIn, ReportProgress, AskAlice
<1>8. CASE SubmitResult
  BY <1>5, <1>8, KindsAreKinds DEF SubmitResult
<1>9. CASE StartAlice \/ InitializeWorkflow \/ Look \/ ReadState \/ LogDecision
           \/ AssignTask \/ Recheck \/ Reply \/ ReleaseAgent \/ SetWorkflowDone
           \/ CrashAlice
  BY <1>1, <1>9 DEF StartAlice, InitializeWorkflow, Look, ReadState, LogDecision,
                    AssignTask, Recheck, Reply, ReleaseAgent, SetWorkflowDone,
                    CrashAlice, hub
<1>10. CASE Claim \/ Listen \/ HearRelease \/ CrashWorker
  BY <1>1, <1>10 DEF Claim, Listen, HearRelease, CrashWorker, hub
<1>11. CASE UNCHANGED vars
  BY <1>1, <1>11 DEF vars, hub
<1> QED
  BY <1>2, <1>3, <1>4, <1>6, <1>7, <1>8, <1>9, <1>10, <1>11 DEF Next, AliceStep, WorkerStep

(* The one step that makes a task.                                          *)
Assigns ==
    /\ alice = "assign" /\ source \in decisions
    /\ tasks = <<>>
    /\ tasks' \in Seq(Tasks) /\ Len(tasks') = 1
    /\ tasks'[1].source = source

(* Alice makes a task where there is none; no other step makes one.         *)
LEMMA TasksStep ==
  ASSUME IInv, [Next]_vars
  PROVE  TasksStay \/ Assigns
<1> USE DEF IInv
<1>1. CASE tasks' = tasks
  BY <1>1, Rows DEF TasksStay, Typed
<1>2. CASE AssignTask /\ tasks' # tasks
  <2> DEFINE row == [source |-> source, state |-> "submitted", question |-> "none"]
  <2>1. /\ alice = "assign" /\ tasks = <<>> /\ source \in decisions
        /\ tasks' = Append(tasks, row)
    BY <1>2 DEF AssignTask, PlaceIsTrue, Seeking
  <2>2. row \in Tasks
    BY DEF Typed, TypeOK, Tasks, Open, Terminal
  <2> QED
    BY <2>1, <2>2, EmptySeq, AppendProperties DEF Assigns
<1>3. CASE LoseAgent /\ tasks' # tasks
  BY <1>3, SetTaskEffect DEF LoseAgent, SetTask, Terminal
<1>4. CASE Claim
  BY <1>4, SetTaskEffect DEF Claim, SetTask, OpenTasks, Open
<1>5. CASE AskAlice
  BY <1>5, SetTaskEffect DEF AskAlice, Open
<1>6. CASE SubmitResult
  BY <1>6, SetTaskEffect DEF SubmitResult, SetTask, Terminal
<1>7. CASE Reply
  BY <1>7, ReplyEffect
<1>8. CASE StartAlice \/ InitializeWorkflow \/ Look \/ ReadState \/ LogDecision
           \/ Recheck \/ ReleaseAgent \/ SetWorkflowDone \/ CrashAlice
  BY <1>1, <1>8 DEF StartAlice, InitializeWorkflow, Look, ReadState, LogDecision,
                    Recheck, ReleaseAgent, SetWorkflowDone, CrashAlice, hub, Idle
<1>9. CASE SeekFinds \/ SeekComesBackEmpty \/ WaitFinds \/ WaitComesBackEmpty \/ FinalAck
  BY <1>1, <1>9 DEF SeekFinds, SeekComesBackEmpty, WaitFinds, WaitComesBackEmpty,
                    FinalAck, Idle
<1>10. CASE CheckIn \/ ReportProgress \/ Listen \/ HearRelease \/ CrashWorker
            \/ \E e \in 1..MaxEvents : ExpireDelivery(e)
  BY <1>1, <1>10 DEF CheckIn, ReportProgress, Listen, HearRelease, CrashWorker,
                     ExpireDelivery, hub
<1>11. CASE UNCHANGED vars
  BY <1>1, <1>11 DEF vars, hub
<1> QED
  BY <1>1, <1>2, <1>3, <1>4, <1>5, <1>6, <1>7, <1>8, <1>9, <1>10, <1>11
     DEF Next, AliceStep, WorkerStep
-------------------------------------------------------------------------------
(* The invariant *)

(* No row, no program running: the invariant holds.                         *)
LEMMA InitIInv == Init => IInv
<1> SUFFICES ASSUME Init PROVE IInv
  OBVIOUS
<1> USE DEF Init
<1>1. /\ tasks \in Seq(Tasks) /\ events \in Seq(Events)
      /\ Len(tasks) = 0 /\ Len(events) = 0 /\ DOMAIN tasks = {} /\ DOMAIN events = {}
  <2>1. Len(tasks) = 0 /\ Len(events) = 0 /\ tasks \in Seq(Tasks) /\ events \in Seq(Events)
    BY EmptySeq
  <2> QED
    BY <2>1, LenProperties
<1>2. Typed
  <2>1. 0 \in 0..Len(events)
    BY <1>1
  <2> HIDE DEF Init
  <2>2. TypeOK
    BY <1>1, <2>1 DEF TypeOK, Init
  <2>3. alice = "down" /\ worker = "down"
    BY DEF Init
  <2> QED
    BY <1>1, <2>2, <2>3 DEF Typed
<1> QED
  BY <1>1, <1>2 DEF IInv, AssignedOnce, PlaceIsTrue, HandIsHandled,
                    EventsAreTrue, AckedIsDone, AllEnded, Seeking, Assigned

(* Every step keeps the types, for the rows because it keeps them.          *)
LEMMA TypedStep ==
  ASSUME IInv, [Next]_vars
  PROVE  Typed'
<1> USE DEF IInv
<1>1. /\ events' \in Seq(Events) /\ tasks' \in Seq(Tasks)
      /\ Len(events') \in Nat /\ DOMAIN events \subseteq DOMAIN events'
      /\ DOMAIN events' = 1..Len(events') /\ Len(events) <= Len(events')
  <2>1. RowsStay
    BY RowsStep
  <2>2. tasks' \in Seq(Tasks)
    BY TasksStep DEF TasksStay, Assigns
  <2> QED
    BY <2>1, <2>2, Rows, LenProperties DEF RowsStay
<1>2. /\ \A t \in DOMAIN tasks' : tasks'[t].state \in Open \cup Terminal
      /\ \A e \in DOMAIN events' : events'[e].state \in EventStates
  <2>1. \A t \in DOMAIN tasks' : tasks'[t] \in Tasks
    BY <1>1, LenProperties, ElementOfSeq
  <2>2. \A e \in DOMAIN events' : events'[e] \in Events
    BY <1>1, ElementOfSeq
  <2> QED
    BY <2>1, <2>2 DEF Tasks, Events
<1> DEFINE Rest == /\ workflow' \in {"none", "active", "done"}
                   /\ decisions' \subseteq DOMAIN events'
                   /\ agent' \in {"none", "idle", "busy", "lost", "released"}
                   /\ hand' \in 0..Len(events')
                   /\ known' \in BOOLEAN
                   /\ unacked' \subseteq DOMAIN events'
                   /\ source' \in 0..Len(events')
                   /\ alice' \in {"down", "initialize", "look"} \cup Seeking \cup Assigned
                   /\ worker' \in {"down", "await", "progress", "ask", "listen",
                                  "submit", "gone"}
                   /\ alice' \in {"decide", "assign"} => source' \in DOMAIN events'
<1> SUFFICES Rest
  BY <1>1, <1>2 DEF Typed, TypeOK, EventStates
<1> USE DEF Typed, TypeOK, Seeking, Assigned
<1>0. /\ decisions \subseteq DOMAIN events' /\ unacked \subseteq DOMAIN events'
      /\ 0 \in 0..Len(events') /\ hand \in 0..Len(events') /\ source \in 0..Len(events')
      /\ \A e \in DOMAIN events : e \in 0..Len(events')
      /\ \A h \in 0..Len(events) : h \in 0..Len(events')
  BY <1>1, Rows
<1> USE <1>0
<1>3. CASE StartAlice \/ InitializeWorkflow \/ Look
  BY <1>1, <1>3 DEF StartAlice, InitializeWorkflow, Look, Goes, Idle, hub
<1>4. CASE ReadState
  BY <1>1, <1>4 DEF ReadState, Goes, Idle
<1>5. CASE SeekFinds
  <2>1. hand' \in 0..Len(events)
    BY <1>5, WaitsEffect DEF SeekFinds
  <2> QED
    BY <1>1, <1>5, <2>1 DEF SeekFinds, Goes, Idle
<1>6. CASE SeekComesBackEmpty
  BY <1>1, <1>6 DEF SeekComesBackEmpty, ComesBackEmpty, Goes, Idle
<1>7. CASE LogDecision
  BY <1>1, <1>7 DEF LogDecision, Goes
<1>16. CASE AssignTask
  <2>1. /\ UNCHANGED <<workflow, decisions, worker>>
        /\ agent' \in {agent, "busy"}
        /\ \/ alice' = "wait" /\ UNCHANGED <<hand, known, unacked, source>>
           \/ Forget
    BY <1>16 DEF AssignTask, Goes
  <2> QED
    BY <1>1, <2>1 DEF Forget
<1>8. CASE WaitFinds
  <2>1. hand' \in 0..Len(events)
    BY <1>8, WaitsEffect DEF WaitFinds
  <2>2. alice' \in {"reply", "finish", "wait"}
    BY <1>8 DEF WaitFinds, Goes
  <2> QED
    BY <1>1, <1>8, <2>1, <2>2 DEF WaitFinds, Idle
<1>9. CASE WaitComesBackEmpty \/ Recheck
  BY <1>1, <1>9 DEF WaitComesBackEmpty, ComesBackEmpty, Recheck, Goes, Idle
<1>17. CASE Reply
  BY <1>1, <1>17 DEF Reply, Goes
<1>10. CASE FinalAck
  <2>1. hand' \in 0..Len(events)
    BY <1>10, WaitsEffect DEF FinalAck
  <2> QED
    BY <1>1, <1>10, <2>1 DEF FinalAck, Goes, Idle
<1>11. CASE ReleaseAgent \/ SetWorkflowDone
  BY <1>1, <1>11 DEF ReleaseAgent, SetWorkflowDone, Goes
<1>18. CASE CrashAlice
  BY <1>1, <1>18 DEF CrashAlice, Forget, hub
<1>12. CASE CheckIn \/ Claim \/ ReportProgress \/ AskAlice
  BY <1>1, <1>12 DEF CheckIn, Readmitted, Claim, ReportProgress, AskAlice, session
<1>13. CASE Listen \/ SubmitResult \/ HearRelease \/ CrashWorker
  BY <1>1, <1>13 DEF Listen, SubmitResult, HearRelease, CrashWorker, session, hub
<1>14. CASE LoseAgent \/ \E e \in 1..MaxEvents : ExpireDelivery(e)
  BY <1>1, <1>14 DEF LoseAgent, ExpireDelivery, session
<1>15. CASE UNCHANGED vars
  BY <1>1, <1>15 DEF vars, session, hub
<1> QED
  BY <1>3, <1>4, <1>5, <1>6, <1>7, <1>8, <1>9, <1>10, <1>11, <1>12, <1>13, <1>14, <1>15,
     <1>16, <1>17, <1>18 DEF Next, AliceStep, WorkerStep

(* A decision is never taken back.                                          *)
LEMMA DecisionsStay == [Next]_vars => decisions \subseteq decisions'
<1> SUFFICES ASSUME [Next]_vars PROVE decisions \subseteq decisions'
  OBVIOUS
<1>1. CASE AliceStep
  BY <1>1 DEF AliceStep, StartAlice, InitializeWorkflow, Look, ReadState, SeekFinds,
              SeekComesBackEmpty, LogDecision, AssignTask, WaitFinds,
              WaitComesBackEmpty, Recheck, Reply, FinalAck, ReleaseAgent,
              SetWorkflowDone, Idle, hub
<1>2. CASE WorkerStep
  BY <1>2 DEF WorkerStep, CheckIn, Claim, ReportProgress, AskAlice, Listen,
              SubmitResult, HearRelease, hub
<1>3. CASE CrashAlice \/ CrashWorker \/ LoseAgent
           \/ (\E e \in 1..MaxEvents : ExpireDelivery(e)) \/ UNCHANGED vars
  BY <1>3 DEF CrashAlice, CrashWorker, LoseAgent, ExpireDelivery, vars, hub
<1> QED
  BY <1>1, <1>2, <1>3 DEF Next

(* A second task would need an assignment while there is one.               *)
LEMMA AssignedStep ==
  ASSUME IInv, [Next]_vars
  PROVE  AssignedOnce'
<1>1. Len(tasks') <= 1 /\ \A t \in DOMAIN tasks' : tasks'[t].source \in decisions
  <2>1. CASE TasksStay
    BY <2>1, Rows, LenProperties DEF IInv, AssignedOnce, TasksStay
  <2>2. CASE Assigns
    BY <2>2, LenProperties DEF Assigns
  <2> QED
    BY <2>1, <2>2, TasksStep
<1> QED
  BY <1>1, DecisionsStay DEF AssignedOnce

(* What is acknowledged by a step was dealt with by Alice; what was         *)
(* acknowledged before stays dealt with.                                    *)
LEMMA AckedStep ==
  ASSUME IInv, [Next]_vars
  PROVE  AckedIsDone'
<1> SUFFICES ASSUME NEW e \in DOMAIN events', events'[e].state = "acked"
             PROVE  /\ events'[e].kind = "agent_checked_in" => tasks' # <<>>
                    /\ events'[e].kind = "worker_question" =>
                          \A t \in DOMAIN tasks' : tasks'[t].state # "input-required"
  BY DEF AckedIsDone
<1>1. /\ e \in DOMAIN events /\ events'[e].kind = events[e].kind
      /\ \/ events[e].state = "acked"
         \/ e = hand /\ alice \in {"seek", "wait", "finish"}
  <2>1. RowsStay
    BY RowsStep DEF IInv
  <2>2. e \in DOMAIN events
    BY <2>1 DEF RowsStay
  <2>3. /\ events'[e].kind = events[e].kind
        /\ events'[e].state = "acked" =>
              \/ events[e].state = "acked"
              \/ e = hand /\ alice \in {"seek", "wait", "finish"}
    BY <2>1, <2>2 DEF RowsStay
  <2> QED
    BY <2>2, <2>3
<1>2. hand \in DOMAIN events => hand # 0
  BY Rows DEF IInv
<1>3. ASSUME events[e].kind = "agent_checked_in" PROVE tasks' # <<>>
  <2>1. tasks # <<>>
    BY <1>1, <1>2, <1>3 DEF IInv, AckedIsDone, HandIsHandled, PlaceIsTrue, Assigned
  <2>2. TasksStay
    BY <2>1, TasksStep DEF Assigns
  <2> QED
    BY <2>1, <2>2, EmptySeq DEF TasksStay, IInv, Typed
<1>4. ASSUME events[e].kind = "worker_question"
      PROVE  \A t \in DOMAIN tasks' : tasks'[t].state # "input-required"
  <2>1. tasks # <<>> /\ worker # "ask"
    BY <1>1, <1>4 DEF IInv, EventsAreTrue
  <2>2. \A t \in DOMAIN tasks : tasks[t].state # "input-required"
    BY <1>1, <1>2, <1>4, <2>1 DEF IInv, AckedIsDone, HandIsHandled, PlaceIsTrue, Seeking
  <2>3. TasksStay /\ DOMAIN tasks' = DOMAIN tasks
    BY <2>1, TasksStep, LenProperties, Rows DEF Assigns, TasksStay, IInv
  <2> QED
    BY <2>1, <2>2, <2>3 DEF TasksStay
<1> QED
  BY <1>1, <1>3, <1>4
(* The hand is filled by a wait and emptied by an ack, and Alice turns to   *)
(* the next event only after she did what the one in hand asks for.         *)
LEMMA HandStep ==
  ASSUME IInv, [Next]_vars
  PROVE  HandIsHandled'
<1> USE DEF HandIsHandled
<1>1. hand \in DOMAIN events \/ hand = 0
  BY Rows DEF IInv, Typed, TypeOK
<1>2. \A e \in DOMAIN events : events'[e].kind = events[e].kind
  BY RowsStep DEF RowsStay, IInv
<1>3. ASSUME NEW e \in DOMAIN events, events[e].kind = "worker_question",
             \A t \in DOMAIN tasks : tasks[t].state # "input-required"
      PROVE  \A t \in DOMAIN tasks' : tasks'[t].state # "input-required"
  <2>1. tasks # <<>> /\ worker # "ask"
    BY <1>3 DEF IInv, EventsAreTrue
  <2>2. TasksStay /\ DOMAIN tasks' = DOMAIN tasks
    BY <2>1, TasksStep, LenProperties, Rows DEF Assigns, TasksStay, IInv
  <2> QED
    BY <1>3, <2>1, <2>2 DEF TasksStay
<1>4. CASE alice' = alice /\ hand' = hand
  BY <1>1, <1>2, <1>3, <1>4 DEF IInv
<1>5. CASE hand' = 0
  BY <1>5
<1>6. ASSUME alice \in {"seek", "wait", "finish"}, NEW e \in DOMAIN events, Delivers(e)
      PROVE  hand' = e /\ e # 0 /\ hand' \in DOMAIN events
  BY <1>6, Rows DEF Delivers, IInv
<1>7. CASE StartAlice \/ InitializeWorkflow \/ Look
  BY <1>7 DEF StartAlice, InitializeWorkflow, Look, Goes, IInv
<1>8. CASE ReadState
  BY <1>1, <1>2, <1>8 DEF ReadState, Goes, IInv
<1>9. CASE SeekFinds
  BY <1>2, <1>6, <1>9 DEF SeekFinds, Goes
<1>10. CASE SeekComesBackEmpty \/ WaitComesBackEmpty \/ CrashAlice
  BY <1>5, <1>10 DEF SeekComesBackEmpty, WaitComesBackEmpty, CrashAlice, ComesBackEmpty,
                     Forget
<1>11. CASE LogDecision
  BY <1>11 DEF LogDecision, Goes
<1>12. CASE AssignTask
  <2>1. tasks = <<>>
    BY <1>12 DEF AssignTask, IInv, PlaceIsTrue, Seeking
  <2>2. hand # 0 => events[hand].kind # "worker_question"
    BY <1>1, <2>1 DEF IInv, EventsAreTrue
  <2>3. hand' = 0 \/ (hand' = hand /\ alice' = "wait")
    BY <1>12 DEF AssignTask, Goes, Forget
  <2> QED
    BY <1>1, <1>2, <2>2, <2>3
<1>13. CASE WaitFinds
  <2>1. PICK e \in DOMAIN events :
           /\ hand' = e
           /\ events'[e].kind = events[e].kind
           /\ alice' = CASE events[e].kind = "worker_question" -> "reply"
                        [] events[e].kind \in {"task_completed", "task_failed"} -> "finish"
                        [] OTHER -> "wait"
    BY <1>2, <1>13 DEF WaitFinds, Delivers, Goes
  <2>2. CASE events[e].kind = "worker_question"
    BY <2>1, <2>2
  <2>3. CASE events[e].kind # "worker_question"
    <3>1. alice' \in {"finish", "wait"}
      BY <2>1, <2>3
    <3> QED
      BY <2>1, <2>3, <3>1
  <2> QED
    BY <2>2, <2>3
<1>14. CASE Recheck
  <2>1. /\ hand' = hand /\ alice = "recheck" /\ alice' \in {"finish", "wait"}
    BY <1>14 DEF Recheck, Goes
  <2> QED
    BY <1>1, <1>2, <1>3, <2>1 DEF IInv
<1>15. CASE Reply
  <2>1. \A t \in DOMAIN tasks : tasks'[t].state # "input-required"
    BY <1>15, ReplyEffect DEF IInv
  <2>2. DOMAIN tasks' = DOMAIN tasks
    BY <1>15, ReplyEffect, LenProperties, Rows DEF TasksStay, IInv
  <2>3. alice' = "wait"
    BY <1>15 DEF Reply, Goes
  <2> QED
    BY <2>1, <2>2, <2>3
<1>16. CASE FinalAck \/ ReleaseAgent \/ SetWorkflowDone
  BY <1>16 DEF FinalAck, ReleaseAgent, SetWorkflowDone, Goes
<1>17. CASE WorkerStep
  BY <1>4, <1>17 DEF WorkerStep, CheckIn, Claim, ReportProgress, AskAlice, Listen,
                     SubmitResult, HearRelease, session
<1>18. CASE CrashWorker \/ LoseAgent \/ (\E e \in 1..MaxEvents : ExpireDelivery(e))
            \/ UNCHANGED vars
  BY <1>4, <1>18 DEF CrashWorker, LoseAgent, ExpireDelivery, vars, session
<1> QED
  BY <1>7, <1>8, <1>9, <1>10, <1>11, <1>12, <1>13, <1>14, <1>15, <1>16, <1>17, <1>18
     DEF Next, AliceStep

(* What has ended stays ended, however the step goes.                       *)
LEMMA EndedStays ==
  ASSUME IInv, [Next]_vars, tasks # <<>>
  PROVE  tasks' # <<>> /\ (AllEnded => AllEnded')
<1>1. TasksStay /\ DOMAIN tasks' = DOMAIN tasks /\ Len(tasks') = Len(tasks)
  BY TasksStep, LenProperties, Rows DEF Assigns, TasksStay, IInv
<1>2. tasks' # <<>>
  BY <1>1, EmptySeq DEF TasksStay, IInv, Typed
<1> QED
  BY <1>1, <1>2 DEF TasksStay, AllEnded

(* Alice moves on only when what she moves on from is done.                 *)
LEMMA PlaceStep ==
  ASSUME IInv, [Next]_vars
  PROVE  PlaceIsTrue'
<1> USE DEF IInv, PlaceIsTrue, Seeking, Assigned
<1>1. tasks # <<>> => tasks' # <<>> /\ (AllEnded => AllEnded')
  BY EndedStays
<1>2. decisions \subseteq decisions'
  BY DecisionsStay
<1>3. CASE StartAlice \/ InitializeWorkflow \/ Look
  BY <1>1, <1>3 DEF StartAlice, InitializeWorkflow, Look, FindTask, Goes, Idle, hub
<1>4. CASE ReadState \/ SeekFinds \/ SeekComesBackEmpty \/ LogDecision
  BY <1>1, <1>2, <1>4 DEF ReadState, SeekFinds, SeekComesBackEmpty, LogDecision, Goes, Idle
<1>5. CASE AssignTask
  <2>1. tasks = <<>> /\ workflow' = workflow /\ workflow # "done"
    BY <1>5 DEF AssignTask
  <2>2. CASE alice' = "wait"
    <3>1. tasks' # <<>>
      <4>1. tasks' = Append(tasks, [source |-> source, state |-> "submitted",
                                    question |-> "none"])
        BY <1>5, <2>1, <2>2 DEF AssignTask, Forget
      <4>2. [source |-> source, state |-> "submitted", question |-> "none"] \in Tasks
        BY DEF Typed, TypeOK, Tasks, Open, Terminal
      <4> QED
        BY <4>1, <4>2, AppendProperties DEF Typed
    <3> QED
      BY <2>1, <2>2, <3>1
  <2>3. CASE alice' = "down"
    BY <2>1, <2>3
  <2> QED
    BY <1>5, <2>2, <2>3 DEF AssignTask, Goes, Forget
<1>6. CASE WaitFinds
  <2>1. PICK e \in DOMAIN events :
           alice' = CASE events[e].kind = "worker_question" -> "reply"
                    [] events[e].kind \in {"task_completed", "task_failed"} -> "finish"
                    [] OTHER -> "wait"
    BY <1>6 DEF WaitFinds, Goes
  <2>2. alice' \in {"reply", "wait", "finish"} /\ (alice' = "finish" => AllEnded)
    BY <2>1 DEF EventsAreTrue
  <2>3. tasks # <<>> /\ workflow' = workflow /\ workflow # "done"
    BY <1>6 DEF WaitFinds, Idle
  <2> QED
    BY <1>1, <2>2, <2>3
<1>7. CASE WaitComesBackEmpty \/ Reply
  BY <1>1, <1>7 DEF WaitComesBackEmpty, Reply, Goes, Idle
<1>8. CASE Recheck
  <2>1. DOMAIN tasks = {1}
    <3>1. tasks # <<>> /\ tasks \in Seq(Tasks) /\ Len(tasks) <= 1
      BY <1>8 DEF Recheck, AssignedOnce, Typed
    <3>2. Len(tasks) \in Nat \ {0}
      BY <3>1, EmptySeq
    <3> QED
      BY <3>1, <3>2, Rows
  <2>2. alice' = "finish" => AllEnded
    BY <1>8, <2>1 DEF Recheck, Goes, AllEnded
  <2> QED
    BY <1>1, <1>8, <2>2 DEF Recheck, Goes, Idle
<1>9. CASE FinalAck \/ ReleaseAgent \/ SetWorkflowDone
  BY <1>1, <1>9 DEF FinalAck, ReleaseAgent, SetWorkflowDone, Goes, Idle
<1>10. CASE CrashAlice
  BY <1>10 DEF CrashAlice, Forget, hub
<1>11. CASE WorkerStep
  <2>1. UNCHANGED <<workflow, decisions, alice, source>>
    BY <1>11 DEF WorkerStep, CheckIn, Claim, ReportProgress, AskAlice, Listen,
                 SubmitResult, HearRelease, session, hub
  <2>2. agent = "released" => agent' = "released"
    BY <1>11 DEF WorkerStep, CheckIn, Readmitted, Claim, ReportProgress, AskAlice,
                 Listen, SubmitResult, HearRelease, hub
  <2>3. tasks = <<>> => tasks' = <<>> \/ alice = "assign"
    <3>1. CASE tasks = <<>> /\ TasksStay
      BY <3>1, EmptySeq DEF TasksStay
    <3> QED
      BY <3>1, TasksStep DEF Assigns
  <2>4. alice = "assign" /\ tasks = <<>> => tasks' = <<>>
    BY <1>11, Rows, EmptySeq DEF WorkerStep, CheckIn, Claim, ReportProgress, AskAlice,
                 Listen, SubmitResult, HearRelease, hub, OpenTasks
  <2> QED
    BY <1>1, <2>1, <2>2, <2>3, <2>4
<1>12. CASE CrashWorker \/ (\E e \in 1..MaxEvents : ExpireDelivery(e)) \/ UNCHANGED vars
  BY <1>1, <1>12 DEF CrashWorker, ExpireDelivery, vars, session, hub
<1>13. CASE LoseAgent
  <2>1. UNCHANGED <<workflow, decisions, alice, source>> /\ agent # "released"
    BY <1>13 DEF LoseAgent, session
  <2>2. tasks = <<>> => tasks' = <<>>
    BY <1>13, Rows, EmptySeq DEF LoseAgent, OpenTasks
  <2> QED
    BY <1>1, <2>1, <2>2
<1> QED
  BY <1>3, <1>4, <1>5, <1>6, <1>7, <1>8, <1>9, <1>10, <1>11, <1>12, <1>13
     DEF Next, AliceStep
(* The end of the task is told when the task ends, a question when it is    *)
(* asked, and neither is undone: an ended task stays ended, and the claim   *)
(* that comes before a question comes once.                                 *)
LEMMA EventsStep ==
  ASSUME IInv, [Next]_vars
  PROVE  EventsAreTrue'
<1> USE DEF IInv
<1> DEFINE Ended(e) == events'[e].kind \in {"task_completed", "task_failed"}
           Question(e) == events'[e].kind = "worker_question"
           Asked == /\ \A t \in DOMAIN tasks' : tasks'[t].state # "submitted"
                    /\ worker' \notin {"progress", "ask"}
<1>1. /\ DOMAIN events \subseteq DOMAIN events'
      /\ \A e \in DOMAIN events : events'[e].kind = events[e].kind
  BY RowsStep, LenProperties, Rows DEF RowsStay
<1>2. ASSUME tasks # <<>>
      PROVE  /\ tasks' # <<>> /\ (AllEnded => AllEnded')
             /\ DOMAIN tasks' = DOMAIN tasks
             /\ (\A t \in DOMAIN tasks : tasks[t].state # "submitted")
                   => \A t \in DOMAIN tasks' : tasks'[t].state # "submitted"
  <2>1. TasksStay /\ DOMAIN tasks' = DOMAIN tasks
    BY <1>2, TasksStep, LenProperties, Rows DEF Assigns, TasksStay
  <2> QED
    BY <1>2, <2>1, EndedStays DEF TasksStay
<1>3. (\A t \in DOMAIN tasks : tasks[t].state # "submitted") /\ worker \notin {"progress", "ask"}
         => worker' \notin {"progress", "ask"}
  <2>1. CASE AliceStep
    BY <2>1 DEF AliceStep, StartAlice, InitializeWorkflow, Look, ReadState, SeekFinds,
                SeekComesBackEmpty, LogDecision, AssignTask, WaitFinds,
                WaitComesBackEmpty, Recheck, Reply, FinalAck, ReleaseAgent,
                SetWorkflowDone, Idle
  <2>2. CASE WorkerStep
    BY <2>2 DEF WorkerStep, CheckIn, Claim, ReportProgress, AskAlice, Listen,
                SubmitResult, HearRelease
  <2>3. CASE CrashAlice \/ CrashWorker \/ LoseAgent
             \/ (\E e \in 1..MaxEvents : ExpireDelivery(e)) \/ UNCHANGED vars
    BY <2>3 DEF CrashAlice, CrashWorker, LoseAgent, ExpireDelivery, vars
  <2> QED
    BY <2>1, <2>2, <2>3 DEF Next
<1>4. ASSUME NEW e \in DOMAIN events
      PROVE  /\ Ended(e) => tasks' # <<>> /\ AllEnded'
             /\ Question(e) => tasks' # <<>> /\ Asked
  BY <1>1, <1>2, <1>3, <1>4 DEF EventsAreTrue
<1>5. DOMAIN tasks \subseteq {1}
  BY Rows DEF AssignedOnce
<1>6. ASSUME NEW t \in OpenTasks
      PROVE  tasks # <<>> /\ DOMAIN tasks = {t}
  BY <1>5, <1>6, Rows, EmptySeq DEF OpenTasks
<1>7. ASSUME NEW e \in DOMAIN events' \ DOMAIN events
      PROVE  /\ Ended(e) => tasks' # <<>> /\ AllEnded'
             /\ Question(e) => tasks' # <<>> /\ Asked
  <2>1. DOMAIN events' # DOMAIN events
    BY <1>7
  <2>2. CASE LoseAgent
    <3>1. CASE Emit(<<"agent_lost">>)
      <4>1. events'[e].kind = "agent_lost"
        BY <1>7, <3>1, EmitOne DEF Kinds
      <4> QED
        BY <4>1
    <3>2. CASE (\E t \in OpenTasks : SetTask(t, "failed")) /\ Emit(<<"task_failed", "agent_lost">>)
      <4>1. PICK t \in OpenTasks : tasks' = [tasks EXCEPT ![t].state = "failed"]
        BY <3>2 DEF SetTask
      <4>2. tasks'[t].state = "failed"
        BY <4>1, SetTaskEffect DEF Terminal
      <4>3. tasks' # <<>> /\ AllEnded'
        BY <1>2, <1>6, <4>2 DEF AllEnded, Terminal
      <4>4. events'[e].kind # "worker_question"
        <5>1. \E i \in DOMAIN <<"task_failed", "agent_lost">> :
                 events'[e].kind = <<"task_failed", "agent_lost">>[i]
          BY <1>7, <3>2, EmitEffect, KindsAreKinds
        <5> QED
          BY <5>1
      <4> QED
        BY <4>3, <4>4
    <3> QED
      BY <2>2, <3>1, <3>2 DEF LoseAgent
  <2>3. CASE CheckIn
    <3>1. events'[e].kind = "agent_checked_in"
      BY <1>7, <2>3, EmitOne DEF CheckIn, Kinds
    <3> QED
      BY <3>1
  <2>4. CASE ReportProgress
    <3>1. events'[e].kind = "task_progress"
      BY <1>7, <2>4, EmitOne DEF ReportProgress, Kinds
    <3> QED
      BY <3>1
  <2>5. CASE AskAlice
    <3>1. events'[e].kind = "worker_question"
      BY <1>7, <2>5, EmitOne DEF AskAlice, Kinds
    <3>2. PICK t \in OpenTasks :
             tasks' = [tasks EXCEPT ![t].state = "input-required", ![t].question = "open"]
      BY <2>5 DEF AskAlice
    <3>3. tasks'[t].state = "input-required"
      BY <2>5, <3>2, SetTaskEffect DEF Open, AskAlice
    <3>4. tasks' # <<>> /\ Asked
      BY <1>2, <1>6, <2>5, <3>3 DEF AskAlice
    <3> QED
      BY <3>1, <3>4
  <2>6. CASE SubmitResult
    <3>1. PICK t \in OpenTasks, s \in Terminal :
             /\ tasks' = [tasks EXCEPT ![t].state = s]
             /\ Emit(<<IF s = "completed" THEN "task_completed" ELSE "task_failed">>)
      BY <2>6 DEF SubmitResult, SetTask
    <3>2. tasks'[t].state \in Terminal
      BY <3>1, SetTaskEffect DEF Terminal
    <3>3. tasks' # <<>> /\ AllEnded'
      BY <1>2, <1>6, <3>2 DEF AllEnded
    <3>4. events'[e].kind # "worker_question"
      <4> DEFINE k == IF s = "completed" THEN "task_completed" ELSE "task_failed"
      <4>1. k \in Kinds /\ k # "worker_question"
        BY DEF Kinds
      <4>2. Emit(<<k>>)
        BY <3>1
      <4> HIDE DEF k
      <4>3. events'[e].kind = k
        BY <1>7, <4>1, <4>2, EmitOne
      <4> QED
        BY <4>1, <4>3
    <3> QED
      BY <3>3, <3>4
  <2>7. CASE AliceStep
    <3>1. CASE SeekFinds \/ SeekComesBackEmpty \/ WaitFinds \/ WaitComesBackEmpty
      <4>1. Len(events') = Len(events) /\ events' \in Seq(Events)
        BY <3>1, WaitsEffect DEF SeekFinds, SeekComesBackEmpty, WaitFinds,
                                 WaitComesBackEmpty, RowsStay
      <4> QED
        BY <2>1, <4>1, Rows, LenProperties
    <3>2. CASE FinalAck
      <4>1. events' = events \/ (Len(events') = Len(events) /\ events' \in Seq(Events))
        BY <3>2, WaitsEffect DEF FinalAck, RowsStay
      <4> QED
        BY <2>1, <4>1, Rows, LenProperties
    <3> QED
      BY <2>1, <2>7, <3>1, <3>2 DEF AliceStep, StartAlice, InitializeWorkflow, Look,
                ReadState, LogDecision, AssignTask, Recheck, Reply, ReleaseAgent,
                SetWorkflowDone, hub
  <2>8. CASE Claim \/ Listen \/ HearRelease \/ CrashAlice \/ CrashWorker
             \/ (\E f \in 1..MaxEvents : ExpireDelivery(f)) \/ UNCHANGED vars
    <3>1. DOMAIN events' = DOMAIN events
      BY <2>8 DEF Claim, Listen, HearRelease, CrashAlice, CrashWorker, ExpireDelivery,
                  vars, hub
    <3> QED
      BY <2>1, <3>1
  <2> QED
    BY <2>2, <2>3, <2>4, <2>5, <2>6, <2>7, <2>8 DEF Next, WorkerStep
<1> HIDE DEF IInv
<1>8. ASSUME NEW e \in DOMAIN events'
      PROVE  /\ Ended(e) => tasks' # <<>> /\ AllEnded'
             /\ Question(e) => tasks' # <<>> /\ Asked
  BY <1>4, <1>7
<1> QED
  BY <1>8 DEF EventsAreTrue

(* The invariant is inductive.                                              *)
LEMMA Inductive == Spec => []IInv
<1>1. IInv /\ [Next]_vars => IInv'
  BY TypedStep, AssignedStep, PlaceStep, HandStep, EventsStep, AckedStep DEF IInv
<1> QED
  BY InitIInv, <1>1, PTL DEF Spec

-------------------------------------------------------------------------------
(* The theorems *)

(* Every variable holds a value of its type, whatever the two programs and  *)
(* their restarts do to the rows.                                           *)
THEOREM TypeCorrect == Spec => []TypeOK
<1>1. IInv => TypeOK
  BY DEF IInv, Typed
<1> QED
  BY Inductive, <1>1, PTL

(* However often Alice and the worker start again, a workflow has one task, *)
(* and its assignment is in the decision log (mock-alice.py finds the task  *)
(* before it looks for a check-in, and logs before it assigns).             *)
THEOREM AssignsOnce == Spec => []AssignedOnce
<1>1. IInv => AssignedOnce
  BY DEF IInv
<1> QED
  BY Inductive, <1>1, PTL

(* set_workflow("done") comes last: then the task has ended and the worker  *)
(* is released, and no check-in, sweep or late result changes either.       *)
THEOREM DoneStaysOver == Spec => []DoneIsOver
<1>1. IInv => DoneIsOver
  BY DEF IInv, PlaceIsTrue, DoneIsOver, AllEnded
<1> QED
  BY Inductive, <1>1, PTL

(* The ack given with the next wait is for an event Alice has dealt with,   *)
(* so her death loses none: the unacknowledged ones come back.              *)
THEOREM AckMeansDone == Spec => []AckedIsDone
<1>1. IInv => AckedIsDone
  BY DEF IInv
<1> QED
  BY Inductive, <1>1, PTL

===============================================================================
