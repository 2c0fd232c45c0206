---------------------------- MODULE QuestionReply ----------------------------
(***************************************************************************)
(* A worker's questions on one task: ask_alice of the worker client with   *)
(* the message id it keeps for retries, the held stream in the hub, Alice's*)
(* reply, and the endings that may come in between.                        *)
(*                                                                         *)
(* The transcript is a sequence; a message id is a position in it.  Of the *)
(* messages only questions, replies and override notes matter here.        *)
(***************************************************************************)
EXTENDS Naturals, Sequences, FiniteSets

CONSTANTS
    Questions,       \* the question texts the worker may ask
    MaxHeld,         \* ask_alice calls the worker's harness keeps open at once
    MaxAsks,         \* bound: message ids the worker mints
    MaxDisconnects   \* bound: streams lost on the way

ASSUME QuestionAssumption ==
    /\ MaxHeld \in Nat
    /\ MaxAsks \in Nat
    /\ MaxDisconnects \in Nat
    /\ "none" \notin Questions

(* "none" is the None of a task without a pending question.                 *)
NoQuestion == [question |-> "none", sentAs |-> 0]

VARIABLES
    taskState,    \* "working", "input-required" or "ended"
    transcript,   \* the task's messages, oldest first
    stream,       \* question -> id of the question row its stream waits on; 0: none
    streamAs,     \* question -> the messageId its stream was opened with
    pending,      \* the client's _pending_questions entry for the task
    minted,       \* message ids minted so far
    heard,        \* <<question, id of the message taken as its answer>>
    told,         \* a call of the worker returned that the task ended
    disconnects

hub == <<taskState, transcript>>
client == <<stream, streamAs, pending, minted, heard, told>>
vars == <<hub, client, disconnects>>

Init ==
    /\ taskState = "working"
    /\ transcript = <<>>
    /\ stream = [q \in Questions |-> 0]
    /\ streamAs = [q \in Questions |-> 0]
    /\ pending = NoQuestion
    /\ minted = 0
    /\ heard = {}
    /\ told = FALSE
    /\ disconnects = 0

----------------------------------------------------------------------------
(* Reading the transcript *)

Ids == DOMAIN transcript

QuestionIds == {m \in Ids : transcript[m].kind = "question"}

FromAlice == {m \in Ids : transcript[m].kind \in {"reply", "override"}}

Say(kind, q, sentAs) ==
    Append(transcript, [kind |-> kind, question |-> q, sentAs |-> sentAs])

(* Fault: a retry is not recognised.                                        *)
Asked_Never(sentAs) == {}

(* _asked_question: the row a question was already asked in under sentAs.   *)
Asked(sentAs) == {m \in QuestionIds : transcript[m].sentAs = sentAs}

(* pending_reply: Alice's first message after the given one.                *)
IsPendingReply(m, after) ==
    /\ m \in FromAlice
    /\ m > after
    /\ \A n \in FromAlice : n > after => m <= n

----------------------------------------------------------------------------
(* The worker *)

(* Fault: every call mints a message id.                                    *)
MessageId_Fresh(q) == minted + 1

(* The client reuses the pending message id for the same question text.     *)
MessageId(q) == IF pending.question = q THEN pending.sentAs ELSE minted + 1

(* ask_alice notes the question as pending under the id before it sends.    *)
Sends(q, id) ==
    /\ id <= MaxAsks
    /\ pending' = [question |-> q, sentAs |-> id]
    /\ minted' = IF id > minted THEN id ELSE minted

(* ask_alice, and open_question in the hub: a question already asked under  *)
(* this message id is resumed; a new one parks the task.                    *)
Ask(q) ==
    LET id == MessageId(q) IN
    /\ stream[q] = 0
    /\ Cardinality({p \in Questions : stream[p] # 0}) < MaxHeld
    /\ taskState # "ended"
    /\ Sends(q, id)
    /\ streamAs' = [streamAs EXCEPT ![q] = id]
    /\ IF Asked(id) # {}
       THEN /\ \E m \in Asked(id) : stream' = [stream EXCEPT ![q] = m]
            /\ UNCHANGED hub
       ELSE /\ transcript' = Say("question", q, id)
            /\ taskState' = "input-required"
            /\ stream' = [stream EXCEPT ![q] = Len(transcript) + 1]
    /\ UNCHANGED <<heard, told, disconnects>>

(* open_question refuses an ended task, a retry included; the client keeps  *)
(* its pending entry and the worker is told so by an error.                 *)
AskRefused(q) ==
    /\ stream[q] = 0
    /\ taskState = "ended"
    /\ ~told
    /\ Sends(q, MessageId(q))
    /\ told' = TRUE
    /\ UNCHANGED <<hub, stream, streamAs, heard, disconnects>>

(* The worker takes the message for the answer, and ask_alice forgets       *)
(* whatever question is pending for the task.                               *)
TakesAnswer(q, m) ==
    /\ heard' = heard \cup {<<q, m>>}
    /\ pending' = NoQuestion

(* The stream's poll finds a message and the task still open.               *)
StreamReplies(q, m) ==
    /\ stream[q] # 0
    /\ IsPendingReply(m, stream[q])
    /\ taskState # "ended"
    /\ TakesAnswer(q, m)
    /\ stream' = [stream EXCEPT ![q] = 0]
    /\ UNCHANGED <<hub, streamAs, minted, told, disconnects>>

(* _reply_stream reads the task again after its wait: an ended task is      *)
(* reported as such, whatever message the poll found.  A cancel or a sweep  *)
(* leaves no message, so then the stream notices at its deadline.           *)
StreamEnds(q) ==
    /\ stream[q] # 0
    /\ taskState = "ended"
    /\ told' = TRUE
    /\ stream' = [stream EXCEPT ![q] = 0]
    /\ pending' = NoQuestion
    /\ UNCHANGED <<hub, streamAs, minted, heard, disconnects>>

(* Nothing found by the deadline: the timeout marker names the message id.  *)
StreamTimesOut(q) ==
    /\ stream[q] # 0
    /\ taskState # "ended"
    /\ \A m \in FromAlice : m < stream[q]
    /\ stream' = [stream EXCEPT ![q] = 0]
    /\ pending' = [question |-> q, sentAs |-> streamAs[q]]
    /\ UNCHANGED <<hub, streamAs, minted, heard, told, disconnects>>

(* The stream breaks and the client gives up; the pending entry stays.      *)
StreamBreaks(q) ==
    /\ stream[q] # 0
    /\ disconnects < MaxDisconnects
    /\ disconnects' = disconnects + 1
    /\ stream' = [stream EXCEPT ![q] = 0]
    /\ UNCHANGED <<hub, streamAs, pending, minted, heard, told>>

(* submit_result drops the pending question first.                          *)
SubmitResult ==
    /\ taskState # "ended"
    /\ Cardinality({q \in Questions : stream[q] # 0}) < MaxHeld
    /\ pending' = NoQuestion
    /\ taskState' = "ended"
    /\ UNCHANGED <<transcript, stream, streamAs, minted, heard, told, disconnects>>

----------------------------------------------------------------------------
(* Alice *)

(* Fault: any question that is not yet answered may be replied to.          *)
Replyable_AnyQuestion(m) == m \in QuestionIds /\ taskState = "input-required"

(* Fault: the newest question may be replied to again.                      *)
Replyable_Again(m) == m \in QuestionIds /\ \A n \in QuestionIds : n <= m

(* The guards of reply: the task is parked, m is its newest question, and   *)
(* nothing from Alice follows it.                                           *)
Replyable(m) ==
    /\ taskState = "input-required"
    /\ m \in QuestionIds
    /\ \A n \in QuestionIds : n <= m
    /\ \A n \in FromAlice : n < m

(* Alice answers a WORKER_QUESTION event, which may have been redelivered   *)
(* or be about an older question: then nothing is applied.                  *)
Reply(m) ==
    /\ taskState # "ended"
    /\ Replyable(m)
    /\ transcript' = Say("reply", transcript[m].question, 0)
    /\ taskState' = "working"
    /\ UNCHANGED <<client, disconnects>>

(* set_task_state leaves a note in the transcript.                          *)
SetTaskState ==
    /\ taskState # "ended"
    /\ transcript' = Say("override", "none", 0)
    /\ taskState' = "ended"
    /\ UNCHANGED <<client, disconnects>>

(* tasks/cancel, or the sweeper failing a lost worker's task, leaves none.  *)
EndSilently ==
    /\ taskState # "ended"
    /\ taskState' = "ended"
    /\ UNCHANGED <<transcript, client, disconnects>>

----------------------------------------------------------------------------
MaxTranscript == 2 * MaxAsks + 1

Next ==
    \/ \E q \in Questions : \/ Ask(q)
                            \/ AskRefused(q)
                            \/ StreamEnds(q)
                            \/ StreamTimesOut(q)
                            \/ StreamBreaks(q)
    \/ \E q \in Questions, m \in 1..MaxTranscript : StreamReplies(q, m)
    \/ \E m \in 1..MaxTranscript : m \in Ids /\ Reply(m)
    \/ SubmitResult
    \/ SetTaskState
    \/ EndSilently

Spec == Init /\ [][Next]_vars

(* A worker whose call timed out calls again, and the hub serves its        *)
(* streams.  Alice need not ever reply.                                     *)
Fairness ==
    \A q \in Questions :
        /\ WF_vars(pending.question = q /\ (Ask(q) \/ AskRefused(q)))
        /\ WF_vars(StreamEnds(q))
        /\ WF_vars(\E m \in 1..MaxTranscript : StreamReplies(q, m))

FairSpec == Spec /\ Fairness

----------------------------------------------------------------------------
(* Properties *)

(* Every variable holds a value of its type.                                *)
TypeOK ==
    /\ taskState \in {"working", "input-required", "ended"}
    /\ \A m \in Ids : transcript[m].kind \in {"question", "reply", "override"}
    /\ stream \in [Questions -> 0..MaxTranscript]
    /\ streamAs \in [Questions -> 0..MaxAsks]
    /\ pending.question \in Questions \cup {"none"}
    /\ minted \in 0..MaxAsks
    /\ heard \subseteq Questions \X (1..MaxTranscript)
    /\ told \in BOOLEAN

(* However often a call times out, breaks and is repeated, each message id  *)
(* is one question in the transcript: one WORKER_QUESTION event for Alice.  *)
QuestionAskedOnce ==
    \A m, n \in QuestionIds : transcript[m].sentAs = transcript[n].sentAs => m = n

(* A parked task is exactly one whose newest question has no word from      *)
(* Alice after it, so a reply can never be refused to a waiting worker.     *)
ParkedIffUnanswered ==
    taskState # "ended" =>
        (taskState = "input-required" <=>
            \E m \in QuestionIds : \A n \in Ids : n > m => n \notin FromAlice \cup QuestionIds)

(* A reply directly follows the question it answers, so a redelivered event *)
(* adds no second reply and an old one no reply out of order.               *)
RepliesAnswerNewest ==
    \A m \in Ids : transcript[m].kind = "reply" =>
        /\ m > 1
        /\ transcript[m - 1].kind = "question"
        /\ transcript[m - 1].question = transcript[m].question

(* What the worker takes as the answer to a question is Alice's reply to    *)
(* that question ("Hold until Alice answers the question at                 *)
(* `after_message_id`", await_reply).                                       *)
ReplyAnswersOwnQuestion ==
    \A h \in heard :
        /\ transcript[h[2]].kind = "reply"
        /\ transcript[h[2]].question = h[1]

(* An answer Alice gave between two attempts is not lost: a worker that     *)
(* goes on asking the same question hears it, or that the task ended.       *)
PendingAnswerIsHeard ==
    \A q \in Questions :
        (\E m \in Asked(pending.sentAs) : pending.question = q /\ m + 1 \in FromAlice)
            ~> (pending.question # q \/ told \/ \E m \in Ids : <<q, m>> \in heard)

=============================================================================
