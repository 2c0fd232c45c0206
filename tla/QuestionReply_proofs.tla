------------------------ MODULE QuestionReply_proofs ------------------------
(***************************************************************************)
(* Theorems about QuestionReply for any question texts, any number of      *)
(* message ids and of lost streams.  All but the last hold for any number  *)
(* of ask_alice calls kept open at once.                                   *)
(***************************************************************************)
EXTENDS QuestionReply, FiniteSetTheorems, TLAPS

Message == [kind : {"question", "reply", "override"},
            question : Questions \cup {"none"},
            sentAs : 0..MaxAsks]

WellFormed ==
    /\ transcript \in Seq(Message)
    /\ pending \in [question : Questions \cup {"none"}, sentAs : 0..MaxAsks]

(* Each minted id brings one question and one reply at most, and the end of *)
(* the task one note: the transcript stays within MaxTranscript.            *)
TranscriptIsBounded ==
    /\ taskState = "input-required" => Len(transcript) <= 2 * minted - 1
    /\ taskState = "working" => Len(transcript) <= 2 * minted
    /\ taskState = "ended" => Len(transcript) <= 2 * minted + 1

(* The ids in use were minted.                                              *)
IdsWereMinted ==
    /\ pending.sentAs <= minted
    /\ \A m \in QuestionIds : transcript[m].sentAs \in 1..minted

(* While the task is open, what is pending was asked under that id: only a  *)
(* refused call leaves a pending question the transcript does not have.     *)
PendingWasAsked ==
    taskState # "ended" /\ pending.question # "none" =>
        \E m \in Asked(pending.sentAs) : transcript[m].question = pending.question

(* A stream waits on a row of its own question and message id.              *)
StreamIsOfItsQuestion ==
    \A q \in Questions : stream[q] # 0 =>
        /\ stream[q] \in QuestionIds
        /\ transcript[stream[q]].question = q
        /\ transcript[stream[q]].sentAs = streamAs[q]

(* The note of set_task_state ends its task.                                *)
NoteEndsTask == \A m \in Ids : transcript[m].kind = "override" => taskState = "ended"

IInv ==
    /\ TypeOK
    /\ WellFormed
    /\ TranscriptIsBounded
    /\ IdsWereMinted
    /\ PendingWasAsked
    /\ StreamIsOfItsQuestion
    /\ NoteEndsTask
    /\ QuestionAskedOnce
    /\ RepliesAnswerNewest
    /\ ParkedIffUnanswered

(* The newest question of the transcript.                                   *)
Newest(m) == m \in QuestionIds /\ \A n \in QuestionIds : n <= m

(* With one call open at a time, what is pending and what is waited on is   *)
(* the newest question.                                                     *)
OnlyNewest ==
    /\ \A p, q \in Questions : stream[p] # 0 /\ stream[q] # 0 => p = q
    /\ \A q \in Questions : stream[q] # 0 => Newest(stream[q])
    /\ taskState # "ended" /\ pending.question # "none" =>
         \E m \in Asked(pending.sentAs) : Newest(m)
    /\ \A h \in heard : h[2] \in Ids
    /\ ReplyAnswersOwnQuestion

----------------------------------------------------------------------------
(* The transcript *)

(* A message is added at the end and the earlier ones stand.                *)
LEMMA SayAppends ==
  ASSUME WellFormed, NEW kind \in {"question", "reply", "override"},
         NEW q \in Questions \cup {"none"}, NEW sentAs \in 0..MaxAsks,
         transcript' = Say(kind, q, sentAs)
  PROVE  /\ transcript' \in Seq(Message)
         /\ Len(transcript) \in Nat /\ Len(transcript') = Len(transcript) + 1
         /\ Ids = 1..Len(transcript) /\ Ids' = 1..Len(transcript')
         /\ \A m \in Ids : transcript'[m] = transcript[m]
         /\ transcript'[Len(transcript')] =
              [kind |-> kind, question |-> q, sentAs |-> sentAs]
<1> DEFINE msg == [kind |-> kind, question |-> q, sentAs |-> sentAs]
<1>1. msg \in Message
  BY DEF Message
<1>2. transcript' = Append(transcript, msg)
  BY DEF Say
<1> HIDE DEF msg
<1> QED
  BY <1>1, <1>2 DEF WellFormed, Ids, msg

(* Which messages are questions, and which from Alice, after one is added.  *)
LEMMA SayKinds ==
  ASSUME WellFormed, NEW kind \in {"question", "reply", "override"},
         NEW q \in Questions \cup {"none"}, NEW sentAs \in 0..MaxAsks,
         transcript' = Say(kind, q, sentAs)
  PROVE  /\ QuestionIds' = IF kind = "question"
                           THEN QuestionIds \cup {Len(transcript) + 1} ELSE QuestionIds
         /\ FromAlice' = IF kind = "question"
                         THEN FromAlice ELSE FromAlice \cup {Len(transcript) + 1}
<1>1. /\ Len(transcript) \in Nat /\ Ids = 1..Len(transcript)
      /\ Ids' = 1..(Len(transcript) + 1)
      /\ \A m \in Ids : transcript'[m] = transcript[m]
      /\ transcript'[Len(transcript) + 1] =
           [kind |-> kind, question |-> q, sentAs |-> sentAs]
  <2>1. Len(transcript') = Len(transcript) + 1
    BY SayAppends
  <2> QED
    BY <2>1, SayAppends
<1>2. Ids' = Ids \cup {Len(transcript) + 1} /\ Len(transcript) + 1 \notin Ids
  BY <1>1
<1>3. QuestionIds' = {m \in Ids' : transcript'[m].kind = "question"}
  BY DEF QuestionIds
<1>4. FromAlice' = {m \in Ids' : transcript'[m].kind \in {"reply", "override"}}
  BY DEF FromAlice
<1> QED
  BY <1>1, <1>2, <1>3, <1>4 DEF QuestionIds, FromAlice

(* Every message of a transcript is of one of the three kinds.              *)
LEMMA KindsAreKnown ==
  ASSUME NEW s \in Seq(Message)
  PROVE  \A m \in DOMAIN s : s[m].kind \in {"question", "reply", "override"}
<1>1. \A m \in DOMAIN s : s[m] \in Message
  OBVIOUS
<1> QED
  BY <1>1 DEF Message

(* Positions of the transcript are numbers, and its messages are messages.  *)
LEMMA TranscriptFacts ==
  ASSUME WellFormed
  PROVE  /\ Len(transcript) \in Nat /\ Ids = 1..Len(transcript)
         /\ \A m \in Ids : transcript[m] \in Message
         /\ QuestionIds \subseteq Ids /\ FromAlice \subseteq Ids
         /\ Ids = QuestionIds \cup FromAlice
         /\ QuestionIds \cap FromAlice = {}
<1>1. /\ Len(transcript) \in Nat /\ Ids = 1..Len(transcript)
      /\ \A m \in Ids : transcript[m] \in Message
  BY DEF WellFormed, Ids
<1>2. \A m \in Ids : transcript[m].kind \in {"question", "reply", "override"}
  BY <1>1 DEF Message
<1> QED
  BY <1>1, <1>2 DEF QuestionIds, FromAlice

(* The empty transcript and the idle worker satisfy the invariant.          *)
LEMMA InitIInv == Init => IInv /\ OnlyNewest
<1> SUFFICES ASSUME Init PROVE IInv /\ OnlyNewest
  OBVIOUS
<1> USE QuestionAssumption DEF Init
<1>1. Ids = {} /\ Len(transcript) = 0 /\ transcript \in Seq(Message)
  BY DEF Ids
<1>2. QuestionIds = {} /\ FromAlice = {} /\ \A id : Asked(id) = {}
  BY <1>1 DEF QuestionIds, FromAlice, Asked
<1>3. pending \in [question : Questions \cup {"none"}, sentAs : 0..MaxAsks]
  BY DEF NoQuestion
<1>4. TypeOK
  <2>1. 0 \in 0..MaxAsks /\ 0 \in 0..MaxTranscript
    BY DEF MaxTranscript
  <2> HIDE QuestionAssumption
  <2> QED
    BY <1>1, <2>1 DEF TypeOK, NoQuestion
<1>5. TranscriptIsBounded /\ IdsWereMinted /\ PendingWasAsked
  BY <1>1, <1>2 DEF TranscriptIsBounded, IdsWereMinted, PendingWasAsked, NoQuestion
<1>6. StreamIsOfItsQuestion /\ NoteEndsTask /\ QuestionAskedOnce /\ RepliesAnswerNewest
      /\ ParkedIffUnanswered
  BY <1>1, <1>2 DEF StreamIsOfItsQuestion, NoteEndsTask, QuestionAskedOnce,
                    RepliesAnswerNewest, ParkedIffUnanswered
<1>7. OnlyNewest
  BY <1>1, <1>2 DEF OnlyNewest, NoQuestion, ReplyAnswersOwnQuestion
<1> QED
  BY <1>1, <1>3, <1>4, <1>5, <1>6, <1>7 DEF IInv, WellFormed

----------------------------------------------------------------------------
(* The operations *)

(* The call resumes the pending question in its row.                        *)
Resumes(q) ==
    /\ pending.question = q
    /\ pending' = pending /\ minted' = minted
    /\ UNCHANGED hub
    /\ streamAs' = [streamAs EXCEPT ![q] = pending.sentAs]
    /\ \E m \in Asked(pending.sentAs) :
         /\ transcript[m].question = q
         /\ stream' = [stream EXCEPT ![q] = m]

(* The call asks a new question under a new id.                             *)
AsksAnew(q) ==
    /\ minted' = minted + 1 /\ minted' \in 1..MaxAsks
    /\ pending' = [question |-> q, sentAs |-> minted']
    /\ transcript' = Say("question", q, minted')
    /\ taskState' = "input-required"
    /\ streamAs' = [streamAs EXCEPT ![q] = minted']
    /\ stream' = [stream EXCEPT ![q] = Len(transcript) + 1]

(* ask_alice while the task is open resumes the pending question or asks a  *)
(* new one, and nothing in between.                                         *)
LEMMA AskEffect ==
  ASSUME IInv, NEW q \in Questions, Ask(q)
  PROVE  /\ stream[q] = 0 /\ taskState # "ended"
         /\ UNCHANGED <<heard, told, disconnects>>
         /\ Resumes(q) \/ AsksAnew(q)
<1>1. minted \in Nat /\ q # "none"
  BY QuestionAssumption DEF IInv, TypeOK
<1>2. CASE pending.question = q
  <2>1. PICK m \in Asked(pending.sentAs) : transcript[m].question = q
    BY <1>1, <1>2 DEF Ask, IInv, PendingWasAsked
  <2>2. \A n \in Asked(pending.sentAs) : n = m
    BY <2>1 DEF Asked, IInv, QuestionAskedOnce
  <2>3. MessageId(q) = pending.sentAs /\ Asked(pending.sentAs) # {}
    BY <1>2, <2>1 DEF MessageId
  <2>4. pending' = pending /\ minted' = minted
    BY <1>1, <1>2, <2>3 DEF Ask, Sends, IInv, WellFormed, IdsWereMinted
  <2>5. Resumes(q)
    BY <1>2, <2>1, <2>2, <2>3, <2>4 DEF Ask, Resumes
  <2> QED
    BY <2>5 DEF Ask
<1>3. CASE pending.question # q
  <2>1. MessageId(q) = minted + 1
    BY <1>3 DEF MessageId
  <2>2. Asked(minted + 1) = {}
    BY <1>1 DEF Asked, IInv, IdsWereMinted
  <2>3. minted' = minted + 1 /\ minted' \in 1..MaxAsks
    BY <1>1, <2>1, QuestionAssumption DEF Ask, Sends
  <2>4. AsksAnew(q)
    BY <2>1, <2>2, <2>3 DEF Ask, Sends, AsksAnew
  <2> QED
    BY <2>4 DEF Ask
<1> QED
  BY <1>2, <1>3

(* A call refused after the end mints an id at most.                        *)
LEMMA AskRefusedEffect ==
  ASSUME IInv, NEW q \in Questions, AskRefused(q)
  PROVE  /\ taskState = "ended"
         /\ UNCHANGED <<hub, stream, streamAs, heard, disconnects>>
         /\ told' = TRUE
         /\ minted' \in 0..MaxAsks /\ minted <= minted'
         /\ pending' \in [question : Questions \cup {"none"}, sentAs : 0..MaxAsks]
         /\ pending'.sentAs <= minted'
  BY QuestionAssumption
     DEF AskRefused, Sends, MessageId, IInv, TypeOK, WellFormed, IdsWereMinted

(* Alice's reply is to the last message of the transcript.                  *)
LEMMA ReplyEffect ==
  ASSUME IInv, NEW m \in Ids, Reply(m)
  PROVE  /\ m = Len(transcript) /\ Newest(m)
         /\ transcript[m].kind = "question"
         /\ transcript[m].question \in Questions \cup {"none"}
         /\ transcript' = Say("reply", transcript[m].question, 0)
         /\ taskState = "input-required" /\ taskState' = "working"
         /\ UNCHANGED <<client, disconnects>>
<1>1. Replyable(m) /\ m \in QuestionIds
  BY DEF Reply, Replyable
<1>2. Len(transcript) \in Ids
  BY TranscriptFacts DEF IInv
<1>3. m = Len(transcript)
  BY <1>1, <1>2, TranscriptFacts DEF Replyable, IInv
<1>4. transcript[m].question \in Questions \cup {"none"}
  BY TranscriptFacts DEF IInv, Message
<1> QED
  BY <1>1, <1>3, <1>4 DEF Reply, Replyable, Newest, QuestionIds

(* A stream that ends, whichever way, frees its question and touches no     *)
(* message.                                                                 *)
LEMMA StreamEffect ==
  ASSUME IInv, NEW q \in Questions,
         \/ \E m \in 1..MaxTranscript : StreamReplies(q, m)
         \/ StreamEnds(q) \/ StreamTimesOut(q) \/ StreamBreaks(q)
  PROVE  /\ UNCHANGED <<hub, streamAs, minted>>
         /\ stream' = [stream EXCEPT ![q] = 0]
         /\ stream[q] # 0
         /\ \/ pending' \in {pending, NoQuestion}
            \/ taskState # "ended" /\ pending' = [question |-> q, sentAs |-> streamAs[q]]
  BY DEF StreamReplies, StreamEnds, StreamTimesOut, StreamBreaks, TakesAnswer, hub

(* The end of the task takes the pending question or adds a note.           *)
LEMMA EndEffect ==
  ASSUME SubmitResult \/ SetTaskState \/ EndSilently
  PROVE  /\ taskState # "ended" /\ taskState' = "ended"
         /\ UNCHANGED <<stream, streamAs, minted, heard, told, disconnects>>
         /\ pending' \in {pending, NoQuestion}
         /\ transcript' = transcript \/ transcript' = Say("override", "none", 0)
  BY DEF SubmitResult, SetTaskState, EndSilently, client

(* The kinds of step, as the cases of every argument below.                 *)
LEMMA StepCases ==
  ASSUME [Next]_vars
  PROVE  \/ \E q \in Questions : Ask(q)
         \/ \E q \in Questions : AskRefused(q)
         \/ \E q \in Questions :
              \/ \E m \in 1..MaxTranscript : StreamReplies(q, m)
              \/ StreamEnds(q) \/ StreamTimesOut(q) \/ StreamBreaks(q)
         \/ \E m \in Ids : Reply(m)
         \/ SubmitResult \/ SetTaskState \/ EndSilently
         \/ UNCHANGED vars
  BY DEF Next

----------------------------------------------------------------------------
(* Every step keeps the invariant *)

(* Types, well-formed messages and the length of the transcript.            *)
LEMMA TypeStep ==
  IInv /\ [Next]_vars => TypeOK' /\ WellFormed' /\ TranscriptIsBounded'
<1> SUFFICES ASSUME IInv, [Next]_vars
             PROVE  TypeOK' /\ WellFormed' /\ TranscriptIsBounded'
  OBVIOUS
<1>0. /\ minted \in Nat /\ Len(transcript) \in Nat
      /\ WellFormed' => \A m \in Ids' : transcript'[m].kind \in
                                          {"question", "reply", "override"}
      /\ Len(transcript) + 1 <= 2 * (minted + 1) - 1 \/ taskState = "ended"
  <2>1. WellFormed' => \A m \in Ids' : transcript'[m].kind \in
                                          {"question", "reply", "override"}
    BY KindsAreKnown DEF WellFormed, Ids
  <2> QED
    BY <2>1, QuestionAssumption, TranscriptFacts DEF IInv, TypeOK, TranscriptIsBounded
<1>1. ASSUME NEW q \in Questions, Ask(q)
      PROVE  TypeOK' /\ WellFormed' /\ TranscriptIsBounded'
  <2>1. stream[q] = 0 /\ taskState # "ended" /\ UNCHANGED <<heard, told, disconnects>>
    BY <1>1, AskEffect
  <2>2. CASE Resumes(q)
    <3>1. PICK m \in Asked(pending.sentAs) : stream' = [stream EXCEPT ![q] = m]
      BY <2>2 DEF Resumes
    <3>2. m \in 0..MaxTranscript
      BY <1>0, <3>1, <2>1, TranscriptFacts, QuestionAssumption
         DEF Asked, IInv, TypeOK, TranscriptIsBounded, MaxTranscript
    <3>3. WellFormed' /\ TranscriptIsBounded'
      BY <2>2 DEF Resumes, hub, IInv, WellFormed, TranscriptIsBounded
    <3>4. streamAs' \in [Questions -> 0..MaxAsks] /\ stream' \in [Questions -> 0..MaxTranscript]
      BY <2>2, <3>1, <3>2 DEF Resumes, IInv, TypeOK, WellFormed
    <3> QED
      BY <1>0, <2>1, <2>2, <3>3, <3>4 DEF Resumes, hub, IInv, TypeOK
  <2>3. CASE AsksAnew(q)
    <3>1. minted' \in 0..MaxAsks /\ pending' = [question |-> q, sentAs |-> minted']
      BY <2>3, QuestionAssumption DEF AsksAnew
    <3>2. transcript' \in Seq(Message) /\ Len(transcript') = Len(transcript) + 1
      BY <2>3, <3>1, SayAppends DEF AsksAnew, IInv
    <3>3. WellFormed'
      BY <3>1, <3>2 DEF WellFormed
    <3>4. TranscriptIsBounded'
      BY <1>0, <2>1, <2>3, <3>2 DEF AsksAnew, TranscriptIsBounded
    <3>5. Len(transcript) + 1 \in 0..MaxTranscript
      BY <1>0, <2>1, <2>3, <3>1, QuestionAssumption DEF AsksAnew, MaxTranscript
    <3>6. streamAs' \in [Questions -> 0..MaxAsks] /\ stream' \in [Questions -> 0..MaxTranscript]
      BY <2>3, <3>1, <3>5 DEF AsksAnew, IInv, TypeOK
    <3> QED
      BY <1>0, <2>1, <2>3, <3>1, <3>3, <3>4, <3>6 DEF AsksAnew, IInv, TypeOK
  <2> QED
    BY <1>1, <2>2, <2>3, AskEffect
<1>2. ASSUME NEW q \in Questions, AskRefused(q)
      PROVE  TypeOK' /\ WellFormed' /\ TranscriptIsBounded'
  <2>1. WellFormed'
    BY <1>2, AskRefusedEffect DEF IInv, WellFormed, hub
  <2>2. taskState' = "ended" /\ transcript' = transcript /\ minted' \in Nat /\ minted <= minted'
    <3>1. taskState = "ended" /\ UNCHANGED hub
      BY <1>2, AskRefusedEffect
    <3>2. minted' \in 0..MaxAsks /\ minted <= minted'
      BY <1>2, AskRefusedEffect
    <3> QED
      BY <3>1, <3>2 DEF hub
  <2>3. TranscriptIsBounded'
    BY <1>0, <1>2, <2>2, AskRefusedEffect DEF IInv, TranscriptIsBounded
  <2> QED
    BY <1>0, <1>2, <2>1, <2>3, AskRefusedEffect DEF IInv, TypeOK, WellFormed, hub
<1>3. ASSUME NEW q \in Questions,
             \/ \E m \in 1..MaxTranscript : StreamReplies(q, m)
             \/ StreamEnds(q) \/ StreamTimesOut(q) \/ StreamBreaks(q)
      PROVE  TypeOK' /\ WellFormed' /\ TranscriptIsBounded'
  <2>1. /\ UNCHANGED <<hub, streamAs, minted>>
        /\ stream' = [stream EXCEPT ![q] = 0]
        /\ \/ pending' \in {pending, NoQuestion}
           \/ pending' = [question |-> q, sentAs |-> streamAs[q]]
    BY <1>3, StreamEffect
  <2>2. 0 \in 0..MaxAsks /\ 0 \in 0..MaxTranscript
    BY QuestionAssumption DEF MaxTranscript
  <2>3. WellFormed'
    BY <2>1, <2>2 DEF hub, IInv, TypeOK, WellFormed, NoQuestion
  <2>4. TranscriptIsBounded'
    BY <2>1 DEF hub, IInv, TranscriptIsBounded
  <2>5. told' \in BOOLEAN /\ disconnects' \in {disconnects, disconnects + 1}
    BY <1>3 DEF StreamReplies, StreamEnds, StreamTimesOut, StreamBreaks, TakesAnswer,
                IInv, TypeOK
  <2>6. heard' \subseteq Questions \X (1..MaxTranscript)
    <3>1. CASE heard' = heard
      BY <3>1 DEF IInv, TypeOK
    <3>2. CASE \E m \in 1..MaxTranscript : StreamReplies(q, m)
      BY <3>2 DEF StreamReplies, TakesAnswer, IInv, TypeOK
    <3> QED
      BY <1>3, <3>1, <3>2 DEF StreamEnds, StreamTimesOut, StreamBreaks
  <2>7. stream' \in [Questions -> 0..MaxTranscript]
    BY <2>1, <2>2 DEF IInv, TypeOK
  <2> QED
    BY <1>0, <2>1, <2>3, <2>4, <2>5, <2>6, <2>7 DEF hub, IInv, TypeOK, WellFormed
<1>4. ASSUME NEW m \in Ids, Reply(m)
      PROVE  TypeOK' /\ WellFormed' /\ TranscriptIsBounded'
  <2>1. 0 \in 0..MaxAsks
    BY QuestionAssumption
  <2>2. transcript' \in Seq(Message) /\ Len(transcript') = Len(transcript) + 1
    BY <1>4, <2>1, ReplyEffect, SayAppends DEF IInv
  <2>3. WellFormed' /\ TranscriptIsBounded'
    BY <1>0, <1>4, <2>2, ReplyEffect DEF IInv, WellFormed, TranscriptIsBounded, client
  <2> QED
    BY <1>0, <1>4, <2>3, ReplyEffect DEF IInv, TypeOK, client
<1>5. CASE SubmitResult \/ SetTaskState \/ EndSilently
  <2>1. 0 \in 0..MaxAsks
    BY QuestionAssumption
  <2>2. /\ transcript' \in Seq(Message)
        /\ Len(transcript') = Len(transcript) \/ Len(transcript') = Len(transcript) + 1
    <3>1. CASE transcript' = transcript
      BY <3>1 DEF IInv, WellFormed
    <3>2. CASE transcript' = Say("override", "none", 0)
      <4>1. WellFormed
        BY DEF IInv
      <4> QED
        BY <2>1, <3>2, <4>1, SayAppends
    <3> QED
      BY <1>5, <3>1, <3>2, EndEffect
  <2>3. WellFormed'
    BY <1>5, <2>1, <2>2, EndEffect DEF IInv, WellFormed, NoQuestion
  <2>4. TranscriptIsBounded'
    BY <1>0, <1>5, <2>2, EndEffect DEF IInv, TypeOK, TranscriptIsBounded
  <2> QED
    BY <1>0, <1>5, <2>3, <2>4, EndEffect DEF IInv, TypeOK, WellFormed
<1>6. CASE UNCHANGED vars
  BY <1>6 DEF vars, hub, client, IInv, TypeOK, WellFormed, TranscriptIsBounded, Ids
<1> QED
  BY <1>1, <1>2, <1>3, <1>4, <1>5, <1>6, StepCases

(* What an addition to the transcript does, in one fact.                    *)
LEMMA SayEffect ==
  ASSUME IInv, NEW kind \in {"question", "reply", "override"},
         NEW q \in Questions \cup {"none"}, NEW sentAs \in 0..MaxAsks,
         transcript' = Say(kind, q, sentAs)
  PROVE  /\ Len(transcript) \in Nat /\ Ids = 1..Len(transcript)
         /\ Ids' = Ids \cup {Len(transcript) + 1} /\ Len(transcript) + 1 \notin Ids
         /\ \A m \in Ids : transcript'[m] = transcript[m] /\ m < Len(transcript) + 1
         /\ transcript'[Len(transcript) + 1] =
              [kind |-> kind, question |-> q, sentAs |-> sentAs]
         /\ QuestionIds' = IF kind = "question"
                           THEN QuestionIds \cup {Len(transcript) + 1} ELSE QuestionIds
         /\ FromAlice' = IF kind = "question"
                         THEN FromAlice ELSE FromAlice \cup {Len(transcript) + 1}
<1>1. WellFormed
  BY DEF IInv
<1>2. /\ Len(transcript) \in Nat /\ Ids = 1..Len(transcript)
      /\ Ids' = 1..Len(transcript') /\ Len(transcript') = Len(transcript) + 1
      /\ \A m \in Ids : transcript'[m] = transcript[m]
  BY <1>1, SayAppends
<1>3. transcript'[Len(transcript) + 1] =
        [kind |-> kind, question |-> q, sentAs |-> sentAs]
  BY <1>1, <1>2, SayAppends
<1>4. /\ QuestionIds' = IF kind = "question"
                        THEN QuestionIds \cup {Len(transcript) + 1} ELSE QuestionIds
      /\ FromAlice' = IF kind = "question"
                      THEN FromAlice ELSE FromAlice \cup {Len(transcript) + 1}
  BY <1>1, SayKinds
<1>5. /\ Ids' = Ids \cup {Len(transcript) + 1} /\ Len(transcript) + 1 \notin Ids
      /\ \A m \in Ids : m < Len(transcript) + 1
  BY <1>2
<1> QED
  BY <1>2, <1>3, <1>4, <1>5

TranscriptInv ==
    /\ NoteEndsTask
    /\ QuestionAskedOnce
    /\ RepliesAnswerNewest
    /\ ParkedIffUnanswered

(* The kinds of the messages there are.                                     *)
LEMMA KindFacts ==
  ASSUME IInv
  PROVE  /\ Len(transcript) \in Nat /\ Ids = 1..Len(transcript)
         /\ Ids = QuestionIds \cup FromAlice /\ QuestionIds \cap FromAlice = {}
         /\ \A m \in Ids : m \in QuestionIds <=> transcript[m].kind = "question"
         /\ \A m \in Ids : m \in FromAlice <=> transcript[m].kind \in {"reply", "override"}
  BY TranscriptFacts DEF IInv, QuestionIds, FromAlice

(* A transcript that no step adds to keeps what was true of it.             *)
LEMMA UnchangedTranscript ==
  ASSUME IInv, UNCHANGED transcript, taskState' \in {taskState, "ended"}
  PROVE  TranscriptInv' /\ UNCHANGED <<Ids, QuestionIds, FromAlice>>
<1>1. UNCHANGED <<Ids, QuestionIds, FromAlice>>
  BY DEF Ids, QuestionIds, FromAlice
<1> QED
  BY <1>1 DEF IInv, TranscriptInv, NoteEndsTask, QuestionAskedOnce, RepliesAnswerNewest,
              ParkedIffUnanswered

(* A new question comes under a new id and parks the task.                  *)
LEMMA AsksAnewKeepsTranscript ==
  ASSUME IInv, NEW q \in Questions, taskState # "ended", AsksAnew(q)
  PROVE  TranscriptInv'
<1> DEFINE new == Len(transcript) + 1
<1>1. /\ Len(transcript) \in Nat /\ Ids = 1..Len(transcript)
      /\ Ids' = Ids \cup {new} /\ new \notin Ids
      /\ \A m \in Ids : transcript'[m] = transcript[m] /\ m < new
      /\ transcript'[new] = [kind |-> "question", question |-> q, sentAs |-> minted + 1]
      /\ QuestionIds' = QuestionIds \cup {new} /\ FromAlice' = FromAlice
      /\ taskState' = "input-required"
  <2>1. /\ minted' \in 0..MaxAsks /\ minted' = minted + 1
        /\ transcript' = Say("question", q, minted')
    BY QuestionAssumption DEF AsksAnew
  <2> QED
    BY <2>1, SayEffect DEF AsksAnew
<1> HIDE DEF new
<1>2. NoteEndsTask'
  BY <1>1 DEF IInv, NoteEndsTask
<1>3. QuestionAskedOnce'
  <2>1. \A m \in QuestionIds : transcript[m].sentAs # minted + 1
    BY QuestionAssumption DEF IInv, TypeOK, IdsWereMinted
  <2>2. QuestionIds \subseteq Ids
    BY KindFacts
  <2> QED
    BY <1>1, <2>1, <2>2 DEF IInv, QuestionAskedOnce
<1>4. RepliesAnswerNewest'
  <2>1. \A m \in Ids : m > 1 => m - 1 \in Ids
    BY <1>1
  <2> QED
    BY <1>1, <2>1 DEF IInv, RepliesAnswerNewest
<1>5. ParkedIffUnanswered'
  <2>1. \A n \in Ids' : ~(n > new)
    BY <1>1 DEF new
  <2> QED
    BY <1>1, <2>1 DEF ParkedIffUnanswered
<1> QED
  BY <1>2, <1>3, <1>4, <1>5 DEF TranscriptInv

(* A reply follows the question it answers and frees the task.              *)
LEMMA ReplyKeepsTranscript ==
  ASSUME IInv, NEW m \in Ids, Reply(m)
  PROVE  TranscriptInv'
<1> DEFINE new == Len(transcript) + 1
<1>1. /\ m = Len(transcript) /\ transcript[m].kind = "question"
      /\ taskState = "input-required" /\ taskState' = "working"
      /\ Len(transcript) \in Nat /\ Ids = 1..Len(transcript)
      /\ Ids' = Ids \cup {new} /\ new \notin Ids
      /\ \A n \in Ids : transcript'[n] = transcript[n] /\ n < new
      /\ transcript'[new] =
           [kind |-> "reply", question |-> transcript[m].question, sentAs |-> 0]
      /\ QuestionIds' = QuestionIds /\ FromAlice' = FromAlice \cup {new}
  <2>1. 0 \in 0..MaxAsks
    BY QuestionAssumption
  <2> QED
    BY <2>1, ReplyEffect, SayEffect
<1>2. new > 1 /\ new - 1 = m
  BY <1>1
<1> HIDE DEF new
<1>3. NoteEndsTask' /\ QuestionAskedOnce'
  BY <1>1, KindFacts DEF IInv, NoteEndsTask, QuestionAskedOnce
<1>4. RepliesAnswerNewest'
  <2>1. \A n \in Ids : n > 1 => n - 1 \in Ids
    BY <1>1
  <2> QED
    BY <1>1, <1>2, <2>1 DEF IInv, RepliesAnswerNewest
<1>5. ParkedIffUnanswered'
  <2>1. \A n \in QuestionIds' : new > n /\ new \in Ids' /\ new \in FromAlice'
    BY <1>1, KindFacts
  <2> QED
    BY <1>1, <2>1 DEF ParkedIffUnanswered
<1> QED
  BY <1>3, <1>4, <1>5 DEF TranscriptInv

(* The note of set_task_state is the last message of an ended task.         *)
LEMMA EndKeepsTranscript ==
  ASSUME IInv, SubmitResult \/ SetTaskState \/ EndSilently
  PROVE  TranscriptInv'
<1>1. CASE transcript' = transcript
  BY <1>1, EndEffect, UnchangedTranscript
<1>2. CASE transcript' = Say("override", "none", 0)
  <2> DEFINE new == Len(transcript) + 1
  <2>1. 0 \in 0..MaxAsks
    BY QuestionAssumption
  <2>2. /\ Len(transcript) \in Nat /\ Ids = 1..Len(transcript)
        /\ Ids' = Ids \cup {new} /\ new \notin Ids
        /\ \A n \in Ids : transcript'[n] = transcript[n] /\ n < new
        /\ transcript'[new] = [kind |-> "override", question |-> "none", sentAs |-> 0]
        /\ QuestionIds' = QuestionIds
    BY <1>2, <2>1, SayEffect
  <2>3. \A n \in Ids : n > 1 => n - 1 \in Ids
    BY <2>2
  <2> HIDE DEF new
  <2>4. taskState' = "ended"
    BY EndEffect
  <2> QED
    BY <2>2, <2>3, <2>4, KindFacts
       DEF IInv, TranscriptInv, NoteEndsTask, QuestionAskedOnce, RepliesAnswerNewest,
           ParkedIffUnanswered
<1> QED
  BY <1>1, <1>2, EndEffect

(* Every step keeps the transcript one of questions each followed by its    *)
(* reply at most.                                                           *)
LEMMA TranscriptStep == IInv /\ [Next]_vars => TranscriptInv'
<1> SUFFICES ASSUME IInv, [Next]_vars PROVE TranscriptInv'
  OBVIOUS
<1>1. ASSUME NEW q \in Questions, Ask(q) PROVE TranscriptInv'
  BY <1>1, AskEffect, AsksAnewKeepsTranscript, UnchangedTranscript DEF Resumes, hub
<1>2. ASSUME NEW q \in Questions, AskRefused(q) PROVE TranscriptInv'
  BY <1>2, AskRefusedEffect, UnchangedTranscript DEF hub
<1>3. ASSUME NEW q \in Questions,
             \/ \E m \in 1..MaxTranscript : StreamReplies(q, m)
             \/ StreamEnds(q) \/ StreamTimesOut(q) \/ StreamBreaks(q)
      PROVE  TranscriptInv'
  <2>1. UNCHANGED hub
    BY <1>3, StreamEffect
  <2> QED
    BY <2>1, UnchangedTranscript DEF hub
<1>4. CASE UNCHANGED vars
  BY <1>4, UnchangedTranscript DEF vars, hub
<1> QED
  BY <1>1, <1>2, <1>3, <1>4, StepCases, ReplyKeepsTranscript, EndKeepsTranscript

ClientInv == IdsWereMinted /\ PendingWasAsked /\ StreamIsOfItsQuestion

(* What stands in the transcript keeps its place when a message is added.   *)
LEMMA TranscriptGrows ==
  ASSUME IInv, [Next]_vars
  PROVE  /\ Ids \subseteq Ids' /\ QuestionIds \subseteq QuestionIds'
         /\ \A m \in Ids : transcript'[m] = transcript[m]
         /\ (\E q \in Questions : Ask(q)) \/ QuestionIds' = QuestionIds
         /\ taskState' # "ended" => taskState # "ended"
<1>1. 0 \in 0..MaxAsks
  BY QuestionAssumption
<1>2. ASSUME NEW q \in Questions, AsksAnew(q)
      PROVE  /\ Ids \subseteq Ids' /\ QuestionIds \subseteq QuestionIds'
             /\ \A m \in Ids : transcript'[m] = transcript[m]
  <2>1. minted' \in 0..MaxAsks /\ transcript' = Say("question", q, minted')
    BY <1>2, QuestionAssumption DEF AsksAnew
  <2> QED
    BY <2>1, SayEffect
<1>3. ASSUME UNCHANGED transcript
      PROVE  /\ Ids' = Ids /\ QuestionIds' = QuestionIds
             /\ \A m \in Ids : transcript'[m] = transcript[m]
  BY <1>3 DEF Ids, QuestionIds
<1>4. ASSUME NEW q \in Questions, Ask(q)
      PROVE  /\ Ids \subseteq Ids' /\ QuestionIds \subseteq QuestionIds'
             /\ \A m \in Ids : transcript'[m] = transcript[m]
             /\ taskState # "ended"
  BY <1>2, <1>3, <1>4, AskEffect DEF Resumes, hub
<1>5. ASSUME NEW m \in Ids, Reply(m)
      PROVE  /\ Ids \subseteq Ids' /\ QuestionIds' = QuestionIds
             /\ \A n \in Ids : transcript'[n] = transcript[n]
             /\ taskState # "ended"
  BY <1>1, <1>5, ReplyEffect, SayEffect
<1>6. ASSUME SubmitResult \/ SetTaskState \/ EndSilently
      PROVE  /\ Ids \subseteq Ids' /\ QuestionIds' = QuestionIds
             /\ \A n \in Ids : transcript'[n] = transcript[n]
             /\ taskState # "ended"
  BY <1>1, <1>3, <1>6, EndEffect, SayEffect
<1>7. ASSUME \/ \E q \in Questions : AskRefused(q)
             \/ \E q \in Questions :
                  \/ \E m \in 1..MaxTranscript : StreamReplies(q, m)
                  \/ StreamEnds(q) \/ StreamTimesOut(q) \/ StreamBreaks(q)
             \/ UNCHANGED vars
      PROVE  UNCHANGED transcript /\ UNCHANGED taskState
  BY <1>7, AskRefusedEffect, StreamEffect DEF hub, vars
<1> QED
  BY <1>3, <1>4, <1>5, <1>6, <1>7, StepCases

(* Every step keeps the client's ids those of its questions.                *)
LEMMA ClientStep == IInv /\ [Next]_vars => ClientInv'
<1> SUFFICES ASSUME IInv, [Next]_vars PROVE ClientInv'
  OBVIOUS
<1>0. /\ minted \in Nat /\ QuestionIds \subseteq Ids
      /\ Ids \subseteq Ids' /\ QuestionIds \subseteq QuestionIds'
      /\ \A m \in Ids : transcript'[m] = transcript[m]
      /\ (\E q \in Questions : Ask(q)) \/ QuestionIds' = QuestionIds
  BY TranscriptGrows, KindFacts DEF IInv, TypeOK
<1>1. ASSUME NEW q \in Questions, Ask(q) PROVE ClientInv'
  <2>1. CASE Resumes(q)
    <3>1. UNCHANGED <<taskState, transcript, pending, minted, Ids, QuestionIds>>
          /\ \A id : UNCHANGED Asked(id)
      BY <2>1 DEF Resumes, hub, Ids, QuestionIds, Asked
    <3>2. StreamIsOfItsQuestion'
      BY <2>1, <3>1 DEF Resumes, Asked, IInv, TypeOK, StreamIsOfItsQuestion
    <3> QED
      BY <3>1, <3>2 DEF IInv, ClientInv, IdsWereMinted, PendingWasAsked
  <2>2. CASE AsksAnew(q)
    <3> DEFINE new == Len(transcript) + 1
    <3>1. /\ minted' = minted + 1
          /\ pending' = [question |-> q, sentAs |-> minted + 1]
          /\ streamAs' = [streamAs EXCEPT ![q] = minted + 1]
          /\ stream' = [stream EXCEPT ![q] = new]
      BY <2>2 DEF AsksAnew
    <3>2. /\ QuestionIds' = QuestionIds \cup {new}
          /\ transcript'[new] = [kind |-> "question", question |-> q, sentAs |-> minted + 1]
      <4>1. minted' \in 0..MaxAsks /\ transcript' = Say("question", q, minted')
        BY <2>2, QuestionAssumption DEF AsksAnew
      <4> QED
        BY <3>1, <4>1, SayEffect
    <3> HIDE DEF new
    <3>3. IdsWereMinted'
      BY <1>0, <3>1, <3>2 DEF IInv, IdsWereMinted
    <3>4. PendingWasAsked'
      BY <3>1, <3>2 DEF PendingWasAsked, Asked
    <3>5. StreamIsOfItsQuestion'
      BY <1>0, <3>1, <3>2 DEF IInv, TypeOK, StreamIsOfItsQuestion
    <3> QED
      BY <3>3, <3>4, <3>5 DEF ClientInv
  <2> QED
    BY <1>1, <2>1, <2>2, AskEffect
<1>2. ASSUME NEW q \in Questions, AskRefused(q) PROVE ClientInv'
  <2>1. /\ taskState' = "ended" /\ UNCHANGED <<transcript, stream, streamAs>>
        /\ minted' \in Nat /\ minted <= minted' /\ pending'.sentAs <= minted'
    <3>1. taskState = "ended" /\ UNCHANGED <<hub, stream, streamAs>>
      BY <1>2, AskRefusedEffect
    <3>2. minted' \in 0..MaxAsks /\ minted <= minted' /\ pending'.sentAs <= minted'
      BY <1>2, AskRefusedEffect
    <3> QED
      BY <3>1, <3>2 DEF hub
  <2>2. UNCHANGED QuestionIds
    BY <2>1 DEF QuestionIds, Ids
  <2>3. \A m \in QuestionIds : transcript[m].sentAs \in 1..minted'
    BY <1>0, <2>1 DEF IInv, IdsWereMinted
  <2> QED
    BY <2>1, <2>2, <2>3 DEF IInv, ClientInv, IdsWereMinted, PendingWasAsked,
                            StreamIsOfItsQuestion
<1>3. ASSUME NEW q \in Questions,
             \/ \E m \in 1..MaxTranscript : StreamReplies(q, m)
             \/ StreamEnds(q) \/ StreamTimesOut(q) \/ StreamBreaks(q)
      PROVE  ClientInv'
  <2>1. /\ UNCHANGED <<taskState, transcript, streamAs, minted>>
        /\ stream' = [stream EXCEPT ![q] = 0]
        /\ stream[q] # 0
        /\ \/ pending' \in {pending, NoQuestion}
           \/ taskState # "ended" /\ pending' = [question |-> q, sentAs |-> streamAs[q]]
    BY <1>3, StreamEffect DEF hub
  <2>2. UNCHANGED <<Ids, QuestionIds>> /\ \A id : UNCHANGED Asked(id)
    BY <2>1 DEF Ids, QuestionIds, Asked
  <2>3. /\ stream[q] \in Asked(streamAs[q]) /\ transcript[stream[q]].question = q
        /\ streamAs[q] \in 1..minted
    BY <2>1 DEF IInv, IdsWereMinted, StreamIsOfItsQuestion, Asked
  <2>4. IdsWereMinted'
    BY <1>0, <2>1, <2>2, <2>3 DEF IInv, IdsWereMinted, NoQuestion
  <2>5. PendingWasAsked'
    BY <2>1, <2>2, <2>3 DEF IInv, PendingWasAsked, NoQuestion
  <2>6. StreamIsOfItsQuestion'
    BY <2>1, <2>2 DEF IInv, TypeOK, StreamIsOfItsQuestion
  <2> QED
    BY <2>4, <2>5, <2>6 DEF ClientInv
<1>4. ASSUME QuestionIds' = QuestionIds, UNCHANGED <<stream, streamAs, minted>>,
             pending' \in {pending, NoQuestion}, taskState' # "ended" => taskState # "ended"
      PROVE  ClientInv'
  <2>1. \A m \in QuestionIds : transcript'[m] = transcript[m]
    BY <1>0
  <2>2. \A id : Asked(id)' = Asked(id)
    BY <1>4, <2>1 DEF Asked
  <2>3. IdsWereMinted'
    BY <1>0, <1>4, <2>1 DEF IInv, IdsWereMinted, NoQuestion
  <2>4. PendingWasAsked'
    BY <1>4, <2>1, <2>2 DEF IInv, PendingWasAsked, NoQuestion, Asked
  <2>5. StreamIsOfItsQuestion'
    BY <1>4, <2>1 DEF IInv, StreamIsOfItsQuestion
  <2> QED
    BY <2>3, <2>4, <2>5 DEF ClientInv
<1>5. ASSUME NEW m \in Ids, Reply(m) PROVE ClientInv'
  <2>1. QuestionIds' = QuestionIds
    <3>1. 0 \in 0..MaxAsks
      BY QuestionAssumption
    <3> QED
      BY <1>5, <3>1, ReplyEffect, SayEffect
  <2> QED
    BY <1>4, <1>5, <2>1, ReplyEffect DEF client
<1>6. CASE SubmitResult \/ SetTaskState \/ EndSilently
  <2>1. QuestionIds' = QuestionIds
    <3>1. 0 \in 0..MaxAsks
      BY QuestionAssumption
    <3>2. transcript' = transcript => QuestionIds' = QuestionIds
      BY DEF QuestionIds, Ids
    <3> QED
      BY <1>6, <3>1, <3>2, EndEffect, SayEffect
  <2> QED
    BY <1>4, <1>6, <2>1, EndEffect
<1>7. CASE UNCHANGED vars
  <2>1. UNCHANGED QuestionIds
    BY <1>7 DEF vars, hub, QuestionIds, Ids
  <2> QED
    BY <1>4, <1>7, <2>1 DEF vars, hub, client
<1> QED
  BY <1>1, <1>2, <1>3, <1>5, <1>6, <1>7, StepCases

(* IInv is an inductive invariant of the questions of a task.               *)
LEMMA InductiveInvariant == Spec => []IInv
<1>1. Init => IInv
  BY InitIInv
<1>2. IInv /\ [Next]_vars => IInv'
  BY TypeStep, TranscriptStep, ClientStep DEF IInv, TranscriptInv, ClientInv
<1> QED
  BY <1>1, <1>2, PTL DEF Spec

----------------------------------------------------------------------------
(* What the questions guarantee, however many calls are open at once        *)

(* The transcript, the streams and the client hold values of their types,   *)
(* and the transcript stays within the bound its positions are drawn from.  *)
THEOREM TypeCorrect == Spec => [](TypeOK /\ Len(transcript) <= MaxTranscript)
<1>1. IInv => TypeOK /\ Len(transcript) <= MaxTranscript
  BY QuestionAssumption, KindFacts DEF IInv, TypeOK, TranscriptIsBounded, MaxTranscript
<1> QED
  BY <1>1, InductiveInvariant, PTL

(* open_question writes one row for each message id, whatever is retried.   *)
THEOREM AskedOnce == Spec => []QuestionAskedOnce
<1>1. IInv => QuestionAskedOnce
  BY DEF IInv
<1> QED
  BY <1>1, InductiveInvariant, PTL

(* reply adds a message only directly after the question it answers.        *)
THEOREM RepliesInOrder == Spec => []RepliesAnswerNewest
<1>1. IInv => RepliesAnswerNewest
  BY DEF IInv
<1> QED
  BY <1>1, InductiveInvariant, PTL

(* The task is parked exactly while its last message is a question, so the  *)
(* guards of reply admit the reply to a waiting worker.                     *)
THEOREM ParkedWhileUnanswered == Spec => []ParkedIffUnanswered
<1>1. IInv => ParkedIffUnanswered
  BY DEF IInv
<1> QED
  BY <1>1, InductiveInvariant, PTL

----------------------------------------------------------------------------
(* One call open at a time                                                  *)

(* A question is asked only when no stream is open.                         *)
LEMMA AskedAlone ==
  ASSUME MaxHeld = 1, OnlyNewest, NEW q \in Questions, Ask(q)
  PROVE  \A p \in Questions : stream[p] = 0
<1> DEFINE open == {p \in Questions : stream[p] # 0}
<1> SUFFICES ASSUME NEW p \in Questions, stream[p] # 0 PROVE FALSE
  OBVIOUS
<1>1. open = {p}
  BY DEF OnlyNewest
<1>2. Cardinality(open) = 1
  BY <1>1, FS_Singleton
<1>3. Cardinality(open) < 1
  BY DEF Ask
<1> QED
  BY <1>2, <1>3

(* The first word from Alice after the newest question is her reply to it.  *)
LEMMA FirstWordIsTheReply ==
  ASSUME IInv, taskState # "ended", NEW n, Newest(n), NEW m, IsPendingReply(m, n)
  PROVE  m \in Ids /\ transcript[m].kind = "reply"
         /\ transcript[m].question = transcript[n].question
<1>1. m \in Ids /\ m > n /\ transcript[m].kind = "reply"
  BY DEF IsPendingReply, FromAlice, IInv, NoteEndsTask
<1>2. /\ m > 1 /\ transcript[m - 1].kind = "question"
      /\ transcript[m - 1].question = transcript[m].question
  BY <1>1 DEF IInv, RepliesAnswerNewest
<1>3. m - 1 \in QuestionIds /\ n \in Ids
  BY <1>1, <1>2, KindFacts DEF Newest
<1>4. m - 1 = n
  BY <1>1, <1>3, KindFacts DEF Newest
<1> QED
  BY <1>1, <1>2, <1>4

(* With one call open at a time, whatever a stream waits on or the client   *)
(* would resume stays the newest question.                                  *)
LEMMA NewestStep ==
  ASSUME MaxHeld = 1, IInv, OnlyNewest, [Next]_vars
  PROVE  OnlyNewest'
<1>0. /\ Ids \subseteq Ids' /\ QuestionIds \subseteq QuestionIds' /\ QuestionIds \subseteq Ids
      /\ \A m \in Ids : transcript'[m] = transcript[m]
  BY TranscriptGrows, KindFacts
<1>1. ASSUME NEW q \in Questions, Ask(q) PROVE OnlyNewest'
  <2>1. (\A p \in Questions : stream[p] = 0) /\ UNCHANGED heard
    BY <1>1, AskedAlone, AskEffect
  <2>2. ReplyAnswersOwnQuestion' /\ \A h \in heard' : h[2] \in Ids'
    BY <1>0, <2>1 DEF OnlyNewest, ReplyAnswersOwnQuestion
  <2>3. CASE Resumes(q)
    <3>1. UNCHANGED <<taskState, transcript, pending, QuestionIds>>
          /\ (\A id : UNCHANGED Asked(id)) /\ \A n : Newest(n)' <=> Newest(n)
      BY <2>3 DEF Resumes, hub, Ids, QuestionIds, Asked, Newest
    <3>2. PICK m \in Asked(pending.sentAs) : stream' = [stream EXCEPT ![q] = m]
      BY <2>3 DEF Resumes
    <3>3. q # "none" /\ taskState # "ended" /\ pending.question = q
      BY <1>1, <2>3, AskEffect, QuestionAssumption DEF Resumes
    <3>4. Newest(m)
      BY <3>2, <3>3 DEF OnlyNewest, Asked, IInv, QuestionAskedOnce
    <3> QED
      BY <2>1, <2>2, <3>1, <3>2, <3>4 DEF OnlyNewest, IInv, TypeOK
  <2>4. CASE AsksAnew(q)
    <3>0. PICK new : new = Len(transcript) + 1
      OBVIOUS
    <3>1. /\ QuestionIds' = QuestionIds \cup {new} /\ Ids' = Ids \cup {new}
          /\ \A n \in Ids \cup {new} : n <= new
          /\ transcript'[new] = [kind |-> "question", question |-> q, sentAs |-> minted']
      <4>1. minted' \in 0..MaxAsks /\ transcript' = Say("question", q, minted')
        BY <2>4, QuestionAssumption DEF AsksAnew
      <4> QED
        BY <3>0, <4>1, SayEffect, KindFacts
    <3>2. stream' = [stream EXCEPT ![q] = new]
          /\ pending' = [question |-> q, sentAs |-> minted']
      BY <2>4, <3>0 DEF AsksAnew
    <3>3. Newest(new)'
      BY <1>0, <3>1 DEF Newest
    <3>4. new \in Asked(pending.sentAs)'
      BY <3>1, <3>2 DEF Asked
    <3>5. \A p \in Questions : stream'[p] # 0 => p = q /\ stream'[p] = new
      BY <2>1, <3>2 DEF IInv, TypeOK
    <3> QED
      BY <2>2, <3>3, <3>4, <3>5 DEF OnlyNewest
  <2> QED
    BY <1>1, <2>3, <2>4, AskEffect
<1>2. ASSUME NEW q \in Questions, AskRefused(q) PROVE OnlyNewest'
  <2>1. taskState' = "ended" /\ UNCHANGED <<transcript, stream, heard>>
    BY <1>2, AskRefusedEffect DEF hub
  <2>2. UNCHANGED <<Ids, QuestionIds>> /\ \A n : Newest(n)' <=> Newest(n)
    BY <2>1 DEF Ids, QuestionIds, Newest
  <2> QED
    BY <2>1, <2>2 DEF OnlyNewest, ReplyAnswersOwnQuestion
<1>3. ASSUME NEW q \in Questions,
             \/ \E m \in 1..MaxTranscript : StreamReplies(q, m)
             \/ StreamEnds(q) \/ StreamTimesOut(q) \/ StreamBreaks(q)
      PROVE  OnlyNewest'
  <2>1. /\ UNCHANGED <<taskState, transcript>> /\ stream[q] # 0
        /\ stream' = [stream EXCEPT ![q] = 0]
        /\ \/ pending' \in {pending, NoQuestion}
           \/ taskState # "ended" /\ pending' = [question |-> q, sentAs |-> streamAs[q]]
    BY <1>3, StreamEffect DEF hub
  <2>2. UNCHANGED <<Ids, QuestionIds>> /\ (\A id : UNCHANGED Asked(id))
        /\ \A n : Newest(n)' <=> Newest(n)
    BY <2>1 DEF Ids, QuestionIds, Asked, Newest
  <2>3. Newest(stream[q]) /\ stream[q] \in Asked(streamAs[q])
        /\ transcript[stream[q]].question = q
    BY <2>1 DEF OnlyNewest, IInv, StreamIsOfItsQuestion, Asked
  <2>4. \A h \in heard' : /\ h[2] \in Ids /\ transcript[h[2]].kind = "reply"
                          /\ transcript[h[2]].question = h[1]
    <3>1. CASE heard' = heard
      BY <3>1 DEF OnlyNewest, ReplyAnswersOwnQuestion
    <3>2. ASSUME NEW m \in 1..MaxTranscript, StreamReplies(q, m)
          PROVE  /\ heard' = heard \cup {<<q, m>>}
                 /\ m \in Ids /\ transcript[m].kind = "reply" /\ transcript[m].question = q
      BY <2>3, <3>2, FirstWordIsTheReply DEF StreamReplies, TakesAnswer
    <3>3. CASE \E m \in 1..MaxTranscript : StreamReplies(q, m)
      BY <3>2, <3>3 DEF OnlyNewest, ReplyAnswersOwnQuestion
    <3> QED
      BY <1>3, <3>1, <3>3 DEF StreamEnds, StreamTimesOut, StreamBreaks
  <2>5. \A p \in Questions : stream'[p] # 0 => stream[p] # 0 /\ stream'[p] = stream[p]
    BY <2>1 DEF IInv, TypeOK
  <2>6. taskState' # "ended" /\ pending'.question # "none" =>
          \E m \in Asked(pending'.sentAs) : Newest(m)
    BY <2>1, <2>3 DEF OnlyNewest, NoQuestion
  <2> QED
    BY <2>1, <2>2, <2>4, <2>5, <2>6 DEF OnlyNewest, ReplyAnswersOwnQuestion
<1>4. ASSUME QuestionIds' = QuestionIds, UNCHANGED <<stream, heard>>,
             pending' \in {pending, NoQuestion}, taskState' # "ended" => taskState # "ended"
      PROVE  OnlyNewest'
  <2>1. \A n : Newest(n)' <=> Newest(n)
    BY <1>4 DEF Newest
  <2>2. \A id : Asked(id)' = Asked(id)
    BY <1>0, <1>4 DEF Asked
  <2> QED
    BY <1>0, <1>4, <2>1, <2>2 DEF OnlyNewest, ReplyAnswersOwnQuestion, NoQuestion
<1>5. ASSUME NEW m \in Ids, Reply(m) PROVE OnlyNewest'
  <2>1. QuestionIds' = QuestionIds
    <3>1. 0 \in 0..MaxAsks
      BY QuestionAssumption
    <3> QED
      BY <1>5, <3>1, ReplyEffect, SayEffect
  <2> QED
    BY <1>4, <1>5, <2>1, ReplyEffect DEF client
<1>6. CASE SubmitResult \/ SetTaskState \/ EndSilently
  <2>1. QuestionIds' = QuestionIds
    <3>1. 0 \in 0..MaxAsks
      BY QuestionAssumption
    <3>2. transcript' = transcript => QuestionIds' = QuestionIds
      BY DEF QuestionIds, Ids
    <3> QED
      BY <1>6, <3>1, <3>2, EndEffect, SayEffect
  <2> QED
    BY <1>4, <1>6, <2>1, EndEffect
<1>7. CASE UNCHANGED vars
  <2>1. UNCHANGED QuestionIds
    BY <1>7 DEF vars, hub, QuestionIds, Ids
  <2> QED
    BY <1>4, <1>7, <2>1 DEF vars, hub, client
<1> QED
  BY <1>1, <1>2, <1>3, <1>5, <1>6, <1>7, StepCases

(* A worker that keeps one ask_alice open at a time, as a harness that runs *)
(* its tool calls in turn does, takes for the answer to its question only   *)
(* Alice's reply to that question.                                          *)
THEOREM AnswersAreItsOwn ==
  ASSUME MaxHeld = 1
  PROVE  Spec => []ReplyAnswersOwnQuestion
<1>1. Init => IInv /\ OnlyNewest
  BY InitIInv
<1>2. IInv /\ OnlyNewest /\ [Next]_vars => OnlyNewest'
  BY NewestStep
<1>3. OnlyNewest => ReplyAnswersOwnQuestion
  BY DEF OnlyNewest
<1> QED
  BY <1>1, <1>2, <1>3, InductiveInvariant, PTL DEF Spec

=============================================================================
