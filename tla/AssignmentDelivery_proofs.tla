---------------------- MODULE AssignmentDelivery_proofs ----------------------
(***************************************************************************)
(* Theorems about AssignmentDelivery for any number of worker processes,   *)
(* tasks, broken streams and losses of the agent; and about HeldWait, the  *)
(* wait its streams are held in, for any number of held requests, writer   *)
(* threads and things committed.  The two are separate specifications.     *)
(***************************************************************************)
EXTENDS AssignmentDelivery, HeldWait, TLAPS

(* A deaf stream is one that broke.                                         *)
DeafBroke == \A p \in Procs : deaf[p] <= breaks

(* A task is handed out when it leaves "submitted", and not before.         *)
HandedOutFromSubmitted ==
    \A t \in Tasks : state[t] \in {"none", "submitted"} => taken[t] = 0

(* What a process knows it was handed.                                      *)
KnownWasTaken == \A p \in Procs : knows[p] # NoTask => taken[knows[p]] > 0

(* No two processes of the worker are ever on the same task, though each    *)
(* restart leaves the streams of the process before it in the hub.          *)
KnownToOne ==
    \A p, q \in Procs : knows[p] = knows[q] /\ knows[p] # NoTask => p = q

(* A process that was told of the release holds no stream.                  *)
ExitedIsSilent == polling \cap exited = {}

IInv ==
    /\ TypeOK
    /\ DeafBroke
    /\ HandedOutFromSubmitted
    /\ HandedOutOnce
    /\ OnlyCurrentIsOpen
    /\ KnownWasTaken
    /\ KnownToOne
    /\ ExitedIsSilent

(* Before the first check-in the inductive invariant holds.                 *)
LEMMA InitIInv == Init => IInv
  BY DeliveryAssumption
     DEF Init, IInv, TypeOK, DeafBroke, HandedOutFromSubmitted, HandedOutOnce,
         OnlyCurrentIsOpen, KnownWasTaken, KnownToOne, ExitedIsSilent, Open

----------------------------------------------------------------------------
(* The row of the agent and the rows of its tasks *)

RowInv == HandedOutFromSubmitted /\ HandedOutOnce /\ OnlyCurrentIsOpen

(* _claim_assignment takes the one submitted task, which nobody was handed. *)
LEMMA ClaimKeepsRows ==
  ASSUME IInv, NEW t \in Tasks, Claim(t), UNCHANGED agent
  PROVE  /\ RowInv'
         /\ taken[t] = 0
         /\ \A u \in Tasks : taken'[u] = IF u = t THEN 1 ELSE taken[u]
<1>1. /\ state[t] = "submitted" /\ taken[t] = 0
      /\ \A u \in Tasks : state'[u] = IF u = t THEN "working" ELSE state[u]
      /\ \A u \in Tasks : taken'[u] = IF u = t THEN 1 ELSE taken[u]
  BY DEF Claim, Claimable, IInv, TypeOK, HandedOutFromSubmitted
<1>2. \A u \in Tasks : Open(u)' <=> Open(u)
  BY <1>1 DEF Open
<1> QED
  BY <1>1, <1>2
     DEF RowInv, IInv, TypeOK, HandedOutFromSubmitted, HandedOutOnce, OnlyCurrentIsOpen,
         agent

(* Ending the open task frees the agent that is on it.                      *)
LEMMA EndTaskKeepsRows ==
  ASSUME IInv, NEW t \in Tasks, Open(t), EndTask(t), UNCHANGED taken
  PROVE  RowInv'
<1>1. /\ current = t /\ current' = NoTask
      /\ \A u \in Tasks : state'[u] = IF u = t THEN "ended" ELSE state[u]
  BY DEF EndTask, IInv, TypeOK, OnlyCurrentIsOpen
<1>2. \A u \in Tasks : ~Open(u)'
  BY <1>1 DEF Open, IInv, OnlyCurrentIsOpen
<1> QED
  BY <1>1, <1>2, DeliveryAssumption
     DEF RowInv, IInv, HandedOutFromSubmitted, HandedOutOnce, OnlyCurrentIsOpen

(* Every operation keeps the agent's row and those of its tasks together.   *)
LEMMA RowStep == IInv /\ [Next]_vars => RowInv'
<1> SUFFICES ASSUME IInv, [Next]_vars PROVE RowInv'
  OBVIOUS
<1> USE DeliveryAssumption DEF agent, streams
<1>1. ASSUME NEW p \in Procs, CheckIn(p) PROVE RowInv'
  BY <1>1 DEF CheckIn, OpenTaskId, RowInv, IInv, TypeOK, HandedOutFromSubmitted,
              HandedOutOnce, OnlyCurrentIsOpen, Open, LiveStatus
<1>2. ASSUME UNCHANGED <<status, current, state, taken>> PROVE RowInv'
  BY <1>2 DEF RowInv, IInv, HandedOutFromSubmitted, HandedOutOnce, OnlyCurrentIsOpen,
              Open
<1>3. ASSUME NEW p \in Procs,
             Poll(p) \/ PollReleased(p) \/ PollTimesOut(p) \/ PollBreaks(p)
      PROVE  RowInv'
  BY <1>2, <1>3 DEF Poll, PollReleased, PollTimesOut, PollBreaks
<1>4. ASSUME NEW p \in Procs, NEW t \in Tasks, PollAnswered(p, t) \/ AnswerLost(p, t)
      PROVE  RowInv'
  BY <1>4, ClaimKeepsRows DEF PollAnswered, AnswerLost
<1>5. ASSUME NEW p \in Procs, NEW t \in Tasks, SubmitResult(p, t)
      PROVE  RowInv'
  BY <1>5, EndTaskKeepsRows DEF SubmitResult
<1>6. ASSUME NEW t \in Tasks, SetTaskState(t)
      PROVE  RowInv'
  BY <1>6, EndTaskKeepsRows DEF SetTaskState
<1>7. ASSUME NEW t \in Tasks, AssignTask(t)
      PROVE  RowInv'
  <2>1. /\ \A u \in Tasks : state'[u] = IF u = t THEN "submitted" ELSE state[u]
        /\ current = NoTask /\ current' = t /\ status' = "busy" /\ taken' = taken
    BY <1>7 DEF AssignTask, IInv, TypeOK, OnlyCurrentIsOpen
  <2>2. \A u \in Tasks : ~Open(u) /\ (Open(u)' <=> u = t)
    BY <2>1 DEF Open, IInv, OnlyCurrentIsOpen
  <2>3. HandedOutFromSubmitted' /\ HandedOutOnce'
    BY <1>7, <2>1 DEF AssignTask, IInv, HandedOutFromSubmitted, HandedOutOnce
  <2>4. OnlyCurrentIsOpen'
    BY <2>1, <2>2, <2>3 DEF OnlyCurrentIsOpen, HandedOutFromSubmitted
  <2> QED
    BY <2>3, <2>4 DEF RowInv
<1>8. CASE ReleaseAgent
  BY <1>8 DEF ReleaseAgent, RowInv, IInv, HandedOutFromSubmitted, HandedOutOnce,
              OnlyCurrentIsOpen, Open
<1>9. CASE LoseAgent
  BY <1>9 DEF LoseAgent, RowInv, IInv, TypeOK, HandedOutFromSubmitted, HandedOutOnce,
              OnlyCurrentIsOpen, Open
<1>10. CASE UNCHANGED vars
  BY <1>2, <1>10 DEF vars
<1> QED
  BY <1>1, <1>3, <1>4, <1>5, <1>6, <1>7, <1>8, <1>9, <1>10 DEF Next

----------------------------------------------------------------------------
(* Types *)

(* Every operation keeps the rows, streams and processes well typed; only a *)
(* break makes a stream deaf, so their number stays within that of breaks.  *)
LEMMA TypeStep == IInv /\ [Next]_vars => TypeOK' /\ DeafBroke'
<1> SUFFICES ASSUME IInv, [Next]_vars PROVE TypeOK' /\ DeafBroke'
  OBVIOUS
<1> USE DeliveryAssumption DEF IInv, TypeOK, DeafBroke, agent, streams
<1>1. ASSUME NEW p \in Procs, CheckIn(p) PROVE TypeOK' /\ DeafBroke'
  BY <1>1 DEF CheckIn, OpenTaskId
<1>2. ASSUME NEW p \in Procs, Poll(p) \/ PollReleased(p) PROVE TypeOK' /\ DeafBroke'
  BY <1>2 DEF Poll, PollReleased
<1>3. ASSUME NEW p \in Procs, PollTimesOut(p) PROVE TypeOK' /\ DeafBroke'
  BY <1>3 DEF PollTimesOut
<1>4. ASSUME NEW p \in Procs, PollBreaks(p) PROVE TypeOK' /\ DeafBroke'
  <2>1. \A q \in Procs : deaf'[q] \in {deaf[q], deaf[q] + 1}
    BY <1>4 DEF PollBreaks
  <2>2. \A q \in Procs : deaf'[q] \in 0..MaxBreaks /\ deaf'[q] <= breaks'
    BY <1>4, <2>1 DEF PollBreaks
  <2>3. deaf' \in [Procs -> 0..MaxBreaks]
    BY <1>4, <2>2 DEF PollBreaks
  <2> QED
    BY <1>4, <2>2, <2>3 DEF PollBreaks
<1>5. ASSUME NEW p \in Procs, NEW t \in Tasks, PollAnswered(p, t)
      PROVE  TypeOK' /\ DeafBroke'
  BY <1>5 DEF PollAnswered, Claim
<1>6. ASSUME NEW p \in Procs, NEW t \in Tasks, AnswerLost(p, t)
      PROVE  TypeOK' /\ DeafBroke'
  BY <1>6 DEF AnswerLost, Claim
<1>7. ASSUME NEW p \in Procs, NEW t \in Tasks, SubmitResult(p, t)
      PROVE  TypeOK' /\ DeafBroke'
  BY <1>7 DEF SubmitResult, EndTask
<1>8. ASSUME NEW t \in Tasks, AssignTask(t) \/ SetTaskState(t)
      PROVE  TypeOK' /\ DeafBroke'
  BY <1>8 DEF AssignTask, SetTaskState, EndTask
<1>9. CASE ReleaseAgent \/ LoseAgent
  BY <1>9 DEF ReleaseAgent, LoseAgent
<1>10. CASE UNCHANGED vars
  BY <1>10 DEF vars
<1> QED
  BY <1>1, <1>2, <1>3, <1>4, <1>5, <1>6, <1>7, <1>8, <1>9, <1>10 DEF Next

----------------------------------------------------------------------------
(* The processes *)

ProcInv == KnownWasTaken /\ KnownToOne /\ ExitedIsSilent

(* A process learns of a task only as the first to be handed it, and one    *)
(* that was told of the release opens no stream again.                      *)
LEMMA ProcStep == IInv /\ [Next]_vars => ProcInv'
<1> SUFFICES ASSUME IInv, [Next]_vars PROVE ProcInv'
  OBVIOUS
<1> USE DeliveryAssumption
    DEF IInv, TypeOK, ProcInv, KnownWasTaken, KnownToOne, ExitedIsSilent, agent, streams
<1>1. ASSUME NEW p \in Procs, CheckIn(p) PROVE ProcInv'
  BY <1>1 DEF CheckIn
<1>2. ASSUME NEW p \in Procs,
             Poll(p) \/ PollReleased(p) \/ PollTimesOut(p) \/ PollBreaks(p)
      PROVE  ProcInv'
  BY <1>2 DEF Poll, PollReleased, PollTimesOut, PollBreaks
<1>3. ASSUME NEW p \in Procs, NEW t \in Tasks, PollAnswered(p, t)
      PROVE  ProcInv'
  <2>1. /\ taken[t] = 0
        /\ \A u \in Tasks : taken'[u] = IF u = t THEN 1 ELSE taken[u]
    BY <1>3, ClaimKeepsRows DEF PollAnswered
  <2>2. \A q \in Procs : knows[q] # t
    BY <2>1
  <2>3. \A q \in Procs : knows'[q] = IF q = p THEN t ELSE knows[q]
    BY <1>3 DEF PollAnswered
  <2>4. KnownWasTaken' /\ KnownToOne'
    BY <2>1, <2>2, <2>3
  <2> QED
    BY <1>3, <2>4 DEF PollAnswered
<1>4. ASSUME NEW p \in Procs, NEW t \in Tasks, AnswerLost(p, t)
      PROVE  ProcInv'
  <2>1. \A u \in Tasks : taken'[u] = IF u = t THEN 1 ELSE taken[u]
    BY <1>4, ClaimKeepsRows DEF AnswerLost
  <2> QED
    BY <1>4, <2>1 DEF AnswerLost
<1>5. ASSUME NEW p \in Procs, NEW t \in Tasks, SubmitResult(p, t)
      PROVE  ProcInv'
  BY <1>5 DEF SubmitResult
<1>6. ASSUME NEW t \in Tasks, AssignTask(t) \/ SetTaskState(t)
      PROVE  ProcInv'
  BY <1>6 DEF AssignTask, SetTaskState
<1>7. CASE ReleaseAgent \/ LoseAgent \/ UNCHANGED vars
  BY <1>7 DEF ReleaseAgent, LoseAgent, vars
<1> QED
  BY <1>1, <1>2, <1>3, <1>4, <1>5, <1>6, <1>7 DEF Next

(* IInv is an inductive invariant of the delivery of assignments.           *)
LEMMA InductiveInvariant == Spec => []IInv
<1>1. Init => IInv
  BY InitIInv
<1>2. IInv /\ [Next]_vars => IInv'
  BY TypeStep, RowStep, ProcStep DEF IInv, RowInv, ProcInv
<1> QED
  BY <1>1, <1>2, PTL DEF Spec

----------------------------------------------------------------------------
(* What the delivery guarantees *)

(* The rows, streams and processes hold values of their types.              *)
THEOREM TypeCorrect == Spec => []TypeOK
<1>1. IInv => TypeOK
  BY DEF IInv
<1> QED
  BY <1>1, InductiveInvariant, PTL

(* _claim_assignment hands a task to one held stream at most, however many  *)
(* streams of however many processes wait under the name.                   *)
THEOREM TaskHandedOutOnce == Spec => []HandedOutOnce
<1>1. IInv => HandedOutOnce
  BY DEF IInv
<1> QED
  BY <1>1, InductiveInvariant, PTL

(* The task the agent's row names is the only open one, so a stale result   *)
(* never ends the task of another process.                                  *)
THEOREM OpenIsCurrent == Spec => []OnlyCurrentIsOpen
<1>1. IInv => OnlyCurrentIsOpen
  BY DEF IInv
<1> QED
  BY <1>1, InductiveInvariant, PTL

(* No two processes started under one worker name are given the same task,  *)
(* and a process that was told of the release waits for none.               *)
THEOREM OneProcessPerTask == Spec => [](KnownToOne /\ ExitedIsSilent)
<1>1. IInv => KnownToOne /\ ExitedIsSilent
  BY DEF IInv
<1> QED
  BY <1>1, InductiveInvariant, PTL

(* await_assignment checks for the release before it claims: no task is     *)
(* handed out by or after the step that releases the agent.                 *)
THEOREM NoWorkAfterRelease == Spec => ReleasedGetsNoWork
<1> DEFINE HandOut == \A t \in Tasks : taken'[t] > taken[t] =>
                        status # "released" /\ status' # "released"
<1>1. ASSUME TypeOK, [Next]_vars PROVE HandOut
  <2>1. ASSUME NEW p \in Procs, NEW t \in Tasks, PollAnswered(p, t) \/ AnswerLost(p, t)
        PROVE  HandOut
    BY <2>1 DEF PollAnswered, AnswerLost, Claim, Claimable, agent
  <2>2. ASSUME UNCHANGED taken PROVE HandOut
    BY <1>1, <2>2 DEF TypeOK
  <2> QED
    BY <1>1, <2>1, <2>2
       DEF Next, CheckIn, Poll, PollReleased, PollTimesOut, PollBreaks, SubmitResult,
           AssignTask, SetTaskState, ReleaseAgent, LoseAgent, vars
<1>2. TypeOK /\ [Next]_vars => [HandOut]_vars
  BY <1>1
<1> QED
  BY <1>2, TypeCorrect, PTL DEF Spec, ReleasedGetsNoWork

----------------------------------------------------------------------------
(* The held waits under one key, which AssignmentDelivery takes as a stream *)
(* that is held until it is answered                                        *)

Held == {"clear", "poll", "missed", "sleep"}

(* What can be found was committed.                                         *)
AvailableWasCommitted == available <= items

(* The key's waiters are the requests held now, and a wakeup is scheduled   *)
(* for one of them only: a request that was answered leaves nothing behind  *)
(* in Signals or in the loop.                                               *)
SubscribedWhileHeld ==
    /\ \A w \in Waiters : w \in subscribed <=> pc[w] \in Held
    /\ hops \subseteq subscribed

(* A wakeup is under way for w, or will be.                                 *)
WakeupComes(w) ==
    woken[w] \/ w \in hops \/ \E x \in Writers : writer[x] = "committed"

(* NoLostWakeup holds from the read that found nothing on: a commit between *)
(* that read and the sleep is not missed.                                   *)
NothingMissed ==
    \A w \in Waiters : pc[w] \in {"missed", "sleep"} /\ available > 0 => WakeupComes(w)

WaitInv ==
    /\ WaitTypeOK
    /\ AvailableWasCommitted
    /\ SubscribedWhileHeld
    /\ NothingMissed

(* With no request held and nothing committed the invariant holds.          *)
LEMMA WaitInitInv == WaitInit => WaitInv
  BY WaitAssumption
     DEF WaitInit, WaitInv, WaitTypeOK, AvailableWasCommitted, SubscribedWhileHeld,
         NothingMissed, Held

(* Every step of a waiter, a writer or the loop keeps the types.            *)
LEMMA WaitTypeStep ==
  WaitInv /\ [WaitNext]_waitVars => WaitTypeOK' /\ AvailableWasCommitted'
<1> SUFFICES ASSUME WaitInv, [WaitNext]_waitVars
             PROVE  WaitTypeOK' /\ AvailableWasCommitted'
  OBVIOUS
<1> USE WaitAssumption DEF WaitInv, WaitTypeOK, AvailableWasCommitted
<1>1. ASSUME NEW w \in Waiters, Subscribe(w) \/ Clear(w)
      PROVE  WaitTypeOK' /\ AvailableWasCommitted'
  BY <1>1 DEF Subscribe, Clear
<1>2. ASSUME NEW w \in Waiters, PollFinds(w)
      PROVE  WaitTypeOK' /\ AvailableWasCommitted'
  BY <1>2 DEF PollFinds, Leave
<1>3. ASSUME NEW w \in Waiters,
             PollMisses(w) \/ Sleep(w) \/ WakeUp(w) \/ CallAgain(w)
      PROVE  WaitTypeOK' /\ AvailableWasCommitted'
  BY <1>3 DEF PollMisses, Sleep, WakeUp, CallAgain
<1>4. ASSUME NEW w \in Waiters, GiveUp(w) \/ HoldElapses(w) \/ Hop(w)
      PROVE  WaitTypeOK' /\ AvailableWasCommitted'
  BY <1>4 DEF GiveUp, Leave, HoldElapses, Hop
<1>5. ASSUME NEW x \in Writers, Commit(x) PROVE WaitTypeOK' /\ AvailableWasCommitted'
  BY <1>5 DEF Commit
<1>6. ASSUME NEW x \in Writers, Notify(x) PROVE WaitTypeOK' /\ AvailableWasCommitted'
  BY <1>6 DEF Notify
<1>7. CASE UNCHANGED waitVars
  BY <1>7 DEF waitVars
<1> QED
  BY <1>1, <1>2, <1>3, <1>4, <1>5, <1>6, <1>7 DEF WaitNext

(* A request is registered before it reads and forgotten as it is answered. *)
LEMMA SubscribedStep == WaitInv /\ [WaitNext]_waitVars => SubscribedWhileHeld'
<1> SUFFICES ASSUME WaitInv, [WaitNext]_waitVars PROVE SubscribedWhileHeld'
  OBVIOUS
<1> USE DEF WaitInv, WaitTypeOK, SubscribedWhileHeld, Held
<1>1. ASSUME NEW w \in Waiters, Subscribe(w) PROVE SubscribedWhileHeld'
  BY <1>1 DEF Subscribe
<1>2. ASSUME NEW w \in Waiters, PollFinds(w) \/ GiveUp(w) PROVE SubscribedWhileHeld'
  BY <1>2 DEF PollFinds, GiveUp, Leave
<1>3. ASSUME NEW w \in Waiters,
             Clear(w) \/ PollMisses(w) \/ Sleep(w) \/ WakeUp(w) \/ CallAgain(w)
      PROVE  SubscribedWhileHeld'
  BY <1>3 DEF Clear, PollMisses, Sleep, WakeUp, CallAgain
<1>4. ASSUME NEW w \in Waiters, HoldElapses(w) \/ Hop(w) PROVE SubscribedWhileHeld'
  BY <1>4 DEF HoldElapses, Hop
<1>5. ASSUME NEW x \in Writers, Commit(x) \/ Notify(x) PROVE SubscribedWhileHeld'
  BY <1>5 DEF Commit, Notify
<1>6. CASE UNCHANGED waitVars
  BY <1>6 DEF waitVars
<1> QED
  BY <1>1, <1>2, <1>3, <1>4, <1>5, <1>6 DEF WaitNext

(* Between the commit and the set event the duty to wake the sleeper passes *)
(* from the writer to the scheduled hop to the event, and is never dropped. *)
LEMMA WakeupStep == WaitInv /\ [WaitNext]_waitVars => NothingMissed'
<1> SUFFICES ASSUME WaitInv, [WaitNext]_waitVars,
                    NEW v \in Waiters, pc'[v] \in {"missed", "sleep"}, available' > 0
             PROVE  WakeupComes(v)'
  BY DEF NothingMissed
<1> USE WaitAssumption DEF WaitInv, WaitTypeOK, NothingMissed, WakeupComes
<1>1. ASSUME NEW w \in Waiters, Subscribe(w) \/ Clear(w) PROVE WakeupComes(v)'
  BY <1>1 DEF Subscribe, Clear
<1>2. ASSUME NEW w \in Waiters, PollFinds(w) \/ GiveUp(w) PROVE WakeupComes(v)'
  <2>1. w # v /\ pc'[v] = pc[v] /\ available > 0
    BY <1>2 DEF PollFinds, GiveUp, Leave
  <2> QED
    BY <1>2, <2>1 DEF PollFinds, GiveUp, Leave
<1>3. ASSUME NEW w \in Waiters, PollMisses(w) \/ Sleep(w) PROVE WakeupComes(v)'
  BY <1>3 DEF PollMisses, Sleep
<1>4. ASSUME NEW w \in Waiters, WakeUp(w) \/ CallAgain(w) \/ HoldElapses(w)
      PROVE  WakeupComes(v)'
  BY <1>4 DEF WakeUp, CallAgain, HoldElapses
<1>5. ASSUME NEW w \in Waiters, Hop(w) PROVE WakeupComes(v)'
  BY <1>5 DEF Hop
<1>6. ASSUME NEW x \in Writers, Commit(x) PROVE WakeupComes(v)'
  BY <1>6 DEF Commit
<1>7. ASSUME NEW x \in Writers, Notify(x) PROVE WakeupComes(v)'
  <2>1. v \in subscribed
    BY <1>7 DEF Notify, SubscribedWhileHeld, Held
  <2> QED
    BY <1>7, <2>1 DEF Notify
<1>8. CASE UNCHANGED waitVars
  BY <1>8 DEF waitVars
<1> QED
  BY <1>1, <1>2, <1>3, <1>4, <1>5, <1>6, <1>7, <1>8 DEF WaitNext

(* WaitInv is an inductive invariant of the held waits.                        *)
LEMMA WaitInductiveInvariant == WaitSpec => []WaitInv
<1>1. WaitInit => WaitInv
  BY WaitInitInv
<1>2. WaitInv /\ [WaitNext]_waitVars => WaitInv'
  BY WaitTypeStep, SubscribedStep, WakeupStep DEF WaitInv
<1> QED
  BY <1>1, <1>2, PTL DEF WaitSpec

----------------------------------------------------------------------------
(* What the held waits guarantee *)

(* Waiters, writers and the loop hold values of their types.                *)
THEOREM WaitTypeCorrect == WaitSpec => []WaitTypeOK
<1>1. WaitInv => WaitTypeOK
  BY DEF WaitInv
<1> QED
  BY <1>1, WaitInductiveInvariant, PTL

(* _wait_for clears its event before it reads and subscribes before both,   *)
(* so a sleeper with something to find has a wakeup coming.                 *)
THEOREM WakeupNeverLost == WaitSpec => []NoLostWakeup
<1>1. WaitInv => NoLostWakeup
  BY DEF WaitInv, NothingMissed, NoLostWakeup, WakeupComes
<1> QED
  BY <1>1, WaitInductiveInvariant, PTL

(* Signals holds an entry for each held request and for no other, and the   *)
(* loop no wakeup for one that was answered.                                *)
THEOREM SignalsAreOfHeldRequests == WaitSpec => []SubscribedWhileHeld
<1>1. WaitInv => SubscribedWhileHeld
  BY DEF WaitInv
<1> QED
  BY <1>1, WaitInductiveInvariant, PTL

=============================================================================
