----------------------- MODULE OperationLedger_proofs -----------------------
(***************************************************************************)
(* Theorems about OperationLedger for any notes and results a worker may   *)
(* send, any number of operations and any number of losses of the agent.   *)
(***************************************************************************)
EXTENDS OperationLedger, TLAPS

IsResult(c) == c \in ResultCalls

(* Ids are minted in order, and all that carries one had it minted.         *)
MintedFirst ==
    /\ \A r \in sent : r[1] <= minted
    /\ \A a \in answers : a[1] <= minted

(* What is pending was sent under that id.                                  *)
PendingWasSent ==
    \A i \in Intents : pending[i].call # NoCall =>
        <<pending[i].op, pending[i].call>> \in sent

(* The hub records only what was sent.                                      *)
RecordedWasSent == \A op \in Ops : Recorded(op) => <<op, ledger[op]>> \in sent

(* A task call carries the id of a task, so there is one.                   *)
TaskCallHasTask == \A r \in sent : r[2] # CheckInCall => task # "none"

(* The stored result is that of a recorded operation.                       *)
ResultIsRecorded ==
    result # "none" => \E op \in Ops : IsResult(ledger[op]) /\ ledger[op].payload = result

(* A task call refused as too late was not carried out, and never will be:  *)
(* its task is over.                                                        *)
RefusedIsOver ==
    \A a \in answers :
        a[2] = "conflict" /\ <<a[1], CheckInCall>> \notin sent =>
            ~Recorded(a[1]) /\ task = "ended"

(* The pending result is the newest result call, and the only one the       *)
(* client can be waiting for: a success never clears it.                    *)
PendingIsNewestResult ==
    /\ pending["result"].call \in ResultCalls \cup {NoCall}
    /\ \A r \in sent : IsResult(r[2]) =>
         pending["result"].call # NoCall /\ r[1] <= pending["result"].op
    /\ IsResult(calling[2]) => calling[1] = pending["result"].op

(* Two ids for the same result have another result between them.            *)
ChangedItsMind ==
    \A r, s \in sent : IsResult(r[2]) /\ r[2] = s[2] /\ r[1] < s[1] =>
        \E q \in sent : q[2] \in ResultCalls \ {s[2]} /\ q[1] < s[1]

(* A refused result was the newest one when it was refused, and what is     *)
(* recorded is older.                                                       *)
RefusedIsNewer ==
    \A a \in answers, c \in ResultCalls :
        a[2] = "conflict" /\ <<a[1], c>> \in sent =>
            \A op \in Ops : IsResult(ledger[op]) => op < a[1]

IInv ==
    /\ TypeOK
    /\ MintedFirst
    /\ PendingWasSent
    /\ RecordedWasSent
    /\ OneCallPerOperation
    /\ TaskCallHasTask
    /\ EffectOnce
    /\ OneResult
    /\ ResultIsRecorded
    /\ RefusedIsOver
    /\ AnswersAreTrue
    /\ PendingIsNewestResult
    /\ ChangedItsMind
    /\ RefusedIsNewer

----------------------------------------------------------------------------
(* Calls, requests and replies *)

(* The kinds of call are told apart by their intents, and a result call is  *)
(* known by its payload.                                                    *)
LEMMA CallFacts ==
  /\ \A c \in Calls : c.intent \in Intents /\ c # NoCall
  /\ \A c \in Calls \cup {NoCall} : c.intent = "result" <=> IsResult(c)
  /\ \A c \in ResultCalls : c \in Calls /\ c.payload \in Results /\ c # CheckInCall
  /\ \A c, d \in ResultCalls : c.payload = d.payload => c = d
  /\ CheckInCall \in Calls
<1> USE DEF Calls, CheckInCall, ProgressCalls, ResultCalls, NoCall, Intents, IsResult
<1>1. \A c \in Calls : c.intent \in Intents /\ c # NoCall
  OBVIOUS
<1>2. \A c \in Calls \cup {NoCall} : c.intent = "result" <=> IsResult(c)
  OBVIOUS
<1>3. \A c \in ResultCalls : c \in Calls /\ c.payload \in Results /\ c # CheckInCall
  OBVIOUS
<1>4. \A c, d \in ResultCalls : c.payload = d.payload => c = d
  OBVIOUS
<1>5. CheckInCall \in Calls
  OBVIOUS
<1> QED
  BY <1>1, <1>2, <1>3, <1>4, <1>5

(* The empty ledger and the new worker satisfy the inductive invariant.     *)
LEMMA InitIInv == Init => IInv
<1> SUFFICES ASSUME Init PROVE IInv
  OBVIOUS
<1> USE LedgerAssumption, CallFacts DEF Init
<1>1. TypeOK
  <2>1. pending \in [Intents -> [op : Ops \cup {NoOp}, call : Calls \cup {NoCall}]]
    BY DEF NothingPending, NoOp
  <2>2. calling \in (sent \cup {Idle}) /\ minted \in 0..MaxOps /\ losses \in 0..MaxLosses
    OBVIOUS
  <2>3. ledger \in [Ops -> Calls \cup {NoCall}] /\ effects \in [Ops -> Nat]
    OBVIOUS
  <2> QED
    BY <2>1, <2>2, <2>3 DEF TypeOK
<1>2. /\ MintedFirst /\ PendingWasSent /\ RecordedWasSent /\ OneCallPerOperation
      /\ TaskCallHasTask /\ EffectOnce /\ ResultIsRecorded
      /\ RefusedIsOver /\ AnswersAreTrue /\ ChangedItsMind /\ RefusedIsNewer
  BY DEF MintedFirst, PendingWasSent, RecordedWasSent, OneCallPerOperation,
         TaskCallHasTask, EffectOnce, ResultIsRecorded, RefusedIsOver, AnswersAreTrue,
         ChangedItsMind, RefusedIsNewer, Recorded, NothingPending
<1>3. OneResult
  BY DEF OneResult, NoCall
<1>4. PendingIsNewestResult
  BY DEF PendingIsNewestResult, NothingPending, Idle, Intents, IsResult
<1> QED
  BY <1>1, <1>2, <1>3, <1>4 DEF IInv

(* A call sends the request it waits for under an id that is either that of *)
(* the same call, still pending, or a new one.                              *)
LEMMA CallEffect ==
  ASSUME IInv, NEW c \in Calls, Call(c)
  PROVE  \E op \in Ops :
           /\ sent' = sent \cup {<<op, c>>}
           /\ calling' = <<op, c>>
           /\ pending' = [pending EXCEPT ![c.intent] = [op |-> op, call |-> c]]
           /\ \/ pending[c.intent].call = c /\ <<op, c>> \in sent
                 /\ op = pending[c.intent].op /\ minted' = minted
              \/ pending[c.intent].call # c /\ op = minted + 1 /\ minted' = op
           /\ c # CheckInCall => task # "none"
           /\ UNCHANGED <<hub, registered, answers, losses>>
<1>1. OperationId(c) \in Ops /\ c.intent \in Intents
  BY CallFacts, LedgerAssumption
     DEF Call, OperationId, IInv, TypeOK, Ops, NoOp, PendingWasSent
<1>2. CASE pending[c.intent].call = c
  <2>1. <<pending[c.intent].op, c>> \in sent
    BY <1>1, <1>2, CallFacts DEF IInv, PendingWasSent
  <2>2. pending[c.intent].op <= minted
    BY <2>1 DEF IInv, MintedFirst
  <2>3. minted' = minted
    BY <1>1, <1>2, <2>2 DEF Call, OperationId, IInv, TypeOK, Ops
  <2> QED
    BY <1>1, <1>2, <2>1, <2>3 DEF Call, OperationId
<1>3. CASE pending[c.intent].call # c
  <2>1. OperationId(c) = minted + 1
    BY <1>3 DEF OperationId
  <2>2. minted' = minted + 1
    BY <2>1, LedgerAssumption DEF Call, IInv, TypeOK
  <2> QED
    BY <1>1, <1>3, <2>1, <2>2 DEF Call
<1> QED
  BY <1>2, <1>3

(* Serving a copy of a request leaves the hub as it is or carries the       *)
(* operation out for the first time; and the worker, if it still waits for  *)
(* it, is told the truth: "ok" of what is recorded, "conflict" of a task    *)
(* call only when its task is over and the call was not carried out.        *)
LEMMA ServeEffect ==
  ASSUME IInv, NEW op \in Ops, NEW c \in Calls, Serve(<<op, c>>)
  PROVE  /\ <<op, c>> \in sent
         /\ UNCHANGED <<sent, minted, losses>>
         /\ \/ UNCHANGED hub
            \/ ~Recorded(op) /\ Allowed(c) /\ CarryOut(op, c)
         /\ \/ UNCHANGED client
            \/ /\ calling = <<op, c>>
               /\ calling' = Idle
               /\ \E reply \in Replies :
                    /\ answers' = answers \cup {<<op, reply>>}
                    /\ reply = "ok" => Recorded(op)'
                    /\ reply = "conflict" /\ c # CheckInCall =>
                         ~Recorded(op) /\ task = "ended" /\ UNCHANGED hub
               /\ \/ pending' = pending
                  \/ pending' = [pending EXCEPT ![Cleared(c.intent)] = NothingPending]
               /\ registered' \in BOOLEAN
<1>1. /\ <<op, c>> \in sent
      /\ UNCHANGED <<sent, minted, losses>>
      /\ \/ UNCHANGED hub
         \/ ~Recorded(op) /\ Allowed(c) /\ CarryOut(op, c)
  BY DEF Serve, Replayed, Receive, client
<1> DEFINE Told(reply) == /\ calling = <<op, c>>
                          /\ calling' = Idle
                          /\ answers' = answers \cup {<<op, reply>>}
                          /\ \/ pending' = pending
                             \/ pending' = [pending EXCEPT ![Cleared(c.intent)] =
                                              NothingPending]
                          /\ registered' \in BOOLEAN
<1>2. ASSUME NEW reply, Receive(<<op, c>>, reply)
      PROVE  UNCHANGED client \/ Told(reply)
  BY <1>2 DEF Receive, IInv, TypeOK
<1>3. CASE ~AdmittedCall(c) /\ Receive(<<op, c>>, "not admitted") /\ UNCHANGED hub
  BY <1>1, <1>2, <1>3 DEF Replies
<1>4. CASE Recorded(op) /\ Receive(<<op, c>>, IF ledger[op] = c THEN "ok" ELSE "conflict")
           /\ UNCHANGED hub
  <2>1. ledger[op] = c
    BY <1>1, <1>4 DEF IInv, RecordedWasSent, OneCallPerOperation
  <2>2. Recorded(op)'
    BY <1>4 DEF hub, Recorded
  <2> QED
    BY <1>1, <1>2, <1>4, <2>1, <2>2 DEF Replies
<1>5. CASE ~Recorded(op) /\ ~Allowed(c) /\ Receive(<<op, c>>, "conflict") /\ UNCHANGED hub
  <2>1. c # CheckInCall => task = "ended"
    BY <1>1, <1>5 DEF Allowed, IInv, TypeOK, TaskCallHasTask
  <2> QED
    BY <1>1, <1>2, <1>5, <2>1 DEF Replies
<1>6. CASE CarryOut(op, c) /\ Receive(<<op, c>>, "ok")
  <2>1. Recorded(op)'
    BY <1>6, CallFacts DEF CarryOut, Recorded, IInv, TypeOK
  <2> QED
    BY <1>1, <1>2, <1>6, <2>1 DEF Replies
<1> QED
  BY <1>3, <1>4, <1>5, <1>6 DEF Serve, Replayed

(* Nothing else writes the ledger or the network, and a task that exists    *)
(* or is over stays so.                                                     *)
LEMMA OtherEffect ==
  ASSUME IInv,
         GiveUp \/ AssignTask \/ CancelTask \/ LoseAgent \/ UNCHANGED vars
  PROVE  /\ UNCHANGED <<result, ledger, effects, sent, pending, registered, minted,
                        answers>>
         /\ calling' \in {calling, Idle}
         /\ task # "none" => task' # "none"
         /\ task = "ended" => task' = "ended"
         /\ task' \in {"none", "open", "ended"}
         /\ status' \in {"absent", "live", "lost"}
         /\ losses' \in 0..MaxLosses
  BY LedgerAssumption
     DEF GiveUp, AssignTask, CancelTask, LoseAgent, vars, hub, client, IInv, TypeOK

(* The three ways the system moves, as the cases of every step below.       *)
LEMMA StepCases ==
  ASSUME [Next]_vars
  PROVE  \/ \E c \in Calls : Call(c)
         \/ \E op \in Ops, c \in Calls : Serve(<<op, c>>)
         \/ GiveUp \/ AssignTask \/ CancelTask \/ LoseAgent \/ UNCHANGED vars
  BY DEF Next

----------------------------------------------------------------------------
(* Every step keeps the invariant *)

(* The tables, the network and the client hold values of their types.       *)
LEMMA TypeStep == IInv /\ [Next]_vars => TypeOK'
<1> SUFFICES ASSUME IInv, [Next]_vars PROVE TypeOK'
  OBVIOUS
<1>1. ASSUME NEW c \in Calls, Call(c) PROVE TypeOK'
  <2>1. PICK op \in Ops :
           /\ sent' = sent \cup {<<op, c>>}
           /\ calling' = <<op, c>>
           /\ pending' = [pending EXCEPT ![c.intent] = [op |-> op, call |-> c]]
           /\ minted' = minted \/ minted' = op
           /\ UNCHANGED <<hub, registered, answers, losses>>
    BY <1>1, CallEffect
  <2>2. pending' \in [Intents -> [op : Ops \cup {NoOp}, call : Calls \cup {NoCall}]]
    BY <2>1 DEF IInv, TypeOK
  <2>3. minted' \in 0..MaxOps
    BY <2>1, LedgerAssumption DEF IInv, TypeOK, Ops
  <2>4. sent' \subseteq Ops \X Calls /\ calling' \in (sent' \cup {Idle})
    BY <2>1 DEF IInv, TypeOK
  <2> QED
    BY <2>1, <2>2, <2>3, <2>4 DEF IInv, TypeOK, hub
<1>2. ASSUME NEW op \in Ops, NEW c \in Calls, Serve(<<op, c>>) PROVE TypeOK'
  <2>1. /\ status' \in {"absent", "live", "lost"}
        /\ task' \in {"none", "open", "ended"}
        /\ result' \in Results \cup {"none"}
        /\ ledger' \in [Ops -> Calls \cup {NoCall}]
        /\ effects' \in [Ops -> Nat]
    <3>1. CASE UNCHANGED hub
      BY <3>1 DEF hub, IInv, TypeOK
    <3>2. CASE CarryOut(op, c)
      BY <3>2, CallFacts DEF CarryOut, IInv, TypeOK, IsResult
    <3> QED
      BY <1>2, <3>1, <3>2, ServeEffect
  <2>2. [pending EXCEPT ![Cleared(c.intent)] = NothingPending]
          \in [Intents -> [op : Ops \cup {NoOp}, call : Calls \cup {NoCall}]]
    BY DEF IInv, TypeOK, NothingPending
  <2>3. /\ pending' \in [Intents -> [op : Ops \cup {NoOp}, call : Calls \cup {NoCall}]]
        /\ calling' \in (sent \cup {Idle})
        /\ answers' \subseteq Ops \X Replies
        /\ registered' \in BOOLEAN
    BY <1>2, <2>2, ServeEffect DEF client, IInv, TypeOK
  <2> QED
    BY <1>2, <2>1, <2>3, ServeEffect DEF IInv, TypeOK
<1>3. CASE GiveUp \/ AssignTask \/ CancelTask \/ LoseAgent \/ UNCHANGED vars
  BY <1>3, OtherEffect DEF IInv, TypeOK
<1> QED
  BY <1>1, <1>2, <1>3, StepCases

ClientInv ==
    /\ MintedFirst
    /\ PendingWasSent
    /\ OneCallPerOperation
    /\ PendingIsNewestResult
    /\ ChangedItsMind

(* A new call takes a new id unless it is the pending one again.            *)
LEMMA CallKeepsClient ==
  ASSUME IInv, NEW c \in Calls, Call(c)
  PROVE  ClientInv'
<1>1. PICK op \in Ops :
        /\ sent' = sent \cup {<<op, c>>}
        /\ calling' = <<op, c>>
        /\ pending' = [pending EXCEPT ![c.intent] = [op |-> op, call |-> c]]
        /\ \/ pending[c.intent].call = c /\ <<op, c>> \in sent
              /\ op = pending[c.intent].op /\ minted' = minted
           \/ pending[c.intent].call # c /\ op = minted + 1 /\ minted' = op
        /\ UNCHANGED answers
  BY CallEffect
<1>2. c.intent \in Intents
  BY CallFacts
<1>3. minted \in Nat /\ (\A r \in sent : r[1] \in Nat) /\ (\A a \in answers : a[1] \in Nat)
  BY LedgerAssumption DEF IInv, TypeOK, Ops
<1>4. MintedFirst'
  BY <1>1, <1>3 DEF IInv, MintedFirst
<1>5. PendingWasSent'
  BY <1>1, <1>2 DEF IInv, TypeOK, PendingWasSent
<1>6. \A r \in sent : r[1] # minted + 1
  BY <1>3 DEF IInv, MintedFirst
<1>7. OneCallPerOperation'
  BY <1>1, <1>6 DEF IInv, OneCallPerOperation
<1>8. PendingIsNewestResult'
  <2>1. CASE IsResult(c)
    <3>1. c.intent = "result" /\ c # NoCall
      BY <2>1, CallFacts DEF IsResult
    <3>2. pending'["result"] = [op |-> op, call |-> c]
      BY <1>1, <1>2, <3>1 DEF IInv, TypeOK
    <3>3. \A r \in sent : IsResult(r[2]) => r[1] <= op
      BY <1>1, <1>3, <3>1 DEF IInv, PendingIsNewestResult, MintedFirst
    <3> QED
      BY <1>1, <2>1, <3>1, <3>2, <3>3 DEF PendingIsNewestResult, IsResult, Ops
  <2>2. CASE ~IsResult(c)
    <3>1. c.intent # "result"
      BY <2>2, CallFacts
    <3>2. pending'["result"] = pending["result"]
      BY <1>1, <1>2, <3>1 DEF IInv, TypeOK, Intents
    <3> QED
      BY <1>1, <2>2, <3>2 DEF IInv, PendingIsNewestResult
  <2> QED
    BY <2>1, <2>2
<1>9. ChangedItsMind'
  <2>1. CASE <<op, c>> \in sent
    BY <1>1, <2>1 DEF IInv, ChangedItsMind
  <2>2. CASE ~IsResult(c)
    BY <1>1, <2>2, <1>3 DEF IInv, ChangedItsMind
  <2>3. CASE IsResult(c) /\ op = minted + 1 /\ pending[c.intent].call # c
    <3>1. c.intent = "result"
      BY <2>3, CallFacts
    <3> DEFINE last == <<pending["result"].op, pending["result"].call>>
    <3>2. ASSUME NEW r \in sent, IsResult(r[2])
          PROVE  last \in sent /\ last[2] \in ResultCalls \ {c} /\ last[1] < op
      <4>1. pending["result"].call \in ResultCalls
        BY <3>2 DEF IInv, PendingIsNewestResult
      <4>2. last \in sent
        BY <4>1, CallFacts DEF IInv, PendingWasSent, Intents
      <4> QED
        BY <1>3, <2>3, <3>1, <4>1, <4>2 DEF IInv, MintedFirst
    <3>3. ASSUME NEW r \in sent', NEW s \in sent',
                 IsResult(r[2]), r[2] = s[2], r[1] < s[1]
          PROVE  \E q \in sent' : q[2] \in ResultCalls \ {s[2]} /\ q[1] < s[1]
      <4>1. CASE s = <<op, c>>
        <5>1. r \in sent
          BY <1>1, <1>3, <2>3, <3>3, <4>1
        <5> QED
          BY <1>1, <3>2, <3>3, <4>1, <5>1
      <4>2. CASE s \in sent /\ r = <<op, c>>
        BY <1>3, <2>3, <3>3, <4>2 DEF IInv, MintedFirst
      <4>3. CASE s \in sent /\ r \in sent
        BY <1>1, <3>3, <4>3 DEF IInv, ChangedItsMind
      <4> QED
        BY <1>1, <4>1, <4>2, <4>3
    <3> QED
      BY <3>3 DEF ChangedItsMind
  <2> QED
    BY <1>1, <2>1, <2>2, <2>3
<1> QED
  BY <1>4, <1>5, <1>7, <1>8, <1>9 DEF ClientInv

(* A reply changes what is pending only by clearing it, and never clears a  *)
(* pending result.                                                          *)
LEMMA ServeKeepsClient ==
  ASSUME IInv, NEW op \in Ops, NEW c \in Calls, Serve(<<op, c>>)
  PROVE  ClientInv'
<1>1. /\ <<op, c>> \in sent
      /\ UNCHANGED <<sent, minted>>
      /\ calling' \in {calling, Idle}
      /\ answers' = answers \/ \E reply \in Replies : answers' = answers \cup {<<op, reply>>}
      /\ \A i \in Intents : pending'[i] \in {pending[i], NothingPending}
      /\ pending'["result"] = pending["result"]
  <2>1. Cleared(c.intent) # "result"
    BY DEF Cleared
  <2> QED
    BY <2>1, ServeEffect DEF client, IInv, TypeOK, Intents
<1>2. MintedFirst'
  BY <1>1 DEF IInv, MintedFirst
<1>3. PendingWasSent'
  BY <1>1 DEF IInv, PendingWasSent, NothingPending
<1>4. PendingIsNewestResult'
  BY <1>1, CallFacts DEF IInv, PendingIsNewestResult, Idle, IsResult
<1>5. OneCallPerOperation' /\ ChangedItsMind'
  BY <1>1 DEF IInv, OneCallPerOperation, ChangedItsMind
<1> QED
  BY <1>2, <1>3, <1>4, <1>5 DEF ClientInv

(* Every step keeps the client's ids and calls in order.                    *)
LEMMA ClientStep == IInv /\ [Next]_vars => ClientInv'
<1> SUFFICES ASSUME IInv, [Next]_vars PROVE ClientInv'
  OBVIOUS
<1>1. CASE GiveUp \/ AssignTask \/ CancelTask \/ LoseAgent \/ UNCHANGED vars
  <2>1. UNCHANGED <<sent, pending, minted, answers>> /\ calling' \in {calling, Idle}
    BY <1>1, OtherEffect
  <2>2. MintedFirst' /\ PendingWasSent' /\ OneCallPerOperation' /\ ChangedItsMind'
    BY <2>1 DEF IInv, MintedFirst, PendingWasSent, OneCallPerOperation, ChangedItsMind
  <2>3. PendingIsNewestResult'
    BY <2>1, CallFacts DEF IInv, PendingIsNewestResult, Idle, IsResult
  <2> QED
    BY <2>2, <2>3 DEF ClientInv
<1> QED
  BY <1>1, StepCases, CallKeepsClient, ServeKeepsClient

HubInv ==
    /\ RecordedWasSent
    /\ TaskCallHasTask
    /\ EffectOnce
    /\ OneResult
    /\ ResultIsRecorded

(* Carrying an operation out records it with its effect, and a result ends  *)
(* the open task, so no second one can be carried out.                      *)
LEMMA CarryOutKeepsHub ==
  ASSUME IInv, NEW op \in Ops, NEW c \in Calls, <<op, c>> \in sent,
         ~Recorded(op), Allowed(c), CarryOut(op, c), UNCHANGED sent
  PROVE  HubInv'
<1>1. /\ \A o \in Ops : ledger'[o] = IF o = op THEN c ELSE ledger[o]
      /\ \A o \in Ops : effects'[o] = IF o = op THEN effects[o] + 1 ELSE effects[o]
      /\ c # NoCall
  BY CallFacts DEF CarryOut, IInv, TypeOK
<1>2. RecordedWasSent' /\ EffectOnce'
  BY <1>1 DEF IInv, RecordedWasSent, EffectOnce, Recorded
<1>3. TaskCallHasTask'
  BY DEF CarryOut, IInv, TaskCallHasTask
<1>4. CASE IsResult(c)
  <2>1. c.intent = "result" /\ task = "open" /\ task' = "ended" /\ result' = c.payload
    BY <1>4, CallFacts DEF CarryOut, Allowed, IsResult
  <2>2. \A o \in Ops : ledger[o].intent # "result"
    BY <2>1 DEF IInv, OneResult
  <2>3. OneResult'
    BY <1>1, <2>1, <2>2 DEF OneResult
  <2>4. ResultIsRecorded'
    BY <1>1, <1>4, <2>1 DEF ResultIsRecorded
  <2> QED
    BY <1>2, <1>3, <2>3, <2>4 DEF HubInv
<1>5. CASE ~IsResult(c)
  <2>1. c.intent # "result" /\ UNCHANGED <<task, result>>
    BY <1>5, CallFacts DEF CarryOut
  <2>2. OneResult'
    BY <1>1, <2>1 DEF IInv, OneResult
  <2>3. ResultIsRecorded'
    BY <1>1, <2>1 DEF IInv, ResultIsRecorded, Recorded, IsResult, ResultCalls, NoCall
  <2> QED
    BY <1>2, <1>3, <2>2, <2>3 DEF HubInv
<1> QED
  BY <1>4, <1>5

(* Every step keeps the ledger, its effects and the result together.        *)
LEMMA HubStep == IInv /\ [Next]_vars => HubInv'
<1> SUFFICES ASSUME IInv, [Next]_vars PROVE HubInv'
  OBVIOUS
<1> USE DEF IInv, HubInv, RecordedWasSent, TaskCallHasTask, EffectOnce, OneResult,
            ResultIsRecorded, Recorded
<1>1. ASSUME NEW c \in Calls, Call(c) PROVE HubInv'
  <2>1. PICK op \in Ops : /\ sent' = sent \cup {<<op, c>>}
                          /\ c # CheckInCall => task # "none"
                          /\ UNCHANGED hub
    BY <1>1, CallEffect
  <2> QED
    BY <2>1 DEF hub
<1>2. ASSUME NEW op \in Ops, NEW c \in Calls, Serve(<<op, c>>) PROVE HubInv'
  <2>1. CASE UNCHANGED hub
    BY <1>2, <2>1, ServeEffect DEF hub
  <2>2. CASE ~Recorded(op) /\ Allowed(c) /\ CarryOut(op, c)
    BY <1>2, <2>2, ServeEffect, CarryOutKeepsHub
  <2> QED
    BY <1>2, <2>1, <2>2, ServeEffect
<1>3. CASE GiveUp \/ AssignTask \/ CancelTask \/ LoseAgent \/ UNCHANGED vars
  BY <1>3, OtherEffect
<1> QED
  BY <1>1, <1>2, <1>3, StepCases

AnswerInv == RefusedIsOver /\ AnswersAreTrue /\ RefusedIsNewer

(* A refused task call stays refused: its task stays over, so neither its   *)
(* operation nor a newer result is ever recorded.                           *)
LEMMA AnswerStep == IInv /\ [Next]_vars => AnswerInv'
<1> SUFFICES ASSUME IInv, [Next]_vars PROVE AnswerInv'
  OBVIOUS
<1> USE DEF AnswerInv, AnswersAreTrue, Recorded
<1>1. ASSUME NEW c \in Calls, Call(c) PROVE AnswerInv'
  <2>1. PICK op \in Ops :
          /\ sent' = sent \cup {<<op, c>>}
          /\ \/ <<op, c>> \in sent
             \/ op = minted + 1
          /\ UNCHANGED <<answers, task, ledger>>
    BY <1>1, CallEffect DEF hub
  <2>2. \A a \in answers : a[1] # minted + 1
    BY LedgerAssumption DEF IInv, MintedFirst, TypeOK, Ops
  <2>3. RefusedIsOver' /\ AnswersAreTrue'
    BY <2>1 DEF IInv, RefusedIsOver
  <2>4. RefusedIsNewer'
    BY <2>1, <2>2 DEF IInv, RefusedIsNewer
  <2> QED
    BY <2>3, <2>4
<1>2. ASSUME NEW op \in Ops, NEW c \in Calls, Serve(<<op, c>>) PROVE AnswerInv'
  <2>1. ASSUME NEW a \in answers, a[2] = "conflict", <<a[1], CheckInCall>> \notin sent
        PROVE  ~Recorded(a[1])' /\ task' = "ended"
    <3>1. ~Recorded(a[1]) /\ task = "ended"
      BY <2>1 DEF IInv, RefusedIsOver
    <3>2. CASE UNCHANGED hub
      BY <3>1, <3>2 DEF hub
    <3>3. CASE Allowed(c) /\ CarryOut(op, c) /\ <<op, c>> \in sent
      <4>1. c = CheckInCall /\ a[1] # op /\ task' = "ended"
        BY <2>1, <3>1, <3>3 DEF Allowed, CarryOut
      <4> QED
        BY <3>1, <3>3, <4>1 DEF CarryOut, IInv, TypeOK
    <3> QED
      BY <1>2, <3>2, <3>3, ServeEffect
  <2>2. \A o \in Ops : Recorded(o) => Recorded(o)'
    <3>1. CASE UNCHANGED hub
      BY <3>1 DEF hub
    <3>2. CASE CarryOut(op, c)
      BY <3>2, CallFacts DEF CarryOut, IInv, TypeOK
    <3> QED
      BY <1>2, <3>1, <3>2, ServeEffect
  <2>3. ASSUME NEW a \in answers', a \notin answers
        PROVE  /\ a[1] = op /\ calling = <<op, c>>
               /\ a[2] = "ok" => Recorded(op)'
               /\ a[2] = "conflict" /\ c # CheckInCall =>
                    ~Recorded(op)' /\ task' = "ended" /\ UNCHANGED hub
    BY <1>2, <2>3, ServeEffect DEF client, hub
  <2>4. <<op, c>> \in sent /\ UNCHANGED sent /\ answers \subseteq Ops \X Replies
    BY <1>2, ServeEffect DEF IInv, TypeOK
  <2>5. RefusedIsOver'
    BY <2>1, <2>3, <2>4 DEF RefusedIsOver
  <2>6. AnswersAreTrue'
    BY <2>1, <2>2, <2>3, <2>4 DEF IInv
  <2>7. ASSUME NEW a \in answers', NEW d \in ResultCalls, NEW o \in Ops,
               a[2] = "conflict", <<a[1], d>> \in sent, IsResult(ledger'[o])
        PROVE  o < a[1]
    <3>1. d # CheckInCall /\ <<a[1], CheckInCall>> \notin sent
      BY <2>7, CallFacts DEF IInv, OneCallPerOperation
    <3>2. CASE a \in answers
      <4>1. ~Recorded(a[1])' /\ task = "ended"
        BY <2>1, <2>7, <3>1, <3>2 DEF IInv, RefusedIsOver
      <4>2. IsResult(ledger[o])
        <5>1. CASE UNCHANGED hub
          BY <2>7, <5>1 DEF hub
        <5>2. CASE Allowed(c) /\ CarryOut(op, c)
          <6>1. ~IsResult(c)
            BY <4>1, <5>2, CallFacts DEF Allowed, IsResult
          <6> QED
            BY <2>7, <5>2, <6>1 DEF CarryOut, IInv, TypeOK
        <5> QED
          BY <1>2, <5>1, <5>2, ServeEffect
      <4> QED
        BY <2>7, <3>2, <4>2 DEF IInv, RefusedIsNewer
    <3>3. CASE a \notin answers
      <4>1. d = c /\ a[1] = op
        BY <2>3, <2>4, <2>7, <3>3 DEF IInv, OneCallPerOperation
      <4>2. c # CheckInCall /\ IsResult(c) /\ calling = <<op, c>>
        BY <2>3, <3>1, <3>3, <4>1 DEF IsResult
      <4>3. UNCHANGED hub /\ ~Recorded(op)'
        BY <2>3, <2>7, <3>3, <4>2
      <4>4. IsResult(ledger[o]) /\ Recorded(o) /\ o # op
        BY <2>7, <4>3, CallFacts DEF hub, IsResult
      <4>5. <<o, ledger[o]>> \in sent
        BY <4>4 DEF IInv, RecordedWasSent
      <4>6. o <= pending["result"].op /\ op = pending["result"].op
        BY <4>2, <4>4, <4>5 DEF IInv, PendingIsNewestResult
      <4> QED
        BY <4>1, <4>4, <4>6 DEF Ops
    <3> QED
      BY <3>2, <3>3
  <2>8. RefusedIsNewer'
    BY <2>4, <2>7 DEF RefusedIsNewer
  <2> QED
    BY <2>5, <2>6, <2>8
<1>3. CASE GiveUp \/ AssignTask \/ CancelTask \/ LoseAgent \/ UNCHANGED vars
  BY <1>3, OtherEffect DEF IInv, RefusedIsOver, RefusedIsNewer
<1> QED
  BY <1>1, <1>2, <1>3, StepCases

(* IInv is an inductive invariant of the ledger and its client.             *)
LEMMA InductiveInvariant == Spec => []IInv
<1>1. Init => IInv
  BY InitIInv
<1>2. IInv /\ [Next]_vars => IInv'
  BY TypeStep, ClientStep, HubStep, AnswerStep
     DEF IInv, ClientInv, HubInv, AnswerInv
<1> QED
  BY <1>1, <1>2, PTL DEF Spec

----------------------------------------------------------------------------
(* What the ledger guarantees *)

(* The tables, the network and the client hold values of their types.       *)
THEOREM TypeCorrect == Spec => []TypeOK
<1>1. IInv => TypeOK
  BY DEF IInv
<1> QED
  BY <1>1, InductiveInvariant, PTL

(* However often a request is repeated, and however late a copy of it       *)
(* arrives, its message and event are written once.                         *)
THEOREM EffectsOnce == Spec => []EffectOnce
<1>1. IInv => EffectOnce
  BY DEF IInv
<1> QED
  BY <1>1, InductiveInvariant, PTL

(* submit_result takes one result per task, and it stands.                  *)
THEOREM OneResultStands == Spec => []OneResult
<1>1. IInv => OneResult
  BY DEF IInv
<1> QED
  BY <1>1, InductiveInvariant, PTL

(* The client never reuses an operation id for another payload.             *)
THEOREM OperationNamesOneCall == Spec => []OneCallPerOperation
<1>1. IInv => OneCallPerOperation
  BY DEF IInv
<1> QED
  BY <1>1, InductiveInvariant, PTL

(* A worker told "ok" was heard, and a task call refused as too late was    *)
(* not carried out and never will be.                                       *)
THEOREM RepliesAreTrue == Spec => [](AnswersAreTrue /\ RefusedIsOver)
<1>1. IInv => AnswersAreTrue /\ RefusedIsOver
  BY DEF IInv
<1> QED
  BY <1>1, InductiveInvariant, PTL

(* The retry of an applied result is refused only to a worker that sent a   *)
(* different result in between.                                             *)
THEOREM RetryIsRecognised == Spec => []ResubmissionIsRecognised
<1>1. ASSUME IInv, NEW a \in answers, NEW c \in ResultCalls,
             a[2] = "conflict", <<a[1], c>> \in sent, result = c.payload
      PROVE  \E r \in sent : r[2] \in ResultCalls \ {c} /\ r[1] < a[1]
  <2>1. result # "none"
    BY <1>1, CallFacts, LedgerAssumption
  <2>2. PICK op \in Ops : IsResult(ledger[op]) /\ ledger[op].payload = result
    BY <1>1, <2>1 DEF IInv, ResultIsRecorded
  <2>3. ledger[op] = c
    BY <1>1, <2>2, CallFacts DEF IsResult
  <2>4. <<op, c>> \in sent
    BY <1>1, <2>3, CallFacts DEF IInv, RecordedWasSent, Recorded
  <2>5. op < a[1]
    BY <1>1, <2>2 DEF IInv, RefusedIsNewer
  <2> QED
    BY <1>1, <2>4, <2>5 DEF IInv, ChangedItsMind, IsResult
<1>2. IInv => ResubmissionIsRecognised
  BY <1>1 DEF ResubmissionIsRecognised
<1> QED
  BY <1>2, InductiveInvariant, PTL

=============================================================================
