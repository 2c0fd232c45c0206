-------------------------- MODULE EventInbox_proofs --------------------------
(***************************************************************************)
(* Theorems about EventInbox for any number of events, any pool of         *)
(* delivery ids, and any number of abandoned waits and crashes; among them *)
(* that the table of leased deliveries implements the abstract inbox step  *)
(* by step.                                                                *)
(***************************************************************************)
EXTENDS EventInbox, TLAPS

Leased(e) == eventState[e] \in {"delivered", "acked"}

(* append_event gives the ids out in order, and the rows in use are exactly *)
(* the events appended.                                                     *)
RowsInOrder == \A e \in Events : eventState[e] = "none" <=> e > appended

(* Only a row that was leased carries a delivery id, and no two rows carry  *)
(* the same one.                                                            *)
IdsAreUnique ==
    \A e, f \in Events :
        /\ deliveryId[e] # NoDelivery => Leased(e)
        /\ deliveryId[e] = deliveryId[f] /\ deliveryId[e] # NoDelivery => e = f

(* What Alice's session knows: in a call she holds no id, while she acts    *)
(* her event is still unsettled, and an id she is about to ack is that of   *)
(* an event she has acted on.                                               *)
SessionKnows ==
    /\ alice = "waiting" => hand = NoDelivery
    /\ alice = "acting" => acting \in Events /\ eventState[acting] = "delivered"
    /\ alice = "ready" /\ hand # NoDelivery => acting \in handled

(* Every held wait without a client is one that a client abandoned.         *)
OrphansWereAbandoned == orphans <= abandoned

IInv ==
    /\ TypeOK
    /\ OrphansWereAbandoned
    /\ RowsInOrder
    /\ DeliveredIsPrefix
    /\ IdsAreUnique
    /\ HandNamesItsEvent
    /\ SessionKnows

----------------------------------------------------------------------------
(* Types *)

(* The empty table and the fresh session satisfy the inductive invariant.   *)
LEMMA InitIInv == Init => IInv
  BY InboxAssumption
     DEF Init, IInv, TypeOK, OrphansWereAbandoned, RowsInOrder, DeliveredIsPrefix,
         IdsAreUnique, HandNamesItsEvent, SessionKnows, Leased, Events

(* Every operation keeps the table and the session well typed; the bound on *)
(* the held waits needs that each of them was abandoned, and the set of     *)
(* handled events that a session only acts on an event it was given.        *)
LEMMA TypeStep == IInv /\ [Next]_vars => TypeOK' /\ OrphansWereAbandoned'
<1> SUFFICES ASSUME IInv, [Next]_vars
             PROVE  TypeOK' /\ OrphansWereAbandoned'
  OBVIOUS
<1> USE InboxAssumption DEF IInv, TypeOK, OrphansWereAbandoned, Events, rows, session
<1>1. CASE AppendEvent
  BY <1>1 DEF AppendEvent
<1>2. CASE WaitForEvent
  BY <1>2 DEF WaitForEvent
<1>3. ASSUME NEW e \in Events, NEW d \in DeliveryIds, Deliver(e, d)
      PROVE  TypeOK' /\ OrphansWereAbandoned'
  BY <1>3 DEF Deliver, LeaseNext
<1>4. ASSUME NEW e \in Events, NEW d \in DeliveryIds, DeliverToNobody(e, d)
      PROVE  TypeOK' /\ OrphansWereAbandoned'
  BY <1>4 DEF DeliverToNobody, LeaseNext
<1>5. CASE TimeOut
  BY <1>5 DEF TimeOut
<1>6. CASE Act
  BY <1>6 DEF Act, SessionKnows
<1>7. CASE AbandonWait
  BY <1>7 DEF AbandonWait
<1>8. CASE OrphanTimesOut
  BY <1>8 DEF OrphanTimesOut
<1>9. CASE Crash
  BY <1>9 DEF Crash
<1>10. ASSUME NEW e \in Events, Expire(e)
       PROVE  TypeOK' /\ OrphansWereAbandoned'
  BY <1>10 DEF Expire
<1>11. CASE UNCHANGED vars
  BY <1>11 DEF vars
<1> QED
  BY <1>1, <1>2, <1>3, <1>4, <1>5, <1>6, <1>7, <1>8, <1>9, <1>10, <1>11 DEF Next

----------------------------------------------------------------------------
(* The rows of the table *)

TableInv == RowsInOrder /\ DeliveredIsPrefix /\ IdsAreUnique

(* A lease takes the oldest eligible event under a new id: what was leased  *)
(* stays a prefix, the ids stay unique, and an acked row is left alone.     *)
LEMMA LeaseKeepsTable ==
  ASSUME IInv, NEW e \in Events, NEW d \in DeliveryIds, LeaseNext(e, d)
  PROVE  /\ TableInv'
         /\ eventState[e] \in {"queued", "delivered"}
         /\ \A f \in Events :
              /\ eventState'[f] = IF f = e THEN "delivered" ELSE eventState[f]
              /\ deliveryId'[f] = IF f = e THEN d ELSE deliveryId[f]
<1>1. /\ eventState[e] \in {"queued", "delivered"}
      /\ \A f \in Events : eventState[f] = "queued" => e <= f
  BY DEF LeaseNext, Oldest, Eligible
<1>2. \A f \in Events :
        /\ eventState'[f] = IF f = e THEN "delivered" ELSE eventState[f]
        /\ deliveryId'[f] = IF f = e THEN d ELSE deliveryId[f]
  BY DEF LeaseNext, IInv, TypeOK
<1>3. RowsInOrder'
  BY <1>1, <1>2 DEF IInv, RowsInOrder, LeaseNext
<1>4. DeliveredIsPrefix'
  <2> SUFFICES ASSUME NEW f \in Events, NEW g \in Events, f < g, Leased(g)'
               PROVE  Leased(f)'
    BY DEF DeliveredIsPrefix, Leased
  <2>1. CASE f = e
    BY <1>2, <2>1 DEF Leased
  <2>2. CASE g = e /\ f # e
    <3>1. eventState[f] # "queued" /\ eventState[f] # "none"
      BY <1>1, <2>2, InboxAssumption DEF IInv, TypeOK, RowsInOrder, Events
    <3> QED
      BY <1>2, <2>2, <3>1 DEF Leased, IInv, TypeOK
  <2>3. CASE f # e /\ g # e
    BY <1>2, <2>3 DEF Leased, IInv, DeliveredIsPrefix
  <2> QED
    BY <2>1, <2>2, <2>3
<1>5. IdsAreUnique'
  BY <1>2, InboxAssumption DEF IInv, IdsAreUnique, Leased, LeaseNext, Fresh
<1> QED
  BY <1>1, <1>2, <1>3, <1>4, <1>5 DEF TableInv

(* Alice's ack settles at most the event she has just acted on, and leaves  *)
(* every other row alone.                                                   *)
LEMMA AckSettlesActing ==
  ASSUME IInv, WaitForEvent
  PROVE  /\ \A e \in Events :
              \/ eventState'[e] = eventState[e]
              \/ /\ eventState[e] = "delivered" /\ eventState'[e] = "acked"
                 /\ e = acting /\ acting \in handled
         /\ UNCHANGED <<appended, deliveryId>>
  BY DEF WaitForEvent, Acknowledges, IInv, HandNamesItsEvent, SessionKnows

(* Every operation keeps the rows in order and their ids apart.             *)
LEMMA TableStep == IInv /\ [Next]_vars => TableInv'
<1> SUFFICES ASSUME IInv, [Next]_vars PROVE TableInv'
  OBVIOUS
<1> USE DEF rows, session
<1>1. CASE AppendEvent
  <2>1. \A e \in Events :
          eventState'[e] = IF e = appended + 1 THEN "queued" ELSE eventState[e]
    BY <1>1 DEF AppendEvent, IInv, TypeOK
  <2>2. appended + 1 \in Events /\ eventState[appended + 1] = "none"
    BY <1>1, InboxAssumption DEF AppendEvent, IInv, TypeOK, RowsInOrder, Events
  <2>3. RowsInOrder'
    BY <1>1, <2>1, <2>2, InboxAssumption
       DEF AppendEvent, IInv, TypeOK, RowsInOrder, Events
  <2>4. DeliveredIsPrefix'
    BY <2>1, <2>2 DEF IInv, DeliveredIsPrefix
  <2>5. IdsAreUnique'
    BY <1>1, <2>1, <2>2 DEF AppendEvent, IInv, IdsAreUnique, Leased
  <2> QED
    BY <2>3, <2>4, <2>5 DEF TableInv
<1>2. CASE WaitForEvent
  BY <1>2, AckSettlesActing
     DEF IInv, TableInv, RowsInOrder, DeliveredIsPrefix, IdsAreUnique, Leased
<1>3. ASSUME NEW e \in Events, NEW d \in DeliveryIds,
             Deliver(e, d) \/ DeliverToNobody(e, d)
      PROVE  TableInv'
  BY <1>3, LeaseKeepsTable DEF Deliver, DeliverToNobody
<1>4. ASSUME UNCHANGED <<appended, eventState, deliveryId>>
      PROVE  TableInv'
  BY <1>4 DEF IInv, TableInv, RowsInOrder, DeliveredIsPrefix, IdsAreUnique, Leased
<1>5. CASE TimeOut \/ Act \/ AbandonWait \/ OrphanTimesOut \/ Crash
           \/ (\E e \in Events : Expire(e)) \/ UNCHANGED vars
  BY <1>4, <1>5 DEF TimeOut, Act, AbandonWait, OrphanTimesOut, Crash, Expire, vars
<1> QED
  BY <1>1, <1>2, <1>3, <1>5 DEF Next

----------------------------------------------------------------------------
(* Alice's session *)

(* Every operation keeps the id in Alice's hand that of the event she is    *)
(* acting on or has just acted on.                                          *)
LEMMA SessionStep == IInv /\ [Next]_vars => HandNamesItsEvent' /\ SessionKnows'
<1> SUFFICES ASSUME IInv, [Next]_vars
             PROVE  HandNamesItsEvent' /\ SessionKnows'
  OBVIOUS
<1> USE InboxAssumption
    DEF IInv, TypeOK, HandNamesItsEvent, SessionKnows, rows, session
<1>1. CASE AppendEvent
  <2>1. \A e \in Events :
          eventState'[e] = IF e = appended + 1 THEN "queued" ELSE eventState[e]
    BY <1>1 DEF AppendEvent
  <2>2. \A e \in Events : eventState[e] = "delivered" => e # appended + 1
    BY DEF RowsInOrder, Events
  <2> QED
    BY <1>1, <2>1, <2>2 DEF AppendEvent
<1>2. CASE WaitForEvent
  BY <1>2 DEF WaitForEvent
<1>3. ASSUME NEW e \in Events, NEW d \in DeliveryIds, Deliver(e, d)
      PROVE  HandNamesItsEvent' /\ SessionKnows'
  <2>1. /\ eventState'[e] = "delivered"
        /\ \A f \in Events : deliveryId'[f] = d => f = e
    BY <1>3, LeaseKeepsTable DEF Deliver, LeaseNext, Fresh
  <2> QED
    BY <1>3, <2>1 DEF Deliver
<1>4. ASSUME NEW e \in Events, NEW d \in DeliveryIds, DeliverToNobody(e, d)
      PROVE  HandNamesItsEvent' /\ SessionKnows'
  <2>1. /\ d # hand
        /\ \A f \in Events : /\ deliveryId'[f] = IF f = e THEN d ELSE deliveryId[f]
                             /\ eventState[f] = "delivered" => eventState'[f] = "delivered"
    BY <1>4, LeaseKeepsTable DEF DeliverToNobody, LeaseNext, Fresh
  <2> QED
    BY <1>4, <2>1 DEF DeliverToNobody
<1>5. CASE TimeOut
  BY <1>5 DEF TimeOut
<1>6. CASE Act
  BY <1>6 DEF Act
<1>7. CASE AbandonWait
  BY <1>7 DEF AbandonWait
<1>8. CASE OrphanTimesOut
  BY <1>8 DEF OrphanTimesOut
<1>9. CASE Crash
  BY <1>9 DEF Crash
<1>10. ASSUME NEW e \in Events, Expire(e)
       PROVE  HandNamesItsEvent' /\ SessionKnows'
  BY <1>10 DEF Expire
<1>11. CASE UNCHANGED vars
  BY <1>11 DEF vars
<1> QED
  BY <1>1, <1>2, <1>3, <1>4, <1>5, <1>6, <1>7, <1>8, <1>9, <1>10, <1>11 DEF Next

(* IInv is an inductive invariant of the inbox.                             *)
LEMMA InductiveInvariant == Spec => []IInv
<1>1. Init => IInv
  BY InitIInv
<1>2. IInv /\ [Next]_vars => IInv'
  BY TypeStep, TableStep, SessionStep DEF IInv, TableInv
<1> QED
  BY <1>1, <1>2, PTL DEF Spec

----------------------------------------------------------------------------
(* What the inbox guarantees *)

(* The table, the session and the held waits hold values of their types.    *)
THEOREM TypeCorrect == Spec => []TypeOK
<1>1. IInv => TypeOK
  BY DEF IInv
<1> QED
  BY <1>1, InductiveInvariant, PTL

(* wait_for_event hands a new event out only after every older one, so what *)
(* was ever delivered is a prefix of the queue, through crashes and waits   *)
(* that lease an event for nobody.                                          *)
THEOREM DeliveryInOrder == Spec => []DeliveredIsPrefix
<1>1. IInv => DeliveredIsPrefix
  BY DEF IInv
<1> QED
  BY <1>1, InductiveInvariant, PTL

(* A stale delivery id never names a newer delivery or another event, so    *)
(* the implicit ack of wait_for_event cannot settle the wrong event.        *)
THEOREM AckNamesItsEvent == Spec => []HandNamesItsEvent
<1>1. IInv => HandNamesItsEvent
  BY DEF IInv
<1> QED
  BY <1>1, InductiveInvariant, PTL

(* ack_event settles only the event Alice has just acted on, and a settled  *)
(* row is never leased or written again.                                    *)
THEOREM SettledOnlyByHandling == Spec => OnlyHandledIsSettled
<1> DEFINE SettleStep(e) ==
      /\ eventState[e] = "acked" => UNCHANGED <<eventState[e], deliveryId[e]>>
      /\ eventState'[e] = "acked" /\ eventState[e] # "acked"
           => e \in handled /\ alice = "ready" /\ e = acting
<1>1. ASSUME IInv, [Next]_vars, NEW e \in Events
      PROVE  SettleStep(e)
  <2> USE DEF rows, session
  <2>1. CASE AppendEvent
    <3>1. appended + 1 \in Events /\ eventState[appended + 1] = "none"
      BY <1>1, <2>1, InboxAssumption
         DEF AppendEvent, IInv, TypeOK, RowsInOrder, Events
    <3> QED
      BY <1>1, <2>1, <3>1 DEF AppendEvent, IInv, TypeOK
  <2>2. CASE WaitForEvent
    BY <1>1, <2>2, AckSettlesActing DEF WaitForEvent
  <2>3. ASSUME NEW f \in Events, NEW d \in DeliveryIds,
               Deliver(f, d) \/ DeliverToNobody(f, d)
        PROVE  SettleStep(e)
    BY <1>1, <2>3, LeaseKeepsTable DEF Deliver, DeliverToNobody
  <2>4. CASE UNCHANGED <<eventState, deliveryId>>
    BY <2>4
  <2> QED
    BY <1>1, <2>1, <2>2, <2>3, <2>4
       DEF Next, TimeOut, Act, AbandonWait, OrphanTimesOut, Crash, Expire, vars
<1>2. IInv /\ [Next]_vars => [\A e \in Events : SettleStep(e)]_vars
  BY <1>1
<1> QED
  BY <1>2, InductiveInvariant, PTL DEF Spec, OnlyHandledIsSettled

----------------------------------------------------------------------------
(* Refinement of Inbox *)

(* Each step of the table is a step of the abstract inbox or changes        *)
(* nothing it sees: an append is an Append, the end of an action a Handle,  *)
(* an ack that finds its delivery a Settle.  Leases, expiries, crashes and  *)
(* abandoned waits are invisible.                                           *)
LEMMA StepImplementsInbox == IInv /\ [Next]_vars => [I!Next]_(I!vars)
<1> SUFFICES ASSUME IInv, [Next]_vars PROVE [I!Next]_(I!vars)
  OBVIOUS
<1> DEFINE settled == {e \in Events : eventState[e] = "acked"}
<1> USE DEF rows, session
<1>1. CASE AppendEvent
  <2>1. appended + 1 \in Events /\ eventState[appended + 1] = "none"
    BY <1>1, InboxAssumption DEF AppendEvent, IInv, TypeOK, RowsInOrder, Events
  <2>2. settled' = settled
    BY <1>1, <2>1 DEF AppendEvent, IInv, TypeOK
  <2>3. I!Append
    BY <1>1, <2>2 DEF AppendEvent, I!Append
  <2> QED
    BY <2>3 DEF I!Next
<1>2. CASE WaitForEvent
  <2>1. CASE eventState' = eventState
    BY <1>2, <2>1 DEF WaitForEvent, I!vars
  <2>2. CASE eventState' # eventState
    <3>1. PICK e \in Events : eventState'[e] # eventState[e]
      BY <1>2, <2>2 DEF WaitForEvent, IInv, TypeOK
    <3>2. /\ e = acting /\ e \in handled
          /\ eventState[e] = "delivered" /\ eventState'[e] = "acked"
      BY <1>2, <3>1, AckSettlesActing
    <3>3. settled' = settled \cup {e} /\ e \notin settled
      BY <1>2, <3>2, AckSettlesActing
    <3>4. I!Settle(e)
      BY <1>2, <3>2, <3>3 DEF WaitForEvent, I!Settle
    <3> QED
      BY <3>4 DEF I!Next, Events
  <2> QED
    BY <2>1, <2>2
<1>3. ASSUME NEW e \in Events, NEW d \in DeliveryIds,
             Deliver(e, d) \/ DeliverToNobody(e, d)
      PROVE  UNCHANGED I!vars
  <2>1. LeaseNext(e, d) /\ UNCHANGED <<appended, handled>>
    BY <1>3 DEF Deliver, DeliverToNobody, LeaseNext
  <2>2. settled' = settled
    BY <2>1, LeaseKeepsTable
  <2> QED
    BY <2>1, <2>2 DEF I!vars
<1>4. CASE Act
  <2>1. acting \in (1..appended) \ settled
    BY <1>4, InboxAssumption DEF Act, IInv, TypeOK, SessionKnows, RowsInOrder, Events
  <2>2. I!Handle(acting)
    BY <1>4, <2>1 DEF Act, I!Handle
  <2>3. acting \in 1..MaxEvents
    BY <1>4 DEF Act, IInv, SessionKnows, Events
  <2> QED
    BY <2>2, <2>3 DEF I!Next
<1>5. CASE TimeOut \/ AbandonWait \/ OrphanTimesOut \/ Crash
           \/ (\E e \in Events : Expire(e)) \/ UNCHANGED vars
  BY <1>5 DEF TimeOut, AbandonWait, OrphanTimesOut, Crash, Expire, vars, I!vars
<1> QED
  BY <1>1, <1>2, <1>3, <1>4, <1>5 DEF Next

(* The safety part of ImplementsInbox: the event table with its leases,     *)
(* acks, expiries, crashes and orphaned waits is an implementation of the   *)
(* abstract inbox, whatever the number of events and of faults.             *)
THEOREM SafelyImplementsInbox == Spec => I!Init /\ [][I!Next]_(I!vars)
<1>1. Init => I!Init
  BY DEF Init, I!Init
<1>2. IInv /\ [Next]_vars => [I!Next]_(I!vars)
  BY StepImplementsInbox
<1> QED
  BY <1>1, <1>2, InductiveInvariant, PTL DEF Spec

==============================================================================
