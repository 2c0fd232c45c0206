----------------------------- MODULE EventInbox -----------------------------
(***************************************************************************)
(* The event table of HubStore as Alice's inbox: append_event, the leasing *)
(* wait_for_event with its implicit ack, and the Alice session that acts   *)
(* on one event at a time and acks it with her next call.                  *)
(*                                                                         *)
(* A delivery lease runs out at an unknown moment (Expire): its length,    *)
(* the length of Alice's action and the clock are abstracted to that.      *)
(* A wait that the client gave up on stays held in the hub until its       *)
(* deadline and may lease an event nobody will see.  When Alice's session  *)
(* dies the hub, its MCP child, dies with it: the table survives, the held *)
(* waits and the id in her hand do not.                                    *)
(***************************************************************************)
EXTENDS Naturals, FiniteSets

CONSTANTS
    MaxEvents,     \* bound: events ever queued
    DeliveryIds,   \* the pool uuid4 draws from
    MaxAbandoned,  \* bound: waits the client gives up on
    MaxCrashes,    \* bound: deaths of Alice's session
    NoDelivery     \* NULL

ASSUME InboxAssumption ==
    /\ MaxEvents \in Nat
    /\ MaxAbandoned \in Nat
    /\ MaxCrashes \in Nat
    /\ NoDelivery \notin DeliveryIds

Events == 1..MaxEvents

VARIABLES
    appended,    \* the newest event id
    eventState,  \* event.state; "none" before the row exists
    deliveryId,  \* event.delivery_id
    due,         \* event.delivery_expires <= now
    alice,       \* her session: "ready", "waiting" in a call, "acting"
    hand,        \* the delivery_id she will ack next
    acting,      \* the event she is acting on or has just acted on; 0: none
    handled,     \* events she has acted on at least once
    orphans,     \* held waits without a client
    abandoned,   \* how many waits were abandoned
    crashes      \* how often her session died

rows == <<appended, eventState, deliveryId, due>>
session == <<alice, hand, acting>>
vars == <<rows, session, handled, orphans, abandoned, crashes>>

Init ==
    /\ appended = 0
    /\ eventState = [e \in Events |-> "none"]
    /\ deliveryId = [e \in Events |-> NoDelivery]
    /\ due = [e \in Events |-> FALSE]
    /\ alice = "ready"
    /\ hand = NoDelivery
    /\ acting = 0
    /\ handled = {}
    /\ orphans = 0
    /\ abandoned = 0
    /\ crashes = 0

----------------------------------------------------------------------------
(* The event table *)

AppendEvent ==
    /\ appended < MaxEvents
    /\ appended' = appended + 1
    /\ eventState' = [eventState EXCEPT ![appended + 1] = "queued"]
    /\ UNCHANGED <<deliveryId, due, session, handled, orphans, abandoned, crashes>>

(* state = 'queued' OR (state = 'delivered' AND delivery_expires <= now)    *)
Eligible ==
    {e \in Events : \/ eventState[e] = "queued"
                    \/ eventState[e] = "delivered" /\ due[e]}

(* Fault: any eligible event, not the oldest.                               *)
Oldest_Any(S, e) == e \in S

(* ORDER BY id ASC LIMIT 1                                                  *)
Oldest(S, e) == e \in S /\ \A f \in S : e <= f

(* uuid4: an id no row and no session still knows.                          *)
Fresh(d) == d # hand /\ \A e \in Events : d # deliveryId[e]

(* lease_next_event returns e under the new delivery id d.                  *)
LeaseNext(e, d) ==
    /\ Oldest(Eligible, e)
    /\ Fresh(d)
    /\ eventState' = [eventState EXCEPT ![e] = "delivered"]
    /\ deliveryId' = [deliveryId EXCEPT ![e] = d]
    /\ due' = [due EXCEPT ![e] = FALSE]
    /\ UNCHANGED appended

(* Fault: an ack after the lease ran out is refused.                        *)
Acknowledges_InTime(d, e) == eventState[e] = "delivered" /\ deliveryId[e] = d /\ ~due[e]

(* Fault: a delivery counts as the acknowledgement of every older one.      *)
Acknowledges_Prefix(d, e) ==
    \E f \in Events : f >= e /\ eventState[e] = "delivered" /\ deliveryId[f] = d

(* ack_event finds the delivered event that has this delivery id, expired   *)
(* or not.                                                                  *)
Acknowledges(d, e) == eventState[e] = "delivered" /\ deliveryId[e] = d

----------------------------------------------------------------------------
(* Alice's calls *)

(* wait_for_event(ack=hand): the ack is applied before the wait begins.     *)
WaitForEvent ==
    /\ alice = "ready"
    /\ eventState' = [e \in Events |->
                        IF hand # NoDelivery /\ Acknowledges(hand, e)
                        THEN "acked" ELSE eventState[e]]
    /\ alice' = "waiting"
    /\ hand' = NoDelivery
    /\ acting' = 0
    /\ UNCHANGED <<appended, deliveryId, due, handled, orphans, abandoned, crashes>>

(* The wait polls, and its answer names the event and its delivery.         *)
Deliver(e, d) ==
    /\ alice = "waiting"
    /\ LeaseNext(e, d)
    /\ alice' = "acting"
    /\ hand' = d
    /\ acting' = e
    /\ UNCHANGED <<handled, orphans, abandoned, crashes>>

(* The wait polls before it looks at its deadline, so it gives up only with *)
(* nothing to deliver.                                                      *)
TimeOut ==
    /\ alice = "waiting"
    /\ Eligible = {}
    /\ alice' = "ready"
    /\ UNCHANGED <<rows, hand, acting, handled, orphans, abandoned, crashes>>

(* She finishes what the event calls for; the ack comes with her next call. *)
Act ==
    /\ alice = "acting"
    /\ alice' = "ready"
    /\ handled' = handled \cup {acting}
    /\ UNCHANGED <<rows, hand, acting, orphans, abandoned, crashes>>

----------------------------------------------------------------------------
(* Failures and time *)

(* The client gives up on a held wait and is free to call again.            *)
AbandonWait ==
    /\ alice = "waiting"
    /\ abandoned < MaxAbandoned
    /\ alice' = "ready"
    /\ orphans' = orphans + 1
    /\ abandoned' = abandoned + 1
    /\ UNCHANGED <<rows, hand, acting, handled, crashes>>

(* The abandoned wait leases an event and answers nobody.                   *)
DeliverToNobody(e, d) ==
    /\ orphans > 0
    /\ LeaseNext(e, d)
    /\ orphans' = orphans - 1
    /\ UNCHANGED <<session, handled, abandoned, crashes>>

OrphanTimesOut ==
    /\ orphans > 0
    /\ Eligible = {}
    /\ orphans' = orphans - 1
    /\ UNCHANGED <<rows, session, handled, abandoned, crashes>>

(* Alice's session and the hub die and are started again on the same file.  *)
Crash ==
    /\ crashes < MaxCrashes
    /\ crashes' = crashes + 1
    /\ alice' = "ready"
    /\ hand' = NoDelivery
    /\ acting' = 0
    /\ orphans' = 0
    /\ UNCHANGED <<rows, handled, abandoned>>

(* delivery_expires passes; nothing but time does this.  An acked row keeps *)
(* its delivery_expires, which passes as well.                              *)
Expire(e) ==
    /\ eventState[e] \in {"delivered", "acked"}
    /\ ~due[e]
    /\ due' = [due EXCEPT ![e] = TRUE]
    /\ UNCHANGED <<appended, eventState, deliveryId, session, handled, orphans,
                   abandoned, crashes>>

----------------------------------------------------------------------------
Next ==
    \/ AppendEvent
    \/ WaitForEvent
    \/ \E e \in Events, d \in DeliveryIds : Deliver(e, d) \/ DeliverToNobody(e, d)
    \/ TimeOut
    \/ Act
    \/ AbandonWait
    \/ OrphanTimesOut
    \/ Crash
    \/ \E e \in Events : Expire(e)

(* A live Alice keeps calling and finishes her actions, the hub serves a    *)
(* held wait, and time passes.  Nothing makes events come, or leases last.  *)
Fairness ==
    /\ WF_vars(WaitForEvent)
    /\ WF_vars(\E e \in Events, d \in DeliveryIds : Deliver(e, d))
    /\ WF_vars(Act)
    /\ \A e \in Events : WF_vars(Expire(e))

Spec == Init /\ [][Next]_vars
FairSpec == Spec /\ Fairness

----------------------------------------------------------------------------
(* Properties *)

(* Every variable holds a value of its type.                                *)
TypeOK ==
    /\ appended \in 0..MaxEvents
    /\ eventState \in [Events -> {"none", "queued", "delivered", "acked"}]
    /\ deliveryId \in [Events -> DeliveryIds \cup {NoDelivery}]
    /\ due \in [Events -> BOOLEAN]
    /\ alice \in {"ready", "waiting", "acting"}
    /\ hand \in DeliveryIds \cup {NoDelivery}
    /\ acting \in 0..MaxEvents
    /\ handled \subseteq Events
    /\ orphans \in 0..MaxAbandoned
    /\ abandoned \in 0..MaxAbandoned
    /\ crashes \in 0..MaxCrashes

(* The spec's "expired-delivered before queued": an event is delivered for  *)
(* the first time only after every older one was, so what has ever been     *)
(* delivered is a prefix of the queue, through crashes and orphaned waits.  *)
DeliveredIsPrefix ==
    \A e, f \in Events :
        e < f /\ eventState[f] \in {"delivered", "acked"}
            => eventState[e] \in {"delivered", "acked"}

(* The id in Alice's hand either names the delivery of the very event she   *)
(* is acting on, or names none: a stale id never reaches a newer delivery   *)
(* or another event.                                                        *)
HandNamesItsEvent ==
    \A e \in Events : hand # NoDelivery /\ deliveryId[e] = hand => e = acting

(* Only Alice's ack settles an event, and only one she acted on; a settled  *)
(* event is never leased again.                                             *)
OnlyHandledIsSettled ==
    [][\A e \in Events :
        /\ eventState[e] = "acked" => UNCHANGED <<eventState[e], deliveryId[e]>>
        /\ eventState'[e] = "acked" /\ eventState[e] # "acked"
             => e \in handled /\ alice = "ready" /\ e = acting]_vars

(* The table with its leases implements the abstract inbox, liveness        *)
(* included: every queued event is handled and then acknowledged, though    *)
(* Alice may always need longer than the lease (issue 50), may crash, and   *)
(* may lose deliveries.                                                     *)
I == INSTANCE Inbox WITH
        settled <- {e \in Events : eventState[e] = "acked"}

ImplementsInbox == I!Spec

=============================================================================
