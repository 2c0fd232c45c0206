-------------------------------- MODULE Inbox --------------------------------
(***************************************************************************)
(* What the event inbox promises Alice, without deliveries, leases or      *)
(* crashes: events are queued in order; each is handled at least once      *)
(* before it is acknowledged; an acknowledged event is settled for good;   *)
(* and every queued event is acknowledged in the end.                      *)
(***************************************************************************)
EXTENDS Naturals

CONSTANT MaxEvents   \* bound: events ever queued

VARIABLES
    appended,   \* events 1..appended have been queued
    handled,    \* the events Alice has acted on
    settled     \* the acknowledged events

vars == <<appended, handled, settled>>

Init ==
    /\ appended = 0
    /\ handled = {}
    /\ settled = {}

Append ==
    /\ appended < MaxEvents
    /\ appended' = appended + 1
    /\ UNCHANGED <<handled, settled>>

Handle(e) ==
    /\ e \in (1..appended) \ settled
    /\ handled' = handled \cup {e}
    /\ UNCHANGED <<appended, settled>>

Settle(e) ==
    /\ e \in handled \ settled
    /\ settled' = settled \cup {e}
    /\ UNCHANGED <<appended, handled>>

Next == Append \/ \E e \in 1..MaxEvents : Handle(e) \/ Settle(e)

Fairness == \A e \in 1..MaxEvents : WF_vars(Handle(e) /\ e \notin handled) /\ WF_vars(Settle(e))

Spec == Init /\ [][Next]_vars /\ Fairness

=============================================================================
