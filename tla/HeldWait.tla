------------------------------- MODULE HeldWait -------------------------------
(***************************************************************************)
(* HubStore._wait_for over Signals: held requests that sleep on an         *)
(* asyncio.Event instead of polling SQLite, and writers that wake them.    *)
(*                                                                         *)
(* A writer may run on another thread than the hub's loop, so its commit,  *)
(* its notify and the hop of each wakeup into the loop interleave with     *)
(* every step of a waiter.  All waiters here wait under one key and take   *)
(* what they find (a submitted task, an eligible event).                   *)
(***************************************************************************)
EXTENDS Naturals

CONSTANTS
    Waiters,    \* held requests under the key
    Writers,    \* threads that commit and notify
    MaxItems    \* bound: things to find ever committed

ASSUME WaitAssumption == MaxItems \in Nat

VARIABLES
    pc,          \* waiter: where in _wait_for; "found" or "empty": its outcome
    woken,       \* waiter -> its asyncio.Event is set
    deadline,    \* waiter -> its hold has elapsed
    subscribed,  \* Signals._waiters of the key
    hops,        \* wakeups scheduled into the loop, not yet run
    writer,      \* "idle" or "committed", the notify still to come
    available,   \* committed things a poll can find
    items        \* things ever committed

waitVars == <<pc, woken, deadline, subscribed, hops, writer, available, items>>

WaitInit ==
    /\ pc = [w \in Waiters |-> "out"]
    /\ woken = [w \in Waiters |-> FALSE]
    /\ deadline = [w \in Waiters |-> FALSE]
    /\ subscribed = {}
    /\ hops = {}
    /\ writer = [x \in Writers |-> "idle"]
    /\ available = 0
    /\ items = 0

----------------------------------------------------------------------------
(* Waiters *)

(* A request arrives: a new event is registered before anything is read.    *)
Subscribe(w) ==
    /\ pc[w] = "out"
    /\ pc' = [pc EXCEPT ![w] = "clear"]
    /\ subscribed' = subscribed \cup {w}
    /\ woken' = [woken EXCEPT ![w] = FALSE]
    /\ deadline' = [deadline EXCEPT ![w] = FALSE]
    /\ UNCHANGED <<hops, writer, available, items>>

Clear(w) ==
    /\ pc[w] = "clear"
    /\ woken' = [woken EXCEPT ![w] = FALSE]
    /\ pc' = [pc EXCEPT ![w] = "poll"]
    /\ UNCHANGED <<deadline, subscribed, hops, writer, available, items>>

(* Leaving the subscription discards the event and any wakeup under way.    *)
Leave(w, outcome) ==
    /\ pc' = [pc EXCEPT ![w] = outcome]
    /\ subscribed' = subscribed \ {w}
    /\ hops' = hops \ {w}

PollFinds(w) ==
    /\ pc[w] = "poll"
    /\ available > 0
    /\ available' = available - 1
    /\ Leave(w, "found")
    /\ UNCHANGED <<woken, deadline, writer, items>>

PollMisses(w) ==
    /\ pc[w] = "poll"
    /\ available = 0
    /\ pc' = [pc EXCEPT ![w] = "missed"]
    /\ UNCHANGED <<woken, deadline, subscribed, hops, writer, available, items>>

(* Fault: the event is cleared after the read.                              *)
Sleep_Clear(w) ==
    /\ pc[w] = "missed"
    /\ ~deadline[w]
    /\ woken' = [woken EXCEPT ![w] = FALSE]
    /\ pc' = [pc EXCEPT ![w] = "sleep"]
    /\ UNCHANGED <<deadline, subscribed, hops, writer, available, items>>

Sleep(w) ==
    /\ pc[w] = "missed"
    /\ ~deadline[w]
    /\ pc' = [pc EXCEPT ![w] = "sleep"]
    /\ UNCHANGED <<woken, deadline, subscribed, hops, writer, available, items>>

(* Only a read that found nothing ends the wait at its deadline.            *)
GiveUp(w) ==
    /\ pc[w] = "missed"
    /\ deadline[w]
    /\ Leave(w, "empty")
    /\ UNCHANGED <<woken, deadline, writer, available, items>>

WakeUp(w) ==
    /\ pc[w] = "sleep"
    /\ woken[w] \/ deadline[w]
    /\ pc' = [pc EXCEPT ![w] = "clear"]
    /\ UNCHANGED <<woken, deadline, subscribed, hops, writer, available, items>>

(* The worker, or Alice, calls again.                                       *)
CallAgain(w) ==
    /\ pc[w] \in {"found", "empty"}
    /\ pc' = [pc EXCEPT ![w] = "out"]
    /\ UNCHANGED <<woken, deadline, subscribed, hops, writer, available, items>>

HoldElapses(w) ==
    /\ pc[w] \in {"clear", "poll", "missed", "sleep"}
    /\ ~deadline[w]
    /\ deadline' = [deadline EXCEPT ![w] = TRUE]
    /\ UNCHANGED <<pc, woken, subscribed, hops, writer, available, items>>

----------------------------------------------------------------------------
(* Writers *)

Commit(x) ==
    /\ writer[x] = "idle"
    /\ items < MaxItems
    /\ writer' = [writer EXCEPT ![x] = "committed"]
    /\ available' = available + 1
    /\ items' = items + 1
    /\ UNCHANGED <<pc, woken, deadline, subscribed, hops>>

(* Fault: one waiter is woken instead of all.                               *)
Notify_One(x) ==
    /\ writer[x] = "committed"
    /\ writer' = [writer EXCEPT ![x] = "idle"]
    /\ IF subscribed = {} THEN hops' = hops
       ELSE \E w \in subscribed : hops' = hops \cup {w}
    /\ UNCHANGED <<pc, woken, deadline, subscribed, available, items>>

(* notify copies the waiters under the lock and schedules each wakeup.      *)
Notify(x) ==
    /\ writer[x] = "committed"
    /\ writer' = [writer EXCEPT ![x] = "idle"]
    /\ hops' = hops \cup subscribed
    /\ UNCHANGED <<pc, woken, deadline, subscribed, available, items>>

Hop(w) ==
    /\ w \in hops
    /\ hops' = hops \ {w}
    /\ woken' = [woken EXCEPT ![w] = TRUE]
    /\ UNCHANGED <<pc, deadline, subscribed, writer, available, items>>

----------------------------------------------------------------------------
WaitNext ==
    \/ \E w \in Waiters :
          \/ Subscribe(w) \/ Clear(w) \/ PollFinds(w) \/ PollMisses(w) \/ Sleep(w)
          \/ GiveUp(w) \/ WakeUp(w) \/ CallAgain(w) \/ HoldElapses(w) \/ Hop(w)
    \/ \E x \in Writers : Commit(x) \/ Notify(x)

WaitSpec == WaitInit /\ [][WaitNext]_waitVars

(* The loop runs what is scheduled in it, and a writer that committed goes  *)
(* on to notify.  Deadlines are not relied on: a hold may be long.          *)
WaitFairness ==
    /\ \A w \in Waiters : /\ WF_waitVars(Clear(w)) /\ WF_waitVars(PollFinds(w))
                          /\ WF_waitVars(WakeUp(w)) /\ WF_waitVars(Hop(w))
    /\ \A x \in Writers : WF_waitVars(Notify(x))

FairWaitSpec == WaitSpec /\ WaitFairness

----------------------------------------------------------------------------
(* Properties *)

(* Every variable holds a value of its type.                                *)
WaitTypeOK ==
    /\ pc \in [Waiters -> {"out", "clear", "poll", "missed", "sleep", "found", "empty"}]
    /\ woken \in [Waiters -> BOOLEAN]
    /\ deadline \in [Waiters -> BOOLEAN]
    /\ subscribed \subseteq Waiters
    /\ hops \subseteq Waiters
    /\ writer \in [Writers -> {"idle", "committed"}]
    /\ available \in 0..MaxItems
    /\ items \in 0..MaxItems

(* No wakeup is lost: while there is something to find, a waiter asleep is  *)
(* woken already, or its wakeup is scheduled, or a writer has yet to        *)
(* notify.                                                                  *)
NoLostWakeup ==
    \A w \in Waiters :
        pc[w] = "sleep" /\ available > 0 =>
            \/ woken[w]
            \/ w \in hops
            \/ \E x \in Writers : writer[x] = "committed"

(* A request held while there is something to find does not sleep on to its *)
(* deadline: it looks again.                                                *)
SleeperIsWoken ==
    \A w \in Waiters : (pc[w] = "sleep" /\ available > 0) ~> pc[w] # "sleep"

=============================================================================
