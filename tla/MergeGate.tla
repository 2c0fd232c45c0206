------------------------------ MODULE MergeGate ------------------------------
(***************************************************************************)
(* check_merge_gate: one report put together from several gh calls while   *)
(* the pull request, its checks and its base branch go on moving, polled   *)
(* until it is settled or a deadline passes; and Alice's merge, bound to   *)
(* the head she had approved.                                              *)
(*                                                                         *)
(* GitHub and the workers are external: a branch only grows (a push with   *)
(* a stale parent is refused), each commit has its own checks, main moves. *)
(* A commit is a number; what matters of it is who made it, what it is on  *)
(* top of, and how much of main it contains.                               *)
(***************************************************************************)
EXTENDS Naturals, FiniteSets, Sequences

CONSTANTS
    MaxCommits,   \* bound: commits ever made beside main's
    MaxPushes,    \* bound: pushes by a worker
    MaxMain       \* bound: commits main gains

ASSUME GateAssumption ==
    /\ MaxCommits \in Nat \ {0}
    /\ MaxPushes \in Nat
    /\ MaxMain \in Nat

Commits == 1..MaxCommits
Authors == {"none", "worker", "driver"}

VARIABLES
    made,        \* commits 1..made exist
    author,      \* who made a commit
    parent,      \* the commit it was made on
    basis,       \* how many of main's commits it contains
    buckets,     \* the buckets its checks are in; {}: none reported
    passed,      \* commits whose checks have at some time read as passed
    approved,    \* heads a reviewer's result approves
    pushed,      \* commits that have been the head of the work branch
    head,        \* the pull request's head
    prState,     \* its state on GitHub
    main,        \* commits on main
    computed,    \* GitHub has computed mergeability since the last move
    workflows,   \* the repository has CI workflows
    at,          \* the gate's next read, as an index of Reads; 0: no call
    expected,    \* expected_head_sha
    view,        \* what gh pr view returned
    ci,          \* the verdict read so far
    behind       \* what the comparison returned

commits == <<made, author, parent, basis>>
github == <<commits, buckets, passed, pushed, head, prState, main, computed, workflows>>
call == <<at, expected, view, ci, behind>>
gateVars == <<github, approved, call>>

NoView == [state |-> "none", head |-> 0, mergeable |-> "none", status |-> "none"]

(* The work pull request is open on the addressed head, commit 1.           *)
GateInit ==
    /\ made = 1
    /\ author = [c \in Commits |-> IF c = 1 THEN "worker" ELSE "none"]
    /\ parent = [c \in Commits |-> 0]
    /\ basis = [c \in Commits |-> 0]
    /\ buckets = [c \in Commits |-> {}]
    /\ passed = {}
    /\ approved = {}
    /\ pushed = {1}
    /\ head = 1
    /\ prState = "OPEN"
    /\ main = 0
    /\ computed = FALSE
    /\ workflows \in BOOLEAN
    /\ at = 0
    /\ expected = 0
    /\ view = NoView
    /\ ci = "none"
    /\ behind = FALSE

----------------------------------------------------------------------------
(* What the gate makes of what it reads *)

(* A failure is decisive, a cancelled run comes before a pending one, and   *)
(* anything but pass and skipping keeps the gate from reading green.        *)
ClassifyChecks(b) ==
    IF "fail" \in b THEN "fail"
    ELSE IF "cancel" \in b THEN "cancelled"
    ELSE IF b \subseteq {"pass", "skipping"} THEN "pass"
    ELSE "pending"

(* Anything unrecognised is treated as closed.                              *)
PrState(s) ==
    CASE s = "OPEN" -> "open" [] s = "MERGED" -> "merged" [] OTHER -> "closed"

Mergeable(m, s) ==
    IF m = "CONFLICTING" \/ s = "DIRTY" THEN "conflicting"
    ELSE IF m = "MERGEABLE" THEN "clean" ELSE "unknown"

HeadMatches == view.head = expected

(* Waiting cannot change whether the gate passes.                           *)
Settled ==
    \/ PrState(view.state) # "open"
    \/ ~HeadMatches
    \/ behind
    \/ Mergeable(view.mergeable, view.status) = "conflicting"
    \/ /\ ci \notin {"pending", "cancelled", "no_checks"}
       /\ Mergeable(view.mergeable, view.status) # "unknown"

(* The invariant Alice's skill asks of the final report, without CI waived. *)
Passes ==
    /\ PrState(view.state) = "open"
    /\ HeadMatches
    /\ ci = "pass"
    /\ ~behind
    /\ Mergeable(view.mergeable, view.status) = "clean"

----------------------------------------------------------------------------
(* GitHub and the workers *)

(* A commit c on top of p that contains the first n commits of main.        *)
NewCommit(c, who, p, n) ==
    /\ c = made + 1
    /\ c \in Commits
    /\ made' = c
    /\ author' = [author EXCEPT ![c] = who]
    /\ parent' = [parent EXCEPT ![c] = p]
    /\ basis' = [basis EXCEPT ![c] = n]

(* A commit becomes the head; GitHub has to compute mergeability again.     *)
MoveHead(c) ==
    /\ prState = "OPEN"
    /\ head' = c
    /\ pushed' = pushed \cup {c}
    /\ computed' = FALSE

(* The implementer pushes a fix, or a rebase that brings main in.           *)
WorkerPush ==
    /\ Cardinality({c \in pushed : author[c] = "worker"}) <= MaxPushes
    /\ \E n \in {basis[head], main} : NewCommit(made + 1, "worker", head, n)
    /\ MoveHead(made + 1)
    /\ UNCHANGED <<buckets, passed, prState, main, workflows, approved, call>>

(* The runs of a commit report, finish, or are started again.               *)
Outcomes(b) ==
    IF "pending" \in b THEN {{"pass"}, {"pass", "skipping"}, {"pass", "fail"}, {"cancel"}}
    ELSE IF b \subseteq {"pass", "skipping"} /\ b # {} THEN {}
    ELSE {{"pending"}}

RunChecks(c) ==
    /\ workflows
    /\ c \in pushed
    /\ \E b \in Outcomes(buckets[c]) :
        /\ buckets' = [buckets EXCEPT ![c] = b]
        /\ passed' = IF ClassifyChecks(b) = "pass" THEN passed \cup {c} ELSE passed
    /\ UNCHANGED <<commits, pushed, head, prState, main, computed, workflows, approved, call>>

ComputeMergeability ==
    /\ ~computed
    /\ computed' = TRUE
    /\ UNCHANGED <<commits, buckets, passed, pushed, head, prState, main, workflows,
                   approved, call>>

(* The reviewer's typed result, bound to the head it was given.             *)
Approve(c) ==
    /\ c \in pushed \ approved
    /\ prState = "OPEN"
    /\ approved' = approved \cup {c}
    /\ UNCHANGED <<github, call>>

(* mergeable and mergeStateStatus as gh pr view may print them: a head that *)
(* lacks commits of main may also conflict with them.                       *)
RawMergeable ==
    IF ~computed THEN {<<"UNKNOWN", "UNKNOWN">>}
    ELSE IF basis[head] < main THEN {<<"MERGEABLE", "BEHIND">>, <<"CONFLICTING", "DIRTY">>}
    ELSE {<<"MERGEABLE", "CLEAN">>}

----------------------------------------------------------------------------
(* The gate *)

(* The order of the reads that make one report.                             *)
Reads == <<"view", "checks", "compare", "report">>

Reading(r) == at # 0 /\ Reads[at] = r

(* check(pr_url, expected_head_sha): called for the newest approved head.   *)
CallGate(e) ==
    /\ at = 0
    /\ e \in approved
    /\ \A c \in approved : c <= e
    /\ prState = "OPEN"
    /\ at' = 1
    /\ expected' = e
    /\ UNCHANGED <<github, approved, view, ci, behind>>

ReadView ==
    /\ Reading("view")
    /\ \E m \in RawMergeable :
        view' = [state |-> prState, head |-> head, mergeable |-> m[1], status |-> m[2]]
    /\ at' = at + 1
    /\ UNCHANGED <<github, approved, expected, ci, behind>>

(* gh pr checks reads the checks of whatever the head is by now.            *)
ReadChecks ==
    /\ Reading("checks")
    /\ ci # "absent"
    /\ IF buckets[head] = {}
       THEN ci' = "absent" /\ UNCHANGED at
       ELSE ci' = ClassifyChecks(buckets[head]) /\ at' = at + 1
    /\ UNCHANGED <<github, approved, expected, view, behind>>

(* No checks: the number of workflows tells "not yet" from "never".         *)
ReadWorkflows ==
    /\ Reading("checks")
    /\ ci = "absent"
    /\ ci' = IF workflows THEN "no_checks" ELSE "no_workflows"
    /\ at' = at + 1
    /\ UNCHANGED <<github, approved, expected, view, behind>>

(* compare base...head, with the head that was read first.                  *)
ReadCompare ==
    /\ Reading("compare")
    /\ behind' = (view.head # 0 /\ basis[view.head] < main)
    /\ at' = at + 1
    /\ UNCHANGED <<github, approved, expected, view, ci>>

EndCall ==
    /\ at' = 0
    /\ expected' = 0
    /\ view' = NoView
    /\ ci' = "none"
    /\ behind' = FALSE

(* Everything is read again while waiting may help and time is left.        *)
PollAgain ==
    /\ Reading("report")
    /\ ~Settled
    /\ at' = 1
    /\ UNCHANGED <<github, approved, expected, view, ci, behind>>

(* A gh call that fails is an error, never a report.                        *)
GateFails ==
    /\ at # 0
    /\ ~Reading("report")
    /\ EndCall
    /\ UNCHANGED <<github, approved>>

(* The last report does not pass: settled, or unsettled at the deadline.    *)
ReportRefuses ==
    /\ Reading("report")
    /\ ~Passes
    /\ EndCall
    /\ UNCHANGED <<github, approved>>

(* Fault: the merge is not bound to the head the report was asked about.    *)
Merge_AnyHead ==
    /\ Reading("report")
    /\ Passes
    /\ IF prState = "OPEN" /\ main < MaxMain
       THEN prState' = "MERGED" /\ main' = main + 1
       ELSE UNCHANGED <<prState, main>>
    /\ EndCall
    /\ UNCHANGED <<commits, buckets, passed, pushed, head, computed, workflows, approved>>

(* gh pr merge --match-head-commit: GitHub merges the head only if it still *)
(* is the expected one.                                                     *)
Merge ==
    /\ Reading("report")
    /\ Passes
    /\ IF head = expected /\ prState = "OPEN" /\ main < MaxMain
       THEN prState' = "MERGED" /\ main' = main + 1
       ELSE UNCHANGED <<prState, main>>
    /\ EndCall
    /\ UNCHANGED <<commits, buckets, passed, pushed, head, computed, workflows, approved>>

GateNext ==
    \/ WorkerPush
    \/ \E c \in Commits : RunChecks(c) \/ Approve(c) \/ CallGate(c)
    \/ ComputeMergeability
    \/ ReadView
    \/ ReadChecks
    \/ ReadWorkflows
    \/ ReadCompare
    \/ PollAgain
    \/ GateFails
    \/ ReportRefuses
    \/ Merge

----------------------------------------------------------------------------
(* Properties *)

(* Every variable holds a value of its type.                                *)
GateTypeOK ==
    /\ made \in Commits
    /\ author \in [Commits -> Authors]
    /\ parent \in [Commits -> 0..MaxCommits]
    /\ basis \in [Commits -> 0..MaxMain]
    /\ buckets \in [Commits -> SUBSET {"pass", "skipping", "fail", "cancel", "pending"}]
    /\ passed \subseteq Commits
    /\ approved \subseteq pushed
    /\ pushed \subseteq 1..made
    /\ head \in pushed
    /\ prState \in {"OPEN", "MERGED"}
    /\ main \in 0..MaxMain
    /\ computed \in BOOLEAN
    /\ workflows \in BOOLEAN
    /\ at \in 0..Len(Reads)
    /\ expected \in 0..MaxCommits
    /\ view.head \in 0..MaxCommits
    /\ ci \in {"none", "absent", "pass", "fail", "pending", "cancelled", "no_checks",
               "no_workflows"}
    /\ behind \in BOOLEAN

(* What is merged is a commit that was approved and whose own checks have   *)
(* passed, though the head may be pushed to between any two of the reads,   *)
(* and the checks a report gives may be those of a later head than the one  *)
(* it names: such a report passes, and the merge bound to the head refuses. *)
MergedWasGreen == prState = "MERGED" => head \in approved \cap passed

=============================================================================
