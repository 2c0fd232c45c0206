----------------------------- MODULE Disturbances -----------------------------
(***************************************************************************)
(* The scenario driver of scripts/step6.py beside Alice's merge gate: on   *)
(* one pull request it moves the approved head once (its own canary commit *)
(* pushed to the work branch), waits for that head to be approved and      *)
(* green, then moves the base once (a fixture branch, a pull request of    *)
(* its own, a merge into main). All of it happens in a run that prepare    *)
(* has set up and seeded.                                                  *)
(*                                                                         *)
(* What it has done is in run.json (headMove, baseMove), saved before and  *)
(* after each step on GitHub; it may die, or refuse and die, at any step,  *)
(* and be started again. One driver runs at a time.                        *)
(***************************************************************************)
EXTENDS MergeGate, RunSetup

CONSTANT MaxFixtures   \* bound: base fixture commits ever made

ASSUME DriverAssumption == MaxFixtures \in Nat \ {0}

VARIABLES
    headMove,    \* manifest["disturbances"]["head"]
    baseMove,    \* manifest["disturbances"]["base"]
    clean,       \* the driver's clone has no uncommitted file
    stage,       \* the driver's next step; "idle": not in a pass
    snap,        \* heads approved in the hub snapshot it read
    seen,        \* the work pull request's head it read
    local,       \* the commit its clone stands on
    fixtures,    \* base fixture commits made
    baseBranch,  \* the fixture commit the base branch is at; 0: no such branch
    basePr,      \* state of the base pull request
    basePrs,     \* base pull requests opened
    baseGreen    \* the base branch's checks have succeeded

manifest == <<headMove, baseMove>>
pass == <<stage, snap, seen, local>>
base == <<fixtures, baseBranch, basePr, basePrs, baseGreen>>
driverVars == <<manifest, clean, pass, base>>
vars == <<setupVars, gateVars, driverVars>>

Init ==
    /\ SetupInit
    /\ GateInit
    /\ headMove = [state |-> "none", old |-> 0, new |-> 0]
    /\ baseMove = [state |-> "none", head |-> 0, pr |-> FALSE]
    /\ clean = TRUE
    /\ stage = "idle"
    /\ snap = {}
    /\ seen = 0
    /\ local = 0
    /\ fixtures = 0
    /\ baseBranch = 0
    /\ basePr = "none"
    /\ basePrs = 0
    /\ baseGreen = FALSE

(* green(head): some checks, and every one a success.                       *)
Green(c) == buckets[c] = {"pass"}

----------------------------------------------------------------------------
(* One pass of driver_once *)

(* A pass ends; nothing but run.json and the clone outlives it.             *)
EndPass ==
    /\ stage' = "idle"
    /\ snap' = {}
    /\ seen' = 0
    /\ local' = 0

(* The pass goes on to its next step.                                       *)
GoTo(step) == stage' = step /\ UNCHANGED <<snap, seen, local>>

(* audit: one consistent snapshot of the hub's database.                    *)
BeginPass ==
    /\ stage = "idle"
    /\ baseMove.state # "merged"
    /\ stage' = "view"
    /\ snap' = approved
    /\ UNCHANGED <<gateVars, manifest, clean, seen, local, base>>

(* A work pull request that is no longer open, or a dirty clone, is refused. *)
ViewPr ==
    /\ stage = "view"
    /\ prState = "OPEN"
    /\ clean
    /\ seen' = head
    /\ stage' = CASE headMove.state = "none" -> "choose"
                  [] headMove.state = "prepared" -> "fetch"
                  [] headMove.state = "pushed" -> "settle"
    /\ UNCHANGED <<gateVars, manifest, clean, snap, local, base>>

(* The head to move is one that is approved and green.                      *)
ChooseHead ==
    /\ stage = "choose"
    /\ IF seen \in snap /\ Green(seen)
       THEN /\ headMove' = [headMove EXCEPT !.state = "prepared", !.old = seen]
            /\ GoTo("fetch")
       ELSE EndPass /\ UNCHANGED headMove
    /\ UNCHANGED <<gateVars, baseMove, clean, base>>

(* Fault: a head that moved is not looked into.                             *)
IsOwnCommit_AnyAuthor(c) == parent[c] = headMove.old

(* The canary, on the recorded old head, and nothing else.                  *)
IsOwnCommit(c) == author[c] = "driver" /\ parent[c] = headMove.old

(* Fault: the branch is not compared with the recorded old head.            *)
FetchHead_Blind ==
    /\ stage = "fetch"
    /\ prState = "OPEN"
    /\ local' = head
    /\ headMove.old \in snap
    /\ stage' = "write"
    /\ UNCHANGED <<gateVars, manifest, clean, snap, seen, base>>

(* A branch that moved is accepted only for the driver's own commit, left   *)
(* by a pass that died between the push and the checkpoint.                 *)
FetchHead ==
    /\ stage = "fetch"
    /\ prState = "OPEN"
    /\ local' = head
    /\ IF head # headMove.old
       THEN IsOwnCommit(head) /\ stage' = "record"
       ELSE headMove.old \in snap /\ stage' = "write"
    /\ UNCHANGED <<gateVars, manifest, clean, snap, seen, base>>

(* Checkout and write_text: until the commit the clone is dirty.            *)
WriteFile ==
    /\ stage \in {"write", "writeBase"}
    /\ clean' = FALSE
    /\ stage' = IF stage = "write" THEN "commit" ELSE "commitBase"
    /\ UNCHANGED <<gateVars, manifest, snap, seen, local, base>>

CommitHead ==
    /\ stage = "commit"
    /\ NewCommit(made + 1, "driver", local, basis[local])
    /\ local' = made + 1
    /\ clean' = TRUE
    /\ stage' = "note"
    /\ UNCHANGED <<buckets, passed, pushed, head, prState, main, computed, workflows,
                   approved, call, manifest, snap, seen, base>>

NoteHead ==
    /\ stage = "note"
    /\ headMove' = [headMove EXCEPT !.new = local]
    /\ stage' = "push"
    /\ UNCHANGED <<gateVars, baseMove, clean, snap, seen, local, base>>

(* No force: Git refuses a push to a branch that moved.                     *)
PushHead ==
    /\ stage = "push"
    /\ head = parent[local]
    /\ MoveHead(local)
    /\ stage' = "record"
    /\ UNCHANGED <<commits, buckets, passed, prState, main, workflows, approved, call,
                   manifest, clean, snap, seen, local, base>>

RecordHead ==
    /\ stage = "record"
    /\ headMove' = [headMove EXCEPT !.state = "pushed", !.new = local]
    /\ EndPass
    /\ UNCHANGED <<gateVars, baseMove, clean, base>>

(* The base moves only after the moved head is approved and green.          *)
Settle ==
    /\ stage = "settle"
    /\ IF headMove.new \in snap /\ Green(headMove.new)
       THEN /\ baseMove' = IF baseMove.state = "none"
                           THEN [baseMove EXCEPT !.state = "prepared"] ELSE baseMove
            /\ GoTo("lookup")
       ELSE EndPass /\ UNCHANGED baseMove
    /\ UNCHANGED <<gateVars, headMove, clean, base>>

(* A recorded pull request found merged ends the work: its branch is gone.  *)
LookUpRecorded ==
    /\ stage = "lookup"
    /\ IF baseMove.pr /\ basePr = "merged"
       THEN baseMove' = [baseMove EXCEPT !.state = "merged"] /\ EndPass
       ELSE GoTo("branch") /\ UNCHANGED baseMove
    /\ UNCHANGED <<gateVars, headMove, clean, base>>

(* A branch that is there must be at the commit noted before its push.      *)
LookUpBranch ==
    /\ stage = "branch"
    /\ IF baseBranch = 0
       THEN stage' = "writeBase" /\ UNCHANGED local
       ELSE /\ baseBranch = baseMove.head
            /\ local' = baseBranch
            /\ stage' = "list"
    /\ UNCHANGED <<gateVars, manifest, clean, snap, seen, base>>

CommitBase ==
    /\ stage = "commitBase"
    /\ fixtures < MaxFixtures
    /\ fixtures' = fixtures + 1
    /\ local' = fixtures + 1
    /\ clean' = TRUE
    /\ stage' = "noteBase"
    /\ UNCHANGED <<gateVars, manifest, snap, seen, baseBranch, basePr, basePrs, baseGreen>>

NoteBase ==
    /\ stage = "noteBase"
    /\ baseMove' = [baseMove EXCEPT !.head = local]
    /\ stage' = "pushBase"
    /\ UNCHANGED <<gateVars, headMove, clean, snap, seen, local, base>>

PushBase ==
    /\ stage = "pushBase"
    /\ baseBranch' = local
    /\ stage' = "list"
    /\ UNCHANGED <<gateVars, manifest, clean, snap, seen, local, fixtures, basePr,
                   basePrs, baseGreen>>

(* gh pr list --state all, then gh pr create when there is none.            *)
OpenBasePr ==
    /\ stage = "list"
    /\ IF basePrs = 0
       THEN basePr' = "open" /\ basePrs' = 1
       ELSE UNCHANGED <<basePr, basePrs>>
    /\ stage' = "recordPr"
    /\ UNCHANGED <<gateVars, manifest, clean, snap, seen, local, fixtures, baseBranch,
                   baseGreen>>

RecordBasePr ==
    /\ stage = "recordPr"
    /\ baseMove' = [baseMove EXCEPT !.pr = TRUE, !.head = local]
    /\ stage' = "mergeBase"
    /\ UNCHANGED <<gateVars, headMove, clean, snap, seen, local, base>>

(* Merged when its checks are green, its branch deleted; else a later pass. *)
MergeBase ==
    /\ stage = "mergeBase"
    /\ IF basePr = "open" /\ baseGreen
       THEN /\ main < MaxMain
            /\ main' = main + 1
            /\ computed' = FALSE
            /\ basePr' = "merged"
            /\ baseBranch' = 0
            /\ GoTo("recordBase")
       ELSE /\ IF basePr = "merged" THEN GoTo("recordBase") ELSE EndPass
            /\ UNCHANGED <<main, computed, basePr, baseBranch>>
    /\ UNCHANGED <<commits, buckets, passed, pushed, head, prState, workflows, approved,
                   call, manifest, clean, fixtures, basePrs, baseGreen>>

RecordBase ==
    /\ stage = "recordBase"
    /\ baseMove' = [baseMove EXCEPT !.state = "merged"]
    /\ EndPass
    /\ UNCHANGED <<gateVars, headMove, clean, base>>

(* A refusal, a failed command or a crash ends the process; what it had not *)
(* saved is forgotten, the clone and GitHub stay as they are.               *)
DriverStops ==
    /\ stage # "idle"
    /\ EndPass
    /\ UNCHANGED <<gateVars, manifest, clean, base>>

(* The checks of the base pull request succeed.                             *)
BaseChecks ==
    /\ baseBranch # 0
    /\ ~baseGreen
    /\ baseGreen' = TRUE
    /\ UNCHANGED <<gateVars, manifest, clean, pass, fixtures, baseBranch, basePr, basePrs>>

DriverNext ==
    \/ BeginPass \/ ViewPr \/ ChooseHead \/ FetchHead \/ WriteFile \/ CommitHead
    \/ NoteHead \/ PushHead \/ RecordHead \/ Settle \/ LookUpRecorded \/ LookUpBranch
    \/ CommitBase \/ NoteBase \/ PushBase \/ OpenBasePr \/ RecordBasePr \/ MergeBase
    \/ RecordBase \/ DriverStops \/ BaseChecks

(* Alice, the workers and the driver are launched on a seeded run.          *)
Next ==
    \/ SetupNext /\ UNCHANGED <<gateVars, driverVars>>
    \/ Prepared /\ GateNext /\ UNCHANGED <<setupVars, driverVars>>
    \/ Prepared /\ DriverNext /\ UNCHANGED setupVars

Spec == Init /\ [][Next]_vars

----------------------------------------------------------------------------
(* Properties *)

(* Every variable holds a value of its type.                                *)
TypeOK ==
    /\ SetupTypeOK
    /\ GateTypeOK
    /\ headMove.state \in {"none", "prepared", "pushed"}
    /\ headMove.old \in 0..MaxCommits /\ headMove.new \in 0..MaxCommits
    /\ baseMove.state \in {"none", "prepared", "merged"}
    /\ baseMove.head \in 0..MaxFixtures /\ baseMove.pr \in BOOLEAN
    /\ clean \in BOOLEAN
    /\ snap \subseteq pushed
    /\ seen \in 0..MaxCommits
    /\ fixtures \in 0..MaxFixtures
    /\ baseBranch \in 0..MaxFixtures
    /\ basePr \in {"none", "open", "merged"}

(* However often the driver dies and starts again, between a push and its   *)
(* checkpoint or a merge and its checkpoint, it moves the head once and     *)
(* opens one base pull request: "restart-safe driver behavior without       *)
(* duplicating either disturbance" (docs/plan-for-step-6.md).               *)
OneDisturbanceEach ==
    /\ Cardinality({c \in pushed : author[c] = "driver"}) <= 1
    /\ basePrs <= 1

(* What run.json records as done was done: the head it calls moved is the   *)
(* driver's own commit on a head that was approved, and the base it calls   *)
(* merged was merged, after the moved head was approved in its turn.        *)
RecordedDisturbanceIsReal ==
    /\ headMove.state = "pushed" =>
          /\ headMove.new \in pushed
          /\ author[headMove.new] = "driver"
          /\ parent[headMove.new] = headMove.old
          /\ headMove.old \in approved
    /\ basePr = "merged" => headMove.new \in approved \cap passed
    /\ baseMove.state = "merged" => basePr = "merged"

=============================================================================
