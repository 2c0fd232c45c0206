------------------------- MODULE Disturbances_proofs -------------------------
(***************************************************************************)
(* Theorems about Disturbances, and with it about MergeGate and RunSetup,  *)
(* for any number of commits, pushes and fixtures and for both kinds of    *)
(* set-up.                                                                 *)
(***************************************************************************)
EXTENDS Disturbances, FiniteSetTheorems, SequenceTheorems, TLAPS

-------------------------------------------------------------------------------
(* The set-up *)

(* A call that has come to step n of its plan has done what the steps       *)
(* before it do, in an earlier call or in this one.                         *)
From(n) == setupAt >= n

LocalProgress ==
    /\ From(6) => \A c \in Clones \ {"bob"} : clone[c] = "clean"
    /\ setupAt \in {6, 8, 9} \cup 11..16 => clone["bob"] = "clean"
    /\ From(9) => runJson \in {"complete", "issue"}
    /\ From(11) => skill
    /\ From(12) => rendered

NetworkedProgress ==
    /\ From(6) => \A c \in Clones \ {"bob"} : clone[c] = "clean"
    /\ From(8) => rendered
    /\ From(9) => token = "written"
    /\ setupAt \in 11..13 \cup {15} \cup 17..22 => clone["bob"] = "clean"
    /\ From(13) => bobHost = "manifest"
    /\ From(15) => skill
    /\ From(18) => runJson \in {"complete", "issue"}

Progress == IF Networked THEN NetworkedProgress ELSE LocalProgress

(* The step that creates the issue.                                         *)
Create == IF Networked THEN 20 ELSE 14

(* Every asset the run needs is there.                                      *)
AssetsReady ==
    /\ \A c \in Clones : clone[c] = "clean"
    /\ skill
    /\ rendered
    /\ runJson \in {"complete", "issue"}
    /\ Networked => token = "written" /\ bobHost = "manifest"

(* The phase saved before the issue closes the set-up to every later call:  *)
(* nothing but the steps from the creation on runs after it.                *)
IssueClosesSetup ==
    /\ ~directory => phase = "none" /\ setupAt \in {0, 1}
    /\ phase = "none" => setupAt \in {0, 1, 2}
    /\ phase = "issue_creating" => AssetsReady /\ (setupAt = 0 \/ From(Create))
    /\ From(Create) => phase = "issue_creating"
    /\ issues >= 1 => phase = "issue_creating" /\ (setupAt = 0 \/ From(Create + 1))
    /\ issues <= 1

SetupInv ==
    /\ SetupTypeOK
    /\ Progress
    /\ IssueClosesSetup

-------------------------------------------------------------------------------
(* The gate *)

(* A branch grows: a commit's parent came before it, and no commit of the   *)
(* branch came after its head.                                              *)
BranchGrows ==
    /\ \A c \in 1..made : parent[c] < c
    /\ \A c \in pushed : c <= head

(* A commit whose checks read as passed is among those that have passed.    *)
GreenHasPassed ==
    \A c \in Commits : buckets[c] # {} /\ ClassifyChecks(buckets[c]) = "pass" => c \in passed

(* What a report says so far: it is asked about an approved head, the head  *)
(* it read is not newer than the head now, and the verdict it read is that  *)
(* of the head if the head is still the one it read.                        *)
ReportIsSound ==
    /\ at # 0 => expected \in approved
    /\ at \in 2..4 => view.head <= head
    /\ at \in 3..4 /\ ci = "pass" /\ view.head = head => head \in passed

GateInv ==
    /\ GateTypeOK
    /\ BranchGrows
    /\ GreenHasPassed
    /\ ReportIsSound
    /\ MergedWasGreen

-------------------------------------------------------------------------------
(* The driver *)

HeadStages == {"fetch", "write", "commit", "note", "push", "record"}
BaseStages == {"branch", "writeBase", "commitBase", "noteBase", "pushBase", "list",
               "recordPr", "mergeBase", "recordBase"}

(* The driver's canaries on the work branch.                                *)
Canaries == {c \in pushed : author[c] = "driver"}

OwnCommit(c) == c \in 1..made /\ author[c] = "driver" /\ parent[c] = headMove.old

(* The record's shapes, and what the commit at hand is in each stage.       *)
DriverTypeOK ==
    /\ headMove \in [state : {"none", "prepared", "pushed"},
                     old : 0..MaxCommits, new : 0..MaxCommits]
    /\ baseMove \in [state : {"none", "prepared", "merged"},
                     head : 0..MaxFixtures, pr : BOOLEAN]
    /\ clean \in BOOLEAN
    /\ snap \subseteq approved
    /\ seen \in 0..MaxCommits
    /\ fixtures \in 0..MaxFixtures
    /\ baseBranch \in 0..MaxFixtures
    /\ basePr \in {"none", "open", "merged"}
    /\ stage \in {"idle", "view", "choose", "settle", "lookup"} \cup HeadStages \cup BaseStages
    /\ stage \in BaseStages \ {"branch", "writeBase", "commitBase"} => local \in 0..MaxFixtures

(* A pass is at the steps of the move its record calls for, and the commit  *)
(* it works on is the recorded old head, or its own commit on top of it.    *)
StageFitsRecord ==
    /\ stage = "choose" => headMove.state = "none"
    /\ stage \in HeadStages => headMove.state = "prepared"
    /\ stage \in {"settle", "lookup"} \cup BaseStages => headMove.state = "pushed"
    /\ stage \in {"write", "commit"} => local = headMove.old
    /\ stage \in {"note", "push"} => OwnCommit(local)
    /\ stage = "record" => local \in pushed /\ OwnCommit(local)
    /\ stage \in {"lookup"} \cup BaseStages => headMove.new \in approved \cap passed
    /\ stage = "recordBase" => basePr = "merged"

(* The canary was pushed on the recorded old head, which was approved, and  *)
(* there is none before the record says prepared.                           *)
CanaryIsRecorded ==
    /\ headMove.state = "none" => Canaries = {}
    /\ headMove.state # "none" => headMove.old \in approved
    /\ \A c \in Canaries : parent[c] = headMove.old
    /\ \A c, d \in Canaries : c = d

BaseFollowsHead ==
    /\ basePrs \in {0, 1}
    /\ basePrs = 0 => basePr = "none"
    /\ basePr = "merged" => headMove.state = "pushed"

DriverInv ==
    /\ DriverTypeOK
    /\ StageFitsRecord
    /\ CanaryIsRecorded
    /\ BaseFollowsHead
    /\ RecordedDisturbanceIsReal

IInv == SetupInv /\ GateInv /\ DriverInv
-------------------------------------------------------------------------------
(* The plan, step by step *)

(* The plan of a run on one host.                                           *)
LEMMA LocalSteps ==
  ASSUME ~Networked, SetupTypeOK
  PROVE  /\ setupAt \in 0..16 /\ Retry = 3
         /\ Step("mkdir") <=> setupAt = 1
         /\ Step("checkpoint") <=> setupAt = 2
         /\ Step("token") <=> setupAt = 3
         /\ Step("write") <=> setupAt = 4
         /\ Step("clones") <=> setupAt = 5
         /\ Step("mark") <=> setupAt = 6
         /\ Step("unmark") <=> setupAt = 7
         /\ Step("manifest") <=> setupAt = 8
         /\ Step("skill") <=> setupAt = 9
         /\ Step("exclude") <=> setupAt = 10
         /\ Step("render") <=> setupAt = 11
         /\ Step("ready") <=> setupAt = 12
         /\ Step("creating") <=> setupAt = 13
         /\ Step("create") <=> setupAt = 14
         /\ Step("record") <=> setupAt = 15
         /\ Step("done") <=> setupAt = 16
         /\ ~Step("preflight") /\ ~Step("hubToken") /\ ~Step("bob") /\ ~Step("bobConfig")
         /\ ~Step("bobManifest") /\ ~Step("complete")
<1>1. Len(Plan) = 16 /\ DOMAIN Plan = 1..16
  BY DEF Plan, LocalPlan
<1>2. setupAt \in 0..16
  BY <1>1 DEF SetupTypeOK
<1>3. \A i \in DOMAIN Plan : Plan[i] = "token" <=> i = 3
  BY <1>1 DEF Plan, LocalPlan
<1>4. Retry = 3
  BY <1>1, <1>3 DEF Retry
<1> QED
  BY <1>1, <1>2, <1>4 DEF Step, Plan, LocalPlan
(* The plan of a run with Bob on his own host.                              *)
LEMMA NetworkedSteps ==
  ASSUME Networked, SetupTypeOK
  PROVE  /\ setupAt \in 0..22 /\ Retry = 3
         /\ Step("mkdir") <=> setupAt = 1
         /\ Step("checkpoint") <=> setupAt = 2
         /\ Step("token") <=> setupAt = 3
         /\ Step("write") <=> setupAt = 4
         /\ Step("clones") <=> setupAt = 5
         /\ Step("manifest") <=> setupAt = 6
         /\ Step("render") <=> setupAt = 7
         /\ Step("preflight") <=> setupAt = 8
         /\ Step("hubToken") <=> setupAt = 9
         /\ Step("bob") <=> setupAt = 10
         /\ Step("bobConfig") <=> setupAt = 11
         /\ Step("bobManifest") <=> setupAt = 12
         /\ Step("skill") <=> setupAt = 13
         /\ Step("exclude") <=> setupAt = 14
         /\ Step("mark") <=> setupAt = 15
         /\ Step("unmark") <=> setupAt = 16
         /\ Step("complete") <=> setupAt = 17
         /\ Step("ready") <=> setupAt = 18
         /\ Step("creating") <=> setupAt = 19
         /\ Step("create") <=> setupAt = 20
         /\ Step("record") <=> setupAt = 21
         /\ Step("done") <=> setupAt = 22
<1>1. Len(Plan) = 22 /\ DOMAIN Plan = 1..22
  BY DEF Plan, NetworkedPlan
<1>2. setupAt \in 0..22
  BY <1>1 DEF SetupTypeOK
<1>3. \A i \in DOMAIN Plan : Plan[i] = "token" <=> i = 3
  BY <1>1 DEF Plan, NetworkedPlan
<1>4. Retry = 3
  BY <1>1, <1>3 DEF Retry
<1> QED
  BY <1>1, <1>2, <1>4 DEF Step, Plan, NetworkedPlan

-------------------------------------------------------------------------------
(* The set-up keeps its invariant *)

(* Every step of the set-up keeps the types of what it leaves on disk.      *)
LEMMA SetupTypeStep ==
  ASSUME SetupTypeOK, SetupNext, setupAt' \in 0..Len(Plan)
  PROVE  SetupTypeOK'
<1> USE DEF SetupTypeOK, bobVars
<1>1. ASSUME NEW seed \in BOOLEAN, CallPrepare(seed) PROVE SetupTypeOK'
  BY <1>1 DEF CallPrepare
<1>2. CASE MakeDirectory \/ SaveCheckpoint \/ CreateToken \/ WriteToken
  BY <1>2 DEF MakeDirectory, SaveCheckpoint, CreateToken, WriteToken
<1>3. ASSUME NEW c \in Clones, Clone(c) PROVE SetupTypeOK'
  BY <1>3 DEF Clone
<1>4. CASE ClonesReady \/ ReadHubToken \/ RenderBob \/ SaveBobManifest
  BY <1>4 DEF ClonesReady, ReadHubToken, RenderBob, SaveBobManifest
<1>5. CASE CopySkill \/ ExcludeSkill
  BY <1>5 DEF CopySkill, ExcludeSkill
<1>6. CASE MarkClone \/ UnmarkClone
  BY <1>6 DEF MarkClone, UnmarkClone
<1>7. CASE SaveManifest \/ Render \/ Preflight \/ Complete
  BY <1>7 DEF SaveManifest, Render, Preflight, Complete
<1>8. CASE SaveReady \/ SaveCreating \/ CreateIssue \/ RecordIssue
  BY <1>8 DEF SaveReady, SaveCreating, CreateIssue, RecordIssue
<1>9. CASE SetupStops
  BY <1>9 DEF SetupStops
<1> QED
  BY <1>1, <1>2, <1>3, <1>4, <1>5, <1>6, <1>7, <1>8, <1>9 DEF SetupNext

(* The clones a step of the plan has made, in either mode.                  *)
LEMMA CloneIsDue ==
  ASSUME NEW c \in ClonesDue
  PROVE  Step("clones") \/ Step("bob")
  BY DEF ClonesDue

(* On one host a step has done what the steps before it do.                 *)
LEMMA LocalStep ==
  ASSUME ~Networked, SetupInv, SetupNext
  PROVE  LocalProgress' /\ IssueClosesSetup' /\ setupAt' \in 0..Len(Plan)
<1> DEFINE Goal == LocalProgress' /\ IssueClosesSetup' /\ setupAt' \in 0..Len(Plan)
<1> USE DEF Advance, bobVars, Clones, LocalProgress, IssueClosesSetup, AssetsReady, From, Create
<1>0. Len(Plan) = 16 /\ SetupTypeOK /\ LocalProgress /\ IssueClosesSetup
  BY DEF SetupInv, Progress, Plan, LocalPlan
<1> USE <1>0, LocalSteps
<1>1. ASSUME NEW seed \in BOOLEAN, CallPrepare(seed) PROVE Goal
  BY <1>1 DEF CallPrepare
<1>2. CASE MakeDirectory
  BY <1>2 DEF MakeDirectory
<1>3. CASE SaveCheckpoint
  BY <1>3 DEF SaveCheckpoint
<1>4. CASE CreateToken
  BY <1>4 DEF CreateToken
<1>5. CASE WriteToken
  BY <1>5 DEF WriteToken
<1>6. ASSUME NEW c \in Clones, Clone(c) PROVE Goal
  BY <1>6, CloneIsDue DEF Clone, SetupTypeOK
<1>7. CASE ClonesReady
  BY <1>7 DEF ClonesReady, ClonesDue, SetupTypeOK
<1>8. CASE ReadHubToken
  BY <1>8 DEF ReadHubToken
<1>9. CASE RenderBob
  BY <1>9 DEF RenderBob
<1>10. CASE SaveBobManifest
  BY <1>10 DEF SaveBobManifest
<1>11. CASE CopySkill
  BY <1>11 DEF CopySkill, SetupTypeOK
<1>12. CASE ExcludeSkill
  BY <1>12 DEF ExcludeSkill, SetupTypeOK
<1>13. CASE MarkClone
  BY <1>13 DEF MarkClone, SetupTypeOK
<1>14. CASE UnmarkClone
  BY <1>14 DEF UnmarkClone, SetupTypeOK
<1>15. CASE SaveManifest
  BY <1>15 DEF SaveManifest
<1>16. CASE Render
  BY <1>16 DEF Render
<1>17. CASE Preflight
  BY <1>17 DEF Preflight
<1>18. CASE Complete
  BY <1>18 DEF Complete
<1>19. CASE SaveReady
  BY <1>19 DEF SaveReady
<1>20. CASE SaveCreating
  BY <1>20 DEF SaveCreating
<1>21. CASE CreateIssue
  BY <1>21 DEF CreateIssue, SetupTypeOK
<1>22. CASE RecordIssue
  BY <1>22 DEF RecordIssue
<1>23. CASE SetupStops
  BY <1>23 DEF SetupStops, SetupTypeOK
<1> QED
  BY <1>1, <1>2, <1>3, <1>4, <1>5, <1>6, <1>7, <1>8, <1>9, <1>10, <1>11, <1>12,
     <1>13, <1>14, <1>15, <1>16, <1>17, <1>18, <1>19, <1>20, <1>21, <1>22, <1>23 DEF SetupNext

(* With Bob on his own host a step has done what the steps before it do.    *)
LEMMA NetworkedStep ==
  ASSUME Networked, SetupInv, SetupNext
  PROVE  NetworkedProgress' /\ IssueClosesSetup' /\ setupAt' \in 0..Len(Plan)
<1> DEFINE Goal == NetworkedProgress' /\ IssueClosesSetup' /\ setupAt' \in 0..Len(Plan)
<1> USE DEF Advance, bobVars, Clones, NetworkedProgress, IssueClosesSetup, AssetsReady, From, Create
<1>0. Len(Plan) = 22 /\ SetupTypeOK /\ NetworkedProgress /\ IssueClosesSetup
  BY DEF SetupInv, Progress, Plan, NetworkedPlan
<1> USE <1>0, NetworkedSteps
<1>1. ASSUME NEW seed \in BOOLEAN, CallPrepare(seed) PROVE Goal
  BY <1>1 DEF CallPrepare
<1>2. CASE MakeDirectory
  BY <1>2 DEF MakeDirectory
<1>3. CASE SaveCheckpoint
  BY <1>3 DEF SaveCheckpoint
<1>4. CASE CreateToken
  BY <1>4 DEF CreateToken
<1>5. CASE WriteToken
  BY <1>5 DEF WriteToken
<1>6. ASSUME NEW c \in Clones, Clone(c) PROVE Goal
  BY <1>6, CloneIsDue DEF Clone, SetupTypeOK
<1>7. CASE ClonesReady
  BY <1>7 DEF ClonesReady, ClonesDue, SetupTypeOK
<1>8. CASE ReadHubToken
  BY <1>8 DEF ReadHubToken
<1>9. CASE RenderBob
  BY <1>9 DEF RenderBob
<1>10. CASE SaveBobManifest
  BY <1>10 DEF SaveBobManifest
<1>11. CASE CopySkill
  BY <1>11 DEF CopySkill, SetupTypeOK
<1>12. CASE ExcludeSkill
  BY <1>12 DEF ExcludeSkill, SetupTypeOK
<1>13. CASE MarkClone
  BY <1>13 DEF MarkClone, SetupTypeOK
<1>14. CASE UnmarkClone
  BY <1>14 DEF UnmarkClone, SetupTypeOK
<1>15. CASE SaveManifest
  BY <1>15 DEF SaveManifest
<1>16. CASE Render
  BY <1>16 DEF Render
<1>17. CASE Preflight
  BY <1>17 DEF Preflight
<1>18. CASE Complete
  BY <1>18 DEF Complete
<1>19. CASE SaveReady
  BY <1>19 DEF SaveReady
<1>20. CASE SaveCreating
  BY <1>20 DEF SaveCreating
<1>21. CASE CreateIssue
  BY <1>21 DEF CreateIssue, SetupTypeOK
<1>22. CASE RecordIssue
  BY <1>22 DEF RecordIssue
<1>23. CASE SetupStops
  BY <1>23 DEF SetupStops, SetupTypeOK
<1> QED
  BY <1>1, <1>2, <1>3, <1>4, <1>5, <1>6, <1>7, <1>8, <1>9, <1>10, <1>11, <1>12,
     <1>13, <1>14, <1>15, <1>16, <1>17, <1>18, <1>19, <1>20, <1>21, <1>22, <1>23 DEF SetupNext
(* The set-up keeps its invariant.                                          *)
LEMMA SetupStep ==
  ASSUME SetupInv, SetupNext
  PROVE  SetupInv'
<1>1. Progress' /\ IssueClosesSetup' /\ setupAt' \in 0..Len(Plan)
  BY LocalStep, NetworkedStep DEF Progress
<1> QED
  BY <1>1, SetupTypeStep DEF SetupInv

(* Before the first call nothing is there.                                  *)
LEMMA InitSetupInv == Init => SetupInv
<1> SUFFICES ASSUME Init PROVE SetupInv
  OBVIOUS
<1> USE DEF Init, SetupInit
<1>1. Len(Plan) \in {16, 22}
  BY DEF Plan, LocalPlan, NetworkedPlan
<1>2. SetupTypeOK
  <2>1. 0 \in 0..Len(Plan) /\ 0 \in Nat
    BY <1>1
  <2>2. clone \in [Clones -> {"absent", "cloning", "bare", "dirty", "clean"}]
    BY DEF Clones
  <2> QED
    BY <2>1, <2>2 DEF SetupTypeOK
<1> QED
  BY <1>2 DEF SetupInv, Progress, LocalProgress, NetworkedProgress, IssueClosesSetup,
              From, Create

-------------------------------------------------------------------------------
(* The gate keeps its invariant *)

(* What a new commit is, and that nothing changes about the others.         *)
LEMMA NewCommitEffect ==
  ASSUME GateTypeOK, NEW who \in Authors, NEW p \in 0..MaxCommits, NEW n \in 0..MaxMain,
         NewCommit(made + 1, who, p, n)
  PROVE  /\ made' = made + 1 /\ made' \in Commits
         /\ author' \in [Commits -> Authors] /\ parent' \in [Commits -> 0..MaxCommits]
         /\ basis' \in [Commits -> 0..MaxMain]
         /\ author'[made'] = who /\ parent'[made'] = p
         /\ \A c \in 1..made : author'[c] = author[c] /\ parent'[c] = parent[c]
  BY DEF GateTypeOK, NewCommit, Commits

(* A step of the gate, of GitHub or of a worker.                            *)
LEMMA GateTypeStep ==
  ASSUME GateInv, GateNext
  PROVE  GateTypeOK'
<1> USE DEF GateInv, GateTypeOK, commits, call, github
<1>0. /\ made \in Nat /\ 1..made \subseteq Commits /\ pushed \subseteq Commits
      /\ head \in Commits /\ Commits \subseteq 0..MaxCommits
      /\ Len(Reads) = 4 /\ 0 \in 0..MaxCommits /\ 0 \in 0..4 /\ 1 \in 0..4
  BY GateAssumption DEF Commits, Reads
<1>1. CASE WorkerPush
  <2>1. PICK n \in {basis[head], main} : NewCommit(made + 1, "worker", head, n)
    BY <1>1 DEF WorkerPush
  <2>2. n \in 0..MaxMain /\ head \in 0..MaxCommits /\ "worker" \in Authors
    BY <1>0 DEF Authors
  <2>3. /\ made' = made + 1 /\ made' \in Commits
        /\ author' \in [Commits -> Authors] /\ parent' \in [Commits -> 0..MaxCommits]
        /\ basis' \in [Commits -> 0..MaxMain]
    BY <2>1, <2>2, NewCommitEffect
  <2>4. head' = made' /\ pushed' = pushed \cup {made'} /\ pushed' \subseteq 1..made'
    BY <1>0, <1>1, <2>3 DEF WorkerPush, MoveHead
  <2> QED
    BY <1>1, <2>3, <2>4 DEF WorkerPush, MoveHead
<1>2. ASSUME NEW c \in Commits, RunChecks(c) PROVE GateTypeOK'
  <2>1. PICK b \in Outcomes(buckets[c]) :
           /\ buckets' = [buckets EXCEPT ![c] = b]
           /\ passed' = IF ClassifyChecks(b) = "pass" THEN passed \cup {c} ELSE passed
    BY <1>2 DEF RunChecks
  <2>2. b \in SUBSET {"pass", "skipping", "fail", "cancel", "pending"}
    BY DEF Outcomes
  <2>3. /\ buckets' \in [Commits -> SUBSET {"pass", "skipping", "fail", "cancel", "pending"}]
        /\ passed' \subseteq Commits
    BY <2>1, <2>2
  <2> QED
    BY <1>2, <2>3 DEF RunChecks
<1>3. ASSUME NEW c \in Commits, Approve(c) PROVE GateTypeOK'
  BY <1>3 DEF Approve
<1>11. ASSUME NEW c \in Commits, CallGate(c) PROVE GateTypeOK'
  BY <1>0, <1>11 DEF CallGate
<1>4. CASE ComputeMergeability
  BY <1>4 DEF ComputeMergeability
<1>5. CASE ReadView
  BY <1>0, <1>5 DEF ReadView, Reading, Reads
<1>6. CASE ReadChecks
  <2>1. ci' \in {"absent", "pass", "fail", "pending", "cancelled"}
    BY <1>6 DEF ReadChecks, ClassifyChecks
  <2>2. at' \in 0..Len(Reads)
    BY <1>0, <1>6 DEF ReadChecks, Reading, Reads
  <2> QED
    BY <1>6, <2>1, <2>2 DEF ReadChecks
<1>7. CASE ReadWorkflows \/ ReadCompare
  <2>1. at' \in 0..4
    BY <1>0, <1>7 DEF ReadWorkflows, ReadCompare, Reading, Reads
  <2>2. CASE ReadWorkflows
    BY <1>0, <2>1, <2>2 DEF ReadWorkflows
  <2>3. CASE ReadCompare
    BY <1>0, <2>1, <2>3 DEF ReadCompare
  <2> QED
    BY <1>7, <2>2, <2>3
<1>8. CASE PollAgain
  BY <1>0, <1>8 DEF PollAgain
<1>9. CASE GateFails \/ ReportRefuses
  <2>1. UNCHANGED <<github, approved>> /\ EndCall
    BY <1>9 DEF GateFails, ReportRefuses
  <2> QED
    BY <1>0, <2>1 DEF EndCall, NoView
<1>10. CASE Merge
  <2>1. main' \in 0..MaxMain /\ prState' \in {"OPEN", "MERGED"}
    BY <1>10, GateAssumption DEF Merge
  <2>2. EndCall /\ UNCHANGED <<commits, buckets, passed, pushed, head, computed, workflows,
                               approved>>
    BY <1>10 DEF Merge
  <2> QED
    BY <1>0, <2>1, <2>2 DEF EndCall, NoView
<1> QED
  BY <1>1, <1>2, <1>3, <1>4, <1>5, <1>6, <1>7, <1>8, <1>9, <1>10, <1>11
     DEF GateNext
(* Numbers of the branch: its commits are made, up to the head.             *)
LEMMA BranchFacts ==
  ASSUME GateTypeOK
  PROVE  /\ made \in Nat /\ 1..made \subseteq Commits /\ Commits \subseteq 0..MaxCommits
         /\ head \in 1..made /\ pushed \subseteq 1..made /\ approved \subseteq 1..made
         /\ 0 \in 0..MaxCommits
  BY GateAssumption DEF GateTypeOK, Commits

(* A head that moves on leaves every report so far as sound as it was: the  *)
(* new head is none that was read.                                          *)
LEMMA MoveHeadKeeps ==
  ASSUME GateInv, NEW c \in Commits, c > head, MoveHead(c),
         UNCHANGED <<passed, prState, approved, call>>
  PROVE  /\ \A d \in pushed' : d <= head'
         /\ ReportIsSound' /\ MergedWasGreen'
<1>1. head' = c /\ pushed' = pushed \cup {c} /\ prState = "OPEN" /\ head \in Nat /\ c \in Nat
  BY BranchFacts DEF MoveHead, GateInv, Commits
<1>2. \A d \in pushed' : d <= head'
  BY <1>1, BranchFacts DEF GateInv, BranchGrows
<1>3. MergedWasGreen'
  BY <1>1 DEF MergedWasGreen
<1>4. ReportIsSound'
  <2>1. view.head \in Nat
    BY GateAssumption DEF GateInv, GateTypeOK
  <2> QED
    BY <1>1, <2>1 DEF GateInv, ReportIsSound, call
<1> QED
  BY <1>2, <1>3, <1>4

(* A commit is made on an earlier one.                                      *)
LEMMA NewCommitGrows ==
  ASSUME GateInv, NEW who \in Authors, NEW p \in 1..made, NEW n \in 0..MaxMain,
         NewCommit(made + 1, who, p, n)
  PROVE  \A c \in 1..made' : parent'[c] < c
<1>1. p \in 0..MaxCommits /\ made \in Nat
  BY BranchFacts DEF GateInv
<1>2. /\ made' = made + 1 /\ parent'[made'] = p
      /\ \A c \in 1..made : parent'[c] = parent[c]
  BY <1>1, NewCommitEffect DEF GateInv
<1>3. ASSUME NEW c \in 1..made' PROVE parent'[c] < c
  <2>1. CASE c = made'
    BY <1>1, <1>2, <2>1
  <2>2. CASE c # made'
    <3>1. c \in 1..made
      BY <1>1, <1>2, <2>2
    <3> QED
      BY <1>2, <3>1 DEF GateInv, BranchGrows
  <2> QED
    BY <2>1, <2>2
<1> QED
  BY <1>3

(* The branch grows, the checks that pass are noted, every report is sound  *)
(* and a merge is of a head that was approved and green.                    *)
LEMMA GateStep ==
  ASSUME GateInv, GateNext
  PROVE  GateInv'
<1> DEFINE Goal == BranchGrows' /\ GreenHasPassed' /\ ReportIsSound' /\ MergedWasGreen'
<1> SUFFICES Goal
  BY GateTypeStep DEF GateInv
<1>0. /\ GateTypeOK /\ BranchGrows /\ GreenHasPassed /\ ReportIsSound /\ MergedWasGreen
  BY DEF GateInv
<1>1. CASE WorkerPush
  <2>1. PICK n \in {basis[head], main} : NewCommit(made + 1, "worker", head, n)
    BY <1>1 DEF WorkerPush
  <2>2. n \in 0..MaxMain /\ head \in 1..made /\ "worker" \in Authors /\ made \in Nat
    BY <1>0, BranchFacts DEF Authors, GateTypeOK
  <2>3. (\A c \in 1..made' : parent'[c] < c)
    BY <2>1, <2>2, NewCommitGrows
  <2>4. made + 1 \in Commits /\ made + 1 > head
    BY <2>1, <2>2 DEF NewCommit
  <2>5. /\ \A d \in pushed' : d <= head'
        /\ ReportIsSound' /\ MergedWasGreen'
    BY <1>1, <2>4, MoveHeadKeeps DEF WorkerPush
  <2>6. GreenHasPassed'
    BY <1>0, <1>1 DEF WorkerPush, GreenHasPassed
  <2> QED
    BY <2>3, <2>5, <2>6 DEF BranchGrows
<1>2. ASSUME NEW c \in Commits, RunChecks(c) PROVE Goal
  <2>1. PICK b \in Outcomes(buckets[c]) :
           /\ buckets' = [buckets EXCEPT ![c] = b]
           /\ passed' = IF ClassifyChecks(b) = "pass" THEN passed \cup {c} ELSE passed
    BY <1>2 DEF RunChecks
  <2>2. GreenHasPassed'
    <3> SUFFICES ASSUME NEW d \in Commits, buckets'[d] # {},
                        ClassifyChecks(buckets'[d]) = "pass"
                 PROVE  d \in passed'
      BY DEF GreenHasPassed
    <3>1. CASE d = c
      BY <1>0, <2>1, <3>1 DEF GateTypeOK
    <3>2. CASE d # c
      BY <1>0, <2>1, <3>2 DEF GateTypeOK, GreenHasPassed
    <3> QED
      BY <3>1, <3>2
  <2>3. passed \subseteq passed' /\ UNCHANGED <<commits, pushed, head, prState, approved, call>>
    BY <1>2 DEF RunChecks
  <2>4. BranchGrows' /\ ReportIsSound' /\ MergedWasGreen'
    BY <1>0, <2>3 DEF BranchGrows, ReportIsSound, MergedWasGreen, commits, call
  <2> QED
    BY <2>2, <2>4
<1>3. ASSUME NEW c \in Commits, Approve(c) PROVE Goal
  BY <1>0, <1>3 DEF Approve, BranchGrows, GreenHasPassed, ReportIsSound, MergedWasGreen,
                    github, commits, call
<1>4. ASSUME NEW c \in Commits, CallGate(c) PROVE Goal
  BY <1>0, <1>4 DEF CallGate, BranchGrows, GreenHasPassed, ReportIsSound, MergedWasGreen,
                    github, commits
<1>5. CASE ComputeMergeability
  BY <1>0, <1>5 DEF ComputeMergeability, BranchGrows, GreenHasPassed, ReportIsSound,
                    MergedWasGreen, commits, call
<1> DEFINE Quiet == UNCHANGED <<github, approved>>
<1>6. ASSUME Quiet PROVE BranchGrows' /\ GreenHasPassed' /\ MergedWasGreen'
  BY <1>0, <1>6 DEF BranchGrows, GreenHasPassed, MergedWasGreen, github, commits
<1>7. at # 0 => at \in 1..4
  BY <1>0 DEF GateTypeOK, Reads
<1>8. head \in Nat /\ head \in Commits
  BY <1>0, BranchFacts
<1>9. CASE ReadView
  <2>1. /\ Quiet /\ expected' = expected /\ ci' = ci /\ at = 1 /\ at' = 2
        /\ view'.head = head
    BY <1>7, <1>9 DEF ReadView, Reading, Reads
  <2>2. head' = head /\ approved' = approved
    BY <2>1 DEF github
  <2> QED
    BY <1>0, <1>6, <1>8, <2>1, <2>2 DEF ReportIsSound
<1>10. CASE ReadChecks
  <2>1. /\ Quiet /\ expected' = expected /\ view' = view /\ at = 2 /\ at' \in {2, 3}
    BY <1>7, <1>10 DEF ReadChecks, Reading, Reads
  <2>2. head' = head /\ approved' = approved /\ passed' = passed
    BY <2>1 DEF github
  <2>3. at' = 3 /\ ci' = "pass" => head \in passed
    BY <1>0, <1>8, <1>10, <2>1 DEF ReadChecks, GreenHasPassed
  <2> QED
    BY <1>0, <1>6, <2>1, <2>2, <2>3 DEF ReportIsSound
<1>11. CASE ReadWorkflows
  <2>1. /\ Quiet /\ expected' = expected /\ view' = view /\ at = 2 /\ at' = 3
        /\ ci' # "pass"
    BY <1>7, <1>11 DEF ReadWorkflows, Reading, Reads
  <2>2. head' = head /\ approved' = approved
    BY <2>1 DEF github
  <2> QED
    BY <1>0, <1>6, <2>1, <2>2 DEF ReportIsSound
<1>12. CASE ReadCompare
  <2>1. /\ Quiet /\ expected' = expected /\ view' = view /\ ci' = ci /\ at = 3 /\ at' = 4
    BY <1>7, <1>12 DEF ReadCompare, Reading, Reads
  <2>2. head' = head /\ approved' = approved /\ passed' = passed
    BY <2>1 DEF github
  <2> QED
    BY <1>0, <1>6, <2>1, <2>2 DEF ReportIsSound
<1>13. CASE PollAgain
  <2>1. Quiet /\ expected' = expected /\ at # 0 /\ at' = 1
    BY <1>13 DEF PollAgain, Reading
  <2> QED
    BY <1>0, <1>6, <2>1 DEF ReportIsSound
<1>14. CASE GateFails \/ ReportRefuses
  BY <1>6, <1>14 DEF GateFails, ReportRefuses, EndCall, ReportIsSound
<1>15. CASE Merge
  <2>1. /\ at = 4 /\ at' = 0 /\ ci = "pass" /\ view.head = expected
        /\ UNCHANGED <<commits, buckets, passed, pushed, head, approved>>
        /\ prState' = "MERGED" => prState = "MERGED" \/ head = expected
    BY <1>7, <1>15 DEF Merge, Reading, Reads, Passes, HeadMatches, EndCall
  <2>2. MergedWasGreen'
    BY <1>0, <2>1 DEF MergedWasGreen, ReportIsSound
  <2>3. BranchGrows' /\ GreenHasPassed' /\ ReportIsSound'
    BY <1>0, <2>1 DEF BranchGrows, GreenHasPassed, ReportIsSound, commits
  <2> QED
    BY <2>2, <2>3
<1> QED
  BY <1>1, <1>2, <1>3, <1>4, <1>5, <1>9, <1>10, <1>11, <1>12, <1>13, <1>14, <1>15
     DEF GateNext
(* The work pull request is open on its first commit.                       *)
LEMMA InitGateInv == Init => GateInv
<1> SUFFICES ASSUME Init PROVE GateInv
  OBVIOUS
<1> USE DEF Init, GateInit
<1>0. /\ 1 \in Commits /\ Commits \subseteq Nat /\ 0 \in 0..MaxCommits /\ 0 \in 0..MaxMain
      /\ 0 \in 0..Len(Reads) /\ 1 \in 1..1
  BY GateAssumption DEF Commits, Reads
<1>1. author \in [Commits -> Authors]
  BY DEF Authors
<1>2. GateTypeOK
  BY <1>0, <1>1 DEF GateTypeOK, NoView
<1> QED
  BY <1>0, <1>2 DEF GateInv, BranchGrows, GreenHasPassed, ReportIsSound, MergedWasGreen

-------------------------------------------------------------------------------
(* The driver keeps the invariant, and the gate that of the driver *)

(* What others' steps leave of the work branch and of what is known of it.  *)
BranchStays ==
    /\ made' \in Nat /\ made <= made'
    /\ \A c \in 1..made : author'[c] = author[c] /\ parent'[c] = parent[c]
    /\ approved \subseteq approved' /\ passed \subseteq passed' /\ pushed \subseteq pushed'
    /\ \A c \in pushed' \ pushed : author'[c] # "driver"

(* The workers push no canary, and nothing is approved or green no more.    *)
LEMMA GateStays ==
  ASSUME GateInv, GateNext
  PROVE  BranchStays
<1> USE DEF GateInv
<1>0. made \in Nat /\ head \in 0..MaxCommits
  BY BranchFacts
<1>1. CASE WorkerPush
  <2>1. PICK n \in {basis[head], main} : NewCommit(made + 1, "worker", head, n)
    BY <1>1 DEF WorkerPush
  <2>2. n \in 0..MaxMain /\ "worker" \in Authors
    BY <1>0, BranchFacts DEF Authors, GateTypeOK
  <2>3. /\ made' = made + 1 /\ author'[made'] = "worker"
        /\ \A c \in 1..made : author'[c] = author[c] /\ parent'[c] = parent[c]
    BY <1>0, <2>1, <2>2, NewCommitEffect
  <2> QED
    BY <1>0, <1>1, <2>3 DEF WorkerPush, MoveHead, BranchStays
<1>2. ASSUME NEW c \in Commits, RunChecks(c) PROVE BranchStays
  BY <1>0, <1>2 DEF RunChecks, BranchStays, commits
<1>3. ASSUME NEW c \in Commits, Approve(c) \/ CallGate(c) PROVE BranchStays
  BY <1>0, <1>3 DEF Approve, CallGate, BranchStays, commits, github
<1>4. CASE ComputeMergeability \/ Merge
  BY <1>0, <1>4 DEF ComputeMergeability, Merge, BranchStays, commits
<1>5. CASE ReadView \/ ReadChecks \/ ReadWorkflows \/ ReadCompare \/ PollAgain \/ GateFails
           \/ ReportRefuses
  BY <1>0, <1>5 DEF ReadView, ReadChecks, ReadWorkflows, ReadCompare, PollAgain, GateFails,
                    ReportRefuses, BranchStays, commits, github
<1> QED
  BY <1>1, <1>2, <1>3, <1>4, <1>5 DEF GateNext

(* Beside the gate and the workers the driver finds its record as it left   *)
(* it and true.                                                             *)
LEMMA DriverBeside ==
  ASSUME GateTypeOK, DriverInv, BranchStays, UNCHANGED driverVars
  PROVE  DriverInv'
<1>0. /\ UNCHANGED <<headMove, baseMove, clean, stage, snap, seen, local>>
      /\ UNCHANGED <<fixtures, baseBranch, basePr, basePrs, baseGreen>>
  BY DEF driverVars, manifest, pass, base
<1>1. /\ made \in Nat /\ pushed \subseteq 1..made /\ approved \subseteq pushed
      /\ 1..made \subseteq 1..made'
  BY BranchFacts DEF GateTypeOK, BranchStays
<1>2. Canaries' = Canaries
  BY <1>1 DEF Canaries, BranchStays
<1>3. \A c : OwnCommit(c) => OwnCommit(c)'
  BY <1>0, <1>1 DEF OwnCommit, BranchStays
<1>4. DriverTypeOK'
  BY <1>0 DEF DriverInv, DriverTypeOK, BranchStays
<1>5. StageFitsRecord'
  BY <1>0, <1>3 DEF DriverInv, StageFitsRecord, BranchStays
<1>6. CanaryIsRecorded'
  BY <1>0, <1>1, <1>2 DEF DriverInv, CanaryIsRecorded, BranchStays, Canaries
<1>7. BaseFollowsHead'
  BY <1>0 DEF DriverInv, BaseFollowsHead
<1>8. RecordedDisturbanceIsReal'
  BY <1>0, <1>1 DEF DriverInv, RecordedDisturbanceIsReal, BranchStays
<1> QED
  BY <1>4, <1>5, <1>6, <1>7, <1>8 DEF DriverInv
(* Steps that leave GitHub and the gate alone keep the gate's invariant.    *)
LEMMA GateUntouched == GateInv /\ UNCHANGED gateVars => GateInv'
  BY DEF GateInv, GateTypeOK, BranchGrows, GreenHasPassed, ReportIsSound, MergedWasGreen,
         gateVars, github, commits, call

(* The steps of the driver that leave GitHub's commits and main alone.      *)
OnTheRecord ==
    \/ BeginPass \/ ViewPr \/ ChooseHead \/ FetchHead \/ WriteFile \/ NoteHead
    \/ RecordHead \/ Settle \/ LookUpRecorded \/ LookUpBranch \/ CommitBase \/ NoteBase
    \/ PushBase \/ OpenBasePr \/ RecordBasePr \/ RecordBase \/ DriverStops \/ BaseChecks

(* They keep the driver's invariant: each goes on from what the record says. *)
LEMMA DriverLocal ==
  ASSUME GateInv, DriverInv, OnTheRecord
  PROVE  UNCHANGED gateVars /\ DriverInv'
<1>0. /\ 0 \in 0..MaxCommits /\ 0 \in 0..MaxFixtures
      /\ \A c \in 1..made : c \in 0..MaxCommits
      /\ approved \subseteq 1..made /\ pushed \subseteq 1..made /\ head \in pushed
      /\ head \in 0..MaxCommits
  <2>1. GateTypeOK
    BY DEF GateInv
  <2>2. 0 \in 0..MaxFixtures
    BY DriverAssumption
  <2> QED
    BY <2>1, <2>2, BranchFacts DEF GateTypeOK
<1>19. UNCHANGED gateVars
  BY DEF OnTheRecord, BeginPass, ViewPr, ChooseHead, FetchHead, WriteFile, NoteHead,
         RecordHead, Settle, LookUpRecorded, LookUpBranch, CommitBase, NoteBase, PushBase,
         OpenBasePr, RecordBasePr, RecordBase, DriverStops, BaseChecks
<1>20. UNCHANGED <<made, author, parent, buckets, passed, approved, pushed, head, prState>>
  BY <1>19 DEF gateVars, github, commits
<1> USE <1>0, <1>20 DEF DriverInv, DriverTypeOK, StageFitsRecord, CanaryIsRecorded,
        BaseFollowsHead, RecordedDisturbanceIsReal, HeadStages, BaseStages, Canaries,
        OwnCommit, manifest, base, pass, EndPass, GoTo
<1>1. CASE BeginPass
  BY <1>1 DEF BeginPass
<1>2. CASE ViewPr
  BY <1>2 DEF ViewPr
<1>3. CASE ChooseHead
  <2>1. CASE seen \in snap /\ Green(seen)
    <3>1. /\ headMove'.state = "prepared" /\ headMove'.old = seen
          /\ headMove'.new = headMove.new
          /\ headMove' \in [state : {"none", "prepared", "pushed"},
                             old : 0..MaxCommits, new : 0..MaxCommits]
      <4>1. headMove' = [headMove EXCEPT !.state = "prepared", !.old = seen]
        BY <1>3, <2>1 DEF ChooseHead
      <4>2. headMove \in [state : {"none", "prepared", "pushed"},
                          old : 0..MaxCommits, new : 0..MaxCommits] /\ seen \in 0..MaxCommits
        OBVIOUS
      <4> HIDE DEF DriverInv, DriverTypeOK, StageFitsRecord, CanaryIsRecorded,
                   BaseFollowsHead, RecordedDisturbanceIsReal
      <4> QED
        BY <4>1, <4>2
    <3>2. /\ stage' = "fetch" /\ headMove.state = "none" /\ seen \in approved
          /\ UNCHANGED <<baseMove, clean, snap, seen, local, fixtures, baseBranch, basePr,
                         basePrs>>
      BY <1>3, <2>1 DEF ChooseHead
    <3> QED
      BY <1>19, <3>1, <3>2
  <2>2. CASE ~(seen \in snap /\ Green(seen))
    BY <1>3, <1>19, <2>2 DEF ChooseHead
  <2> QED
    BY <2>1, <2>2
<1>4. CASE FetchHead
  BY <1>4 DEF FetchHead, IsOwnCommit
<1>5. CASE WriteFile
  <2>1. /\ clean' = FALSE
        /\ UNCHANGED <<headMove, baseMove, snap, seen, local, fixtures, baseBranch, basePr,
                       basePrs>>
        /\ \/ stage = "write" /\ stage' = "commit"
           \/ stage = "writeBase" /\ stage' = "commitBase"
    BY <1>5 DEF WriteFile
  <2>2. DriverTypeOK'
    BY <2>1
  <2>3. StageFitsRecord'
    BY <2>1
  <2>4. CanaryIsRecorded' /\ BaseFollowsHead' /\ RecordedDisturbanceIsReal'
    BY <2>1
  <2> QED
    BY <1>19, <2>2, <2>3, <2>4
<1>6. CASE NoteHead
  BY <1>6 DEF NoteHead
<1>7. CASE RecordHead
  <2>1. local \in pushed /\ local \in 0..MaxCommits
    BY <1>7 DEF RecordHead
  <2>2. /\ headMove'.state = "pushed" /\ headMove'.old = headMove.old
        /\ headMove'.new = local
        /\ headMove' \in [state : {"none", "prepared", "pushed"},
                           old : 0..MaxCommits, new : 0..MaxCommits]
    BY <1>7, <2>1 DEF RecordHead
  <2>3. /\ stage' = "idle" /\ snap' = {} /\ seen' = 0 /\ local' = 0
        /\ UNCHANGED <<baseMove, clean, fixtures, baseBranch, basePr, basePrs>>
        /\ headMove.state = "prepared"
        /\ author[local] = "driver" /\ parent[local] = headMove.old
    BY <1>7 DEF RecordHead
  <2>4. DriverTypeOK' /\ StageFitsRecord' /\ BaseFollowsHead'
    BY <2>2, <2>3
  <2>5. CanaryIsRecorded'
    BY <2>2, <2>3
  <2>6. RecordedDisturbanceIsReal'
    BY <2>1, <2>2, <2>3
  <2> QED
    BY <1>19, <2>4, <2>5, <2>6
<1>8. CASE Settle
  <2>1. CASE headMove.new \in snap /\ Green(headMove.new)
    <3>1. headMove.new \in approved \cap Commits
      BY <2>1, BranchFacts DEF GateInv
    <3>2. buckets[headMove.new] # {} /\ ClassifyChecks(buckets[headMove.new]) = "pass"
      BY <2>1 DEF Green, ClassifyChecks
    <3>3. headMove.new \in approved \cap passed
      BY <3>1, <3>2 DEF GateInv, GreenHasPassed
    <3>4. /\ baseMove' \in [state : {"none", "prepared", "merged"},
                             head : 0..MaxFixtures, pr : BOOLEAN]
          /\ baseMove'.state = "merged" => baseMove.state = "merged"
          /\ stage' = "lookup" /\ stage = "settle"
          /\ UNCHANGED <<headMove, clean, snap, seen, local, fixtures, baseBranch, basePr,
                         basePrs>>
      BY <1>8, <2>1 DEF Settle
    <3> QED
      BY <1>19, <3>3, <3>4
  <2>2. CASE ~(headMove.new \in snap /\ Green(headMove.new))
    BY <1>8, <1>19, <2>2 DEF Settle
  <2> QED
    BY <2>1, <2>2
<1>9. CASE LookUpRecorded
  BY <1>9 DEF LookUpRecorded
<1>10. CASE LookUpBranch
  BY <1>10 DEF LookUpBranch
<1>11. CASE CommitBase
  <2>1. fixtures + 1 \in 0..MaxFixtures
    BY <1>11, DriverAssumption DEF CommitBase
  <2> QED
    BY <1>11, <1>19, <2>1 DEF CommitBase
<1>12. CASE NoteBase
  BY <1>12 DEF NoteBase
<1>13. CASE PushBase
  BY <1>13 DEF PushBase
<1>14. CASE OpenBasePr
  BY <1>14 DEF OpenBasePr
<1>15. CASE RecordBasePr
  <2>1. local \in 0..MaxFixtures
    BY <1>15 DEF RecordBasePr
  <2>2. /\ baseMove' \in [state : {"none", "prepared", "merged"},
                           head : 0..MaxFixtures, pr : BOOLEAN]
        /\ baseMove'.state = baseMove.state
    BY <1>15, <2>1 DEF RecordBasePr
  <2>3. /\ stage = "recordPr" /\ stage' = "mergeBase"
        /\ UNCHANGED <<headMove, clean, snap, seen, local, fixtures, baseBranch, basePr,
                       basePrs>>
    BY <1>15 DEF RecordBasePr
  <2> QED
    BY <1>19, <2>1, <2>2, <2>3
<1>16. CASE RecordBase
  BY <1>16 DEF RecordBase
<1>17. CASE DriverStops
  BY <1>17 DEF DriverStops
<1>18. CASE BaseChecks
  BY <1>18 DEF BaseChecks
<1> QED
  BY <1>1, <1>2, <1>3, <1>4, <1>5, <1>6, <1>7, <1>8, <1>9, <1>10, <1>11, <1>12, <1>13, <1>14,
     <1>15, <1>16, <1>17, <1>18, <1>19 DEF OnTheRecord
(* The canary is committed on the recorded old head; it is not pushed yet.  *)
LEMMA CommitHeadStep ==
  ASSUME GateInv, DriverInv, CommitHead
  PROVE  GateInv' /\ DriverInv'
<1> USE DEF GateInv
<1>1. /\ stage = "commit" /\ local = headMove.old /\ headMove.state = "prepared"
      /\ local \in approved
  BY DEF CommitHead, DriverInv, StageFitsRecord, HeadStages, CanaryIsRecorded
<1>2. /\ local \in 1..made /\ local \in 0..MaxCommits /\ "driver" \in Authors
      /\ basis[local] \in 0..MaxMain /\ made \in Nat /\ pushed \subseteq 1..made
  BY <1>1, BranchFacts DEF GateTypeOK, Authors
<1>3. NewCommit(made + 1, "driver", local, basis[local])
  BY DEF CommitHead
<1>4. /\ made' = made + 1 /\ made' \in Commits
      /\ author' \in [Commits -> Authors] /\ parent' \in [Commits -> 0..MaxCommits]
      /\ basis' \in [Commits -> 0..MaxMain]
      /\ author'[made'] = "driver" /\ parent'[made'] = local
      /\ \A c \in 1..made : author'[c] = author[c] /\ parent'[c] = parent[c]
  BY <1>2, <1>3, NewCommitEffect
<1>5. \A c \in 1..made' : parent'[c] < c
  BY <1>2, <1>3, NewCommitGrows
<1>6. /\ UNCHANGED <<buckets, passed, pushed, head, prState, main, computed, workflows,
                     approved, at, expected, view, ci, behind>>
      /\ UNCHANGED <<headMove, baseMove, snap, seen>>
      /\ UNCHANGED <<fixtures, baseBranch, basePr, basePrs>>
      /\ local' = made' /\ clean' = TRUE /\ stage' = "note"
  BY <1>4 DEF CommitHead, call, manifest, base
<1>7. GateTypeOK'
  <2>1. pushed' \subseteq 1..made'
    BY <1>2, <1>4, <1>6
  <2> QED
    BY <1>4, <1>6, <2>1 DEF GateTypeOK
<1>8. BranchGrows' /\ GreenHasPassed' /\ ReportIsSound' /\ MergedWasGreen'
  BY <1>5, <1>6 DEF BranchGrows, GreenHasPassed, ReportIsSound, MergedWasGreen
<1>9. Canaries' = Canaries
  BY <1>2, <1>4, <1>6 DEF Canaries
<1>10. DriverTypeOK'
  BY <1>6 DEF DriverInv, DriverTypeOK, HeadStages, BaseStages
<1>11. StageFitsRecord'
  <2>1. OwnCommit(local)'
    BY <1>1, <1>2, <1>4, <1>6 DEF OwnCommit
  <2> QED
    BY <1>1, <1>6, <2>1 DEF StageFitsRecord, HeadStages, BaseStages
<1>12. CanaryIsRecorded'
  BY <1>2, <1>4, <1>6, <1>9 DEF DriverInv, CanaryIsRecorded, Canaries
<1>13. BaseFollowsHead' /\ RecordedDisturbanceIsReal'
  BY <1>1, <1>6 DEF DriverInv, BaseFollowsHead, RecordedDisturbanceIsReal
<1> QED
  BY <1>7, <1>8, <1>10, <1>11, <1>12, <1>13 DEF DriverInv

(* The canary goes on the recorded old head: had one gone there before, the *)
(* head would have moved, and Git refuses the push.                         *)
LEMMA PushHeadStep ==
  ASSUME GateInv, DriverInv, PushHead
  PROVE  GateInv' /\ DriverInv'
<1> USE DEF GateInv
<1>1. /\ stage = "push" /\ headMove.state = "prepared" /\ headMove.old \in approved
      /\ local \in 1..made /\ author[local] = "driver" /\ parent[local] = headMove.old
      /\ head = headMove.old
  BY DEF PushHead, DriverInv, StageFitsRecord, HeadStages, CanaryIsRecorded, OwnCommit
<1>2. /\ made \in Nat /\ pushed \subseteq 1..made /\ local \in Commits /\ local > head
  BY <1>1, BranchFacts DEF BranchGrows
<1>3. /\ head' = local /\ pushed' = pushed \cup {local} /\ computed' = FALSE
      /\ UNCHANGED <<made, author, parent, basis, buckets, passed, prState, main, workflows,
                     approved, at, expected, view, ci, behind>>
      /\ UNCHANGED <<headMove, baseMove, clean, snap, seen, local, fixtures, baseBranch,
                     basePr, basePrs>>
      /\ stage' = "record" /\ MoveHead(local)
  BY DEF PushHead, MoveHead, commits, call, manifest, base
<1>4. GateTypeOK'
  BY <1>1, <1>2, <1>3 DEF GateTypeOK
<1>5. /\ \A d \in pushed' : d <= head'
      /\ ReportIsSound' /\ MergedWasGreen'
  BY <1>2, <1>3, MoveHeadKeeps DEF call
<1>6. BranchGrows' /\ GreenHasPassed'
  BY <1>3, <1>5 DEF BranchGrows, GreenHasPassed
<1>7. Canaries = {}
  <2> SUFFICES ASSUME NEW c \in Canaries PROVE FALSE
    OBVIOUS
  <2>1. c \in pushed /\ parent[c] = head
    BY <1>1 DEF DriverInv, CanaryIsRecorded, Canaries
  <2>2. parent[c] < c /\ c <= head
    BY <1>2, <2>1 DEF BranchGrows
  <2>3. c \in Nat /\ head \in Nat
    BY <1>2, <2>1, BranchFacts
  <2> QED
    BY <2>1, <2>2, <2>3
<1>8. Canaries' = {local}
  BY <1>1, <1>3, <1>7 DEF Canaries
<1>9. DriverTypeOK'
  BY <1>3 DEF DriverInv, DriverTypeOK, HeadStages, BaseStages
<1>10. StageFitsRecord'
  BY <1>1, <1>3 DEF DriverInv, StageFitsRecord, OwnCommit, HeadStages, BaseStages
<1>11. CanaryIsRecorded'
  BY <1>1, <1>3, <1>8 DEF CanaryIsRecorded
<1>12. BaseFollowsHead' /\ RecordedDisturbanceIsReal'
  BY <1>1, <1>3 DEF DriverInv, BaseFollowsHead, RecordedDisturbanceIsReal
<1> QED
  BY <1>4, <1>5, <1>6, <1>9, <1>10, <1>11, <1>12 DEF DriverInv

(* The base is merged after the moved head was approved and green.          *)
LEMMA MergeBaseStep ==
  ASSUME GateInv, DriverInv, MergeBase
  PROVE  GateInv' /\ DriverInv'
<1> USE DEF GateInv
<1>1. /\ stage = "mergeBase" /\ headMove.state = "pushed"
      /\ headMove.new \in approved \cap passed
  BY DEF MergeBase, DriverInv, StageFitsRecord, BaseStages
<1>2. /\ UNCHANGED <<made, author, parent, basis, buckets, passed, pushed, head, prState,
                     workflows, approved, at, expected, view, ci, behind>>
      /\ UNCHANGED <<headMove, baseMove, clean, fixtures, basePrs>>
  BY DEF MergeBase, commits, call, manifest
<1>3. GateTypeOK'
  <2>1. main' \in 0..MaxMain /\ computed' \in BOOLEAN
    <3>1. main \in 0..MaxMain /\ computed \in BOOLEAN /\ MaxMain \in Nat
      BY GateAssumption DEF GateTypeOK
    <3>2. \/ main < MaxMain /\ main' = main + 1 /\ computed' = FALSE
          \/ main' = main /\ computed' = computed
      BY DEF MergeBase
    <3>3. main' \in 0..MaxMain
      <4>1. (main' = main + 1 /\ main < MaxMain) \/ main' = main
        BY <3>2
      <4>2. main \in 0..MaxMain /\ MaxMain \in Nat
        BY <3>1
      <4> HIDE DEF GateInv
      <4> QED
        BY <4>1, <4>2
    <3>4. computed' \in BOOLEAN
      BY <3>1, <3>2
    <3> QED
      BY <3>3, <3>4
  <2> QED
    BY <1>2, <2>1 DEF GateTypeOK
<1>4. BranchGrows' /\ GreenHasPassed' /\ ReportIsSound' /\ MergedWasGreen'
  BY <1>2 DEF BranchGrows, GreenHasPassed, ReportIsSound, MergedWasGreen
<1>5. \/ /\ stage' = "recordBase" /\ UNCHANGED <<snap, seen, local>>
         /\ basePr' = "merged" /\ baseBranch' \in {0, baseBranch}
         /\ basePr # "none"
      \/ /\ stage' = "idle" /\ snap' = {} /\ seen' = 0 /\ local' = 0
         /\ basePr' = basePr /\ baseBranch' = baseBranch
  BY DEF MergeBase, GoTo, EndPass
<1>6. 0 \in 0..MaxCommits /\ 0 \in 0..MaxFixtures
  BY DriverAssumption, BranchFacts
<1>7. DriverTypeOK'
  BY <1>1, <1>2, <1>5, <1>6 DEF DriverInv, DriverTypeOK, HeadStages, BaseStages
<1>8. StageFitsRecord'
  BY <1>1, <1>2, <1>5 DEF DriverInv, StageFitsRecord, HeadStages, BaseStages
<1>9. CanaryIsRecorded'
  BY <1>2 DEF DriverInv, CanaryIsRecorded, Canaries
<1>10. BaseFollowsHead'
  BY <1>1, <1>2, <1>5 DEF DriverInv, BaseFollowsHead
<1>11. RecordedDisturbanceIsReal'
  BY <1>1, <1>2, <1>5 DEF DriverInv, RecordedDisturbanceIsReal
<1> QED
  BY <1>3, <1>4, <1>7, <1>8, <1>9, <1>10, <1>11 DEF DriverInv

(* No pass has begun, and nothing is recorded.                              *)
LEMMA InitDriverInv == Init => DriverInv
<1> SUFFICES ASSUME Init PROVE DriverInv
  OBVIOUS
<1>1. 0 \in 0..MaxCommits /\ 0 \in 0..MaxFixtures
  BY GateAssumption, DriverAssumption
<1>2. pushed = {1} /\ author[1] = "worker"
  <2>1. 1 \in Commits
    BY GateAssumption DEF Commits
  <2> QED
    BY <2>1 DEF Init, GateInit
<1>3. Canaries = {}
  BY <1>2 DEF Canaries
<1>4. DriverTypeOK
  BY <1>1 DEF Init, DriverTypeOK, HeadStages, BaseStages
<1> QED
  BY <1>3, <1>4 DEF Init, DriverInv, StageFitsRecord, CanaryIsRecorded, BaseFollowsHead,
                    RecordedDisturbanceIsReal, HeadStages, BaseStages

-------------------------------------------------------------------------------
(* The invariant *)

(* The invariant of the whole is inductive.                                 *)
LEMMA Inductive == Spec => []IInv
<1>1. Init => IInv
  BY InitSetupInv, InitGateInv, InitDriverInv DEF IInv
<1>2. IInv /\ [Next]_vars => IInv'
  <2> SUFFICES ASSUME IInv, [Next]_vars PROVE IInv'
    OBVIOUS
  <2> USE DEF IInv
  <2>1. ASSUME UNCHANGED setupVars PROVE SetupInv'
    BY <2>1 DEF setupVars, bobVars, SetupInv, SetupTypeOK, Progress, LocalProgress,
                NetworkedProgress, IssueClosesSetup, AssetsReady, From
  <2>2. ASSUME UNCHANGED gateVars PROVE BranchStays
    BY <2>2, BranchFacts DEF GateInv, gateVars, github, commits, BranchStays
  <2>3. CASE SetupNext /\ UNCHANGED <<gateVars, driverVars>>
    BY <2>2, <2>3, SetupStep, GateUntouched, DriverBeside DEF GateInv
  <2>4. CASE GateNext /\ UNCHANGED <<setupVars, driverVars>>
    BY <2>1, <2>4, GateStep, GateStays, DriverBeside DEF GateInv
  <2>5. CASE DriverNext /\ UNCHANGED setupVars
    BY <2>1, <2>5, DriverLocal, GateUntouched, CommitHeadStep, PushHeadStep, MergeBaseStep
       DEF DriverNext, OnTheRecord
  <2>6. CASE UNCHANGED vars
    BY <2>1, <2>2, <2>6, GateUntouched, DriverBeside DEF vars, GateInv
  <2> QED
    BY <2>3, <2>4, <2>5, <2>6 DEF Next
<1> QED
  BY <1>1, <1>2, PTL DEF Spec

-------------------------------------------------------------------------------
(* The theorems *)

(* Every variable of the set-up, the gate and the driver holds a value of   *)
(* its type.                                                                *)
THEOREM TypeCorrect == Spec => []TypeOK
<1>1. IInv => TypeOK
  BY DEF IInv, SetupInv, GateInv, DriverInv, DriverTypeOK, GateTypeOK, TypeOK
<1> QED
  BY Inductive, <1>1, PTL

(* A prepare that dies anywhere and is called again consumes one issue, and *)
(* only when every asset of the run is there.                               *)
THEOREM IssueIsConsumedOnce == Spec => []IssueConsumedOnce
<1>1. IInv => IssueConsumedOnce
  BY DEF IInv, SetupInv, IssueClosesSetup, AssetsReady, IssueConsumedOnce
<1> QED
  BY Inductive, <1>1, PTL

(* What gh pr merge --match-head-commit merges was approved and green, in   *)
(* whatever order the reads of the report fell among the pushes.            *)
THEOREM MergesAreGreen == Spec => []MergedWasGreen
<1>1. IInv => MergedWasGreen
  BY DEF IInv, GateInv
<1> QED
  BY Inductive, <1>1, PTL

(* A driver that is killed and started again at any step moves the head     *)
(* once and opens one base pull request.                                    *)
THEOREM DisturbsOnce == Spec => []OneDisturbanceEach
<1>1. IInv => OneDisturbanceEach
  <2> SUFFICES ASSUME IInv PROVE OneDisturbanceEach
    OBVIOUS
  <2>1. Cardinality(Canaries) <= 1
    <3>1. CASE Canaries = {}
      BY <3>1, FS_EmptySet
    <3>2. CASE Canaries # {}
      <4>1. PICK c \in Canaries : Canaries = {c}
        BY <3>2 DEF IInv, DriverInv, CanaryIsRecorded
      <4>2. Cardinality({c}) = 1
        BY FS_Singleton
      <4> QED
        BY <4>1, <4>2
    <3> QED
      BY <3>1, <3>2
  <2>2. basePrs <= 1
    BY DEF IInv, DriverInv, BaseFollowsHead
  <2> QED
    BY <2>1, <2>2 DEF Canaries, OneDisturbanceEach
<1> QED
  BY Inductive, <1>1, PTL

(* What run.json records as done was done on GitHub, and the base was moved *)
(* only after the moved head was approved and green in its turn.            *)
THEOREM RecordIsReal == Spec => []RecordedDisturbanceIsReal
<1>1. IInv => RecordedDisturbanceIsReal
  BY DEF IInv, DriverInv
<1> QED
  BY Inductive, <1>1, PTL

===============================================================================
