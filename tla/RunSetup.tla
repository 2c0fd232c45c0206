------------------------------ MODULE RunSetup ------------------------------
(***************************************************************************)
(* prepare of scripts/step6.py: the set-up of a measured run, which may    *)
(* die or be refused at any step and be called again on the same           *)
(* directory. setup.json says how far it came, run.json is the manifest;   *)
(* a seeded run ends by consuming a GitHub issue.                          *)
(***************************************************************************)
EXTENDS Naturals, Sequences

CONSTANT Networked   \* the scenario has Bob on another host (Step 7)

ASSUME SetupAssumption == Networked \in BOOLEAN

Clones == {"bob", "charlie", "driver"}

VARIABLES
    directory,   \* the run directory exists
    phase,       \* setup.json's phase; "none": no such file
    seeded,      \* the mode setup.json records
    token,       \* the token file: "absent", "empty", "written"
    clone,       \* each clone: "absent", "cloning" (by this call), "bare" (left
                 \* without its identity by an earlier one), "dirty", "clean"
    skill,       \* the worker skill is in Bob's clone, and excluded from its commits
    bobHost,     \* Bob's directory on his own host: "none", "config", "manifest"
    runJson,     \* run.json: "none", "base", "complete" (clones checked), "issue"
    rendered,    \* the configurations and prompts are written
    issues,      \* issues created on GitHub for this run
    setupAt      \* the next step of prepare, an index of Plan; 0: not running

bobVars == <<skill, bobHost>>
setupVars ==
    <<directory, phase, seeded, token, clone, bobVars, runJson, rendered, issues, setupAt>>

(* The steps of a call in their order; a retry begins with "token". With    *)
(* Bob on his own host his part comes late and is prepare_bob's: there      *)
(* prepare-run.py --worker-only clones with its own git, then his skill.    *)
LocalPlan ==
    <<"mkdir", "checkpoint", "token", "write", "clones", "mark", "unmark", "manifest",
      "skill", "exclude", "render", "ready", "creating", "create", "record", "done">>

NetworkedPlan ==
    <<"mkdir", "checkpoint", "token", "write", "clones", "manifest", "render", "preflight",
      "hubToken", "bob", "bobConfig", "bobManifest", "skill", "exclude",
      "mark", "unmark", "complete", "ready", "creating", "create", "record", "done">>

Plan == IF Networked THEN NetworkedPlan ELSE LocalPlan

Step(s) == setupAt # 0 /\ Plan[setupAt] = s

Retry == CHOOSE i \in DOMAIN Plan : Plan[i] = "token"

Advance == setupAt' = setupAt + 1

(* A networked Bob is bootstrapped on Windows, after the preflight.         *)
ClonesDue ==
    IF Step("bob") THEN {"bob"}
    ELSE IF ~Step("clones") THEN {}
    ELSE IF Networked THEN Clones \ {"bob"} ELSE Clones

SetupInit ==
    /\ directory = FALSE
    /\ phase = "none"
    /\ seeded = FALSE
    /\ token = "absent"
    /\ clone = [c \in Clones |-> "absent"]
    /\ skill = FALSE
    /\ bobHost = "none"
    /\ runJson = "none"
    /\ rendered = FALSE
    /\ issues = 0
    /\ setupAt = 0

----------------------------------------------------------------------------

(* prepare(seed): a directory that exists is reused only while preparing,   *)
(* or ready and seeded with no issue yet, and only in the same mode.        *)
CallPrepare(seed) ==
    /\ setupAt = 0
    /\ IF ~directory
       THEN setupAt' = 1 /\ seeded' = seed
       ELSE /\ phase = "preparing" \/ (phase = "ready" /\ seeded)
            /\ runJson # "issue"
            /\ seeded = seed
            /\ setupAt' = Retry
            /\ UNCHANGED seeded
    /\ UNCHANGED <<directory, phase, token, clone, runJson, rendered, issues, bobVars>>

MakeDirectory ==
    /\ Step("mkdir")
    /\ directory' = TRUE
    /\ Advance
    /\ UNCHANGED <<phase, seeded, token, clone, runJson, rendered, issues, bobVars>>

SaveCheckpoint ==
    /\ Step("checkpoint")
    /\ phase' = "preparing"
    /\ Advance
    /\ UNCHANGED <<directory, seeded, token, clone, runJson, rendered, issues, bobVars>>

(* write_text creates the file before it fills it, and a file that exists   *)
(* is left as it is.                                                        *)
CreateToken ==
    /\ Step("token")
    /\ IF token = "absent"
       THEN token' = "empty" /\ Advance
       ELSE setupAt' = setupAt + 2 /\ UNCHANGED token
    /\ UNCHANGED <<directory, phase, seeded, clone, runJson, rendered, issues, bobVars>>

WriteToken ==
    /\ Step("write")
    /\ token' = "written"
    /\ Advance
    /\ UNCHANGED <<directory, phase, seeded, clone, runJson, rendered, issues, bobVars>>

(* bootstrap-workspace.py: git clone, then the identity file. A clone that  *)
(* is there is left alone: refused without its identity, or dirty.          *)
Clone(c) ==
    /\ c \in ClonesDue
    /\ \/ clone[c] = "absent" /\ clone' = [clone EXCEPT ![c] = "cloning"]
       \/ clone[c] = "cloning" /\ clone' = [clone EXCEPT ![c] = "clean"]
    /\ UNCHANGED <<directory, phase, seeded, token, runJson, rendered, issues, setupAt, bobVars>>

ClonesReady ==
    /\ ClonesDue # {}
    /\ \A c \in ClonesDue : clone[c] = "clean"
    /\ Advance
    /\ UNCHANGED <<directory, phase, seeded, token, clone, runJson, rendered, issues, bobVars>>

(* read_hub_token: Bob's host reads the hub's file in place, and never      *)
(* makes one; a missing or empty file is refused.                           *)
ReadHubToken ==
    /\ Step("hubToken")
    /\ token = "written"
    /\ Advance
    /\ UNCHANGED <<directory, phase, seeded, token, clone, runJson, rendered, issues, bobVars>>

(* render_worker_bundle: the configuration, which holds the token, and the  *)
(* prompt, over those of an earlier call.                                   *)
RenderBob ==
    /\ Step("bobConfig")
    /\ bobHost' = IF bobHost = "none" THEN "config" ELSE bobHost
    /\ Advance
    /\ UNCHANGED <<directory, phase, seeded, token, clone, skill, runJson, rendered, issues>>

SaveBobManifest ==
    /\ Step("bobManifest")
    /\ bobHost' = "manifest"
    /\ Advance
    /\ UNCHANGED <<directory, phase, seeded, token, clone, skill, runJson, rendered, issues>>

(* The worker skill in Bob's clone, once: dirt until it is excluded.        *)
CopySkill ==
    /\ Step("skill")
    /\ clone' = IF skill THEN clone ELSE [clone EXCEPT !["bob"] = "dirty"]
    /\ Advance
    /\ UNCHANGED <<directory, phase, seeded, token, runJson, rendered, issues, bobVars>>

ExcludeSkill ==
    /\ Step("exclude")
    /\ skill' = TRUE
    /\ clone' = [clone EXCEPT !["bob"] = "clean"]
    /\ Advance
    /\ UNCHANGED <<directory, phase, seeded, token, bobHost, runJson, rendered, issues>>

(* isolated_clones: a marker that must not be seen from Charlie's clone.    *)
MarkClone ==
    /\ Step("mark")
    /\ clone' = [clone EXCEPT !["bob"] = "dirty"]
    /\ Advance
    /\ UNCHANGED <<directory, phase, seeded, token, runJson, rendered, issues, bobVars>>

UnmarkClone ==
    /\ Step("unmark")
    /\ clone' = [clone EXCEPT !["bob"] = "clean"]
    /\ Advance
    /\ UNCHANGED <<directory, phase, seeded, token, runJson, rendered, issues, bobVars>>

(* A retry writes a new manifest over the old one. Here all of its clones   *)
(* are checked; a networked one is not complete before Bob's is.            *)
SaveManifest ==
    /\ Step("manifest")
    /\ runJson' = IF Networked THEN "base" ELSE "complete"
    /\ Advance
    /\ UNCHANGED <<directory, phase, seeded, token, clone, rendered, issues, bobVars>>

Render ==
    /\ Step("render")
    /\ rendered' = TRUE
    /\ Advance
    /\ UNCHANGED <<directory, phase, seeded, token, clone, runJson, issues, bobVars>>

(* A throwaway hub must start with the run's token and be reached from      *)
(* Windows; a failed check ends the call (SetupStops).                      *)
Preflight ==
    /\ Step("preflight")
    /\ token = "written"
    /\ Advance
    /\ UNCHANGED <<directory, phase, seeded, token, clone, runJson, rendered, issues, bobVars>>

Complete ==
    /\ Step("complete")
    /\ runJson' = "complete"
    /\ Advance
    /\ UNCHANGED <<directory, phase, seeded, token, clone, rendered, issues, bobVars>>

(* A run that is not seeded ends here.                                      *)
SaveReady ==
    /\ Step("ready")
    /\ phase' = "ready"
    /\ IF seeded THEN Advance ELSE setupAt' = 0
    /\ UNCHANGED <<directory, seeded, token, clone, runJson, rendered, issues, bobVars>>

(* Fault: the phase that forbids a retry is not saved before the issue.     *)
SaveCreating_Later ==
    /\ Step("creating")
    /\ Advance
    /\ UNCHANGED <<directory, phase, seeded, token, clone, runJson, rendered, issues, bobVars>>

SaveCreating ==
    /\ Step("creating")
    /\ phase' = "issue_creating"
    /\ Advance
    /\ UNCHANGED <<directory, seeded, token, clone, runJson, rendered, issues, bobVars>>

CreateIssue ==
    /\ Step("create")
    /\ issues' = issues + 1
    /\ Advance
    /\ UNCHANGED <<directory, phase, seeded, token, clone, runJson, rendered, bobVars>>

(* The issue is recorded, and the prompts rendered again with its number.   *)
RecordIssue ==
    /\ Step("record")
    /\ runJson' = "issue"
    /\ Advance
    /\ UNCHANGED <<directory, phase, seeded, token, clone, rendered, issues, bobVars>>

(* A refusal, a failed command or a crash; what is on disk stays.           *)
SetupStops ==
    /\ setupAt # 0
    /\ ~Step("done")
    /\ setupAt' = 0
    /\ seeded' = IF phase = "none" THEN FALSE ELSE seeded
    /\ clone' = [c \in Clones |-> IF clone[c] = "cloning" THEN "bare" ELSE clone[c]]
    /\ UNCHANGED <<directory, phase, token, runJson, rendered, issues, bobVars>>

SetupNext ==
    \/ \E seed \in BOOLEAN : CallPrepare(seed)
    \/ MakeDirectory \/ SaveCheckpoint \/ CreateToken \/ WriteToken
    \/ \E c \in Clones : Clone(c)
    \/ ClonesReady \/ ReadHubToken \/ RenderBob \/ SaveBobManifest \/ CopySkill
    \/ ExcludeSkill \/ MarkClone \/ UnmarkClone \/ SaveManifest \/ Render \/ Preflight
    \/ Complete \/ SaveReady \/ SaveCreating \/ CreateIssue \/ RecordIssue
    \/ SetupStops

(* prepare has ended and printed its summary: the run may be launched.      *)
Prepared == Step("done")

----------------------------------------------------------------------------
(* Properties *)

(* Every variable holds a value of its type.                                *)
SetupTypeOK ==
    /\ directory \in BOOLEAN
    /\ phase \in {"none", "preparing", "ready", "issue_creating"}
    /\ seeded \in BOOLEAN
    /\ token \in {"absent", "empty", "written"}
    /\ clone \in [Clones -> {"absent", "cloning", "bare", "dirty", "clean"}]
    /\ skill \in BOOLEAN
    /\ bobHost \in {"none", "config", "manifest"}
    /\ runJson \in {"none", "base", "complete", "issue"}
    /\ rendered \in BOOLEAN
    /\ issues \in Nat
    /\ setupAt \in 0..Len(Plan)

(* However often a set-up dies and is called again, it consumes one issue,  *)
(* and "only after all assets are rendered" (step6.py, prepare): every      *)
(* clone has its identity and nothing uncommitted, and the manifest names   *)
(* them all; on Bob's own host his configuration is there, with a token     *)
(* that the hub takes (a run on one host checks no token: one left empty by *)
(* a crash goes unnoticed until the hub is started).                        *)
IssueConsumedOnce ==
    /\ issues <= 1
    /\ issues = 1 => /\ \A c \in Clones : clone[c] = "clean"
                     /\ skill
                     /\ rendered
                     /\ runJson \in {"complete", "issue"}
                     /\ Networked => token = "written" /\ bobHost = "manifest"

=============================================================================
