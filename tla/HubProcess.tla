----------------------------- MODULE HubProcess -----------------------------
(***************************************************************************)
(* The hub as a process: a child of Alice's runtime that speaks MCP on its *)
(* stdin and stdout and HTTP to the workers. main.py's run_hub starts HTTP *)
(* (whose lifespan makes the database and the token ready and starts the   *)
(* sweeper), then MCP; the end of either ends the other; a process that    *)
(* cannot be stopped in time is ended. It may be killed at any moment and  *)
(* is started again by the next session.                                   *)
(***************************************************************************)
EXTENDS SchemaMigration

CONSTANT MaxEvents   \* bound: events appended in all

ASSUME HubAssumption == MaxEvents \in Nat

VARIABLES
    proc,         \* "down", "starting", "loading" (the lifespan), "writing" (the
                  \* token), "binding", "running"
    injected,     \* HUB_TOKEN is set in the environment the hub is started with
    tokenFile,    \* "absent", "empty", "written"
    sweeper,      \* the sweep loop runs
    http,         \* "off", "on", "stopping", "stopped"
    mcp,          \* "off", "on", "ended", "cancelled"
    session,      \* Alice's end of the pipes: "none", "open", "closed"
    initialized,  \* the answer to an initialize request was written
    held,         \* a tool call of hers is held in the hub
    given         \* the highest event id ever given

tokenVars == <<injected, tokenFile>>
hubVars ==
    <<proc, tokenVars, sweeper, http, mcp, session, initialized, held, given>>
transports == <<sweeper, http, mcp, initialized, held>>
vars == <<migrationVars, hubVars>>

Init ==
    /\ MigrationInit
    /\ proc = "down"
    /\ injected \in BOOLEAN
    /\ tokenFile = "absent"
    /\ sweeper = FALSE
    /\ http = "off"
    /\ mcp = "off"
    /\ session = "none"
    /\ initialized = FALSE
    /\ held = FALSE
    /\ given = disk.mark

----------------------------------------------------------------------------
(* The end of a process *)

(* What the process held is gone; an open transaction is undone.            *)
Ends ==
    /\ proc' = "down"
    /\ sweeper' = FALSE
    /\ http' = "off"
    /\ mcp' = "off"
    /\ session' = "none"
    /\ initialized' = FALSE
    /\ held' = FALSE
    /\ mem' = disk
    /\ txn' = FALSE
    /\ added' = {}
    /\ high' = 0
    /\ migAt' = 0
    /\ UNCHANGED <<disk, tokenVars, given>>

Kill == proc # "down" /\ Ends

----------------------------------------------------------------------------
(* Startup *)

(* Alice's runtime starts its MCP server.                                   *)
Launch ==
    /\ proc = "down"
    /\ session = "none"
    /\ proc' = "starting"
    /\ session' = "open"
    /\ UNCHANGED <<migrationVars, tokenVars, transports, given>>

(* HubSettings.from_env: a setting that is malformed, an injected token     *)
(* that is empty, a state directory that is not absolute end the process.   *)
ReadSettings ==
    /\ proc = "starting"
    /\ \/ Ends
       \/ /\ proc' = "loading"
          /\ migAt' = 1
          /\ UNCHANGED <<disk, mem, txn, added, high, tokenVars, transports,
                         session, given>>

Migrate ==
    /\ proc = "loading"
    /\ MigrationNext
    /\ UNCHANGED hubVars

(* A statement that fails, a lock that is not released in time, a foreign   *)
(* key that no longer holds, a version newer than the hub.                  *)
MigrationFails ==
    /\ proc = "loading"
    /\ ~DatabaseReady
    /\ Ends

(* load_or_create_token: created exclusively, then written.                 *)
CreateToken ==
    /\ proc = "loading"
    /\ DatabaseReady
    /\ ~injected /\ tokenFile = "absent"
    /\ tokenFile' = "empty"
    /\ proc' = "writing"
    /\ UNCHANGED <<migrationVars, injected, transports, session, given>>

(* A write that fails removes the file again.                               *)
WriteToken ==
    /\ proc = "writing"
    /\ tokenFile' = "written"
    /\ proc' = "loading"
    /\ UNCHANGED <<migrationVars, injected, transports, session, given>>

(* An injected token is used, and no file made or read. The lifespan ends   *)
(* with the start of the sweeper.                                           *)
TakeToken ==
    /\ proc = "loading"
    /\ DatabaseReady
    /\ injected
    /\ proc' = "binding"
    /\ sweeper' = TRUE
    /\ UNCHANGED <<migrationVars, tokenVars, http, mcp, initialized, held,
                   session, given>>

(* A file that is there is read, and refused when it is empty.              *)
ReadToken ==
    /\ proc = "loading"
    /\ DatabaseReady
    /\ ~injected /\ tokenFile # "absent"
    /\ IF tokenFile = "empty"
       THEN Ends
       ELSE /\ proc' = "binding"
            /\ sweeper' = TRUE
            /\ UNCHANGED <<migrationVars, tokenVars, http, mcp, initialized, held,
                           session, given>>

(* The port is free, or another process has it.                             *)
Bind ==
    /\ proc = "binding"
    /\ \/ /\ proc' = "running"
          /\ http' = "on"
          /\ UNCHANGED <<migrationVars, tokenVars, sweeper, mcp, initialized, held,
                         session, given>>
       \/ Ends

StartMcp ==
    /\ http = "on"
    /\ mcp = "off"
    /\ mcp' = "on"
    /\ UNCHANGED <<migrationVars, proc, tokenVars, sweeper, http, session, initialized,
                   held, given>>

----------------------------------------------------------------------------
(* Service *)

Initialize ==
    /\ mcp = "on"
    /\ session = "open"
    /\ ~initialized
    /\ initialized' = TRUE
    /\ UNCHANGED <<migrationVars, proc, tokenVars, sweeper, http, mcp, session, held, given>>

(* Alice calls wait_for_event; it returns when its hold is over.            *)
CallTool ==
    /\ mcp = "on"
    /\ session = "open"
    /\ initialized
    /\ ~held
    /\ held' = TRUE
    /\ UNCHANGED <<migrationVars, proc, tokenVars, sweeper, http, mcp, session,
                   initialized, given>>

CallReturns ==
    /\ held
    /\ held' = FALSE
    /\ UNCHANGED <<migrationVars, proc, tokenVars, sweeper, http, mcp, session,
                   initialized, given>>

(* A worker's call, or the sweeper, appends an event: AUTOINCREMENT gives   *)
(* the id after the mark.                                                   *)
AppendEvent ==
    /\ http = "on"
    /\ given < Mark + MaxEvents
    /\ disk' = [disk EXCEPT !.mark = @ + 1]
    /\ mem' = disk'
    /\ given' = IF disk.mark + 1 > given THEN disk.mark + 1 ELSE given
    /\ UNCHANGED <<txn, added, high, migAt, proc, tokenVars, transports, session>>

(* The session ends and the pipes close, or it never had a stdin.           *)
CloseSession ==
    /\ session = "open"
    /\ session' = "closed"
    /\ UNCHANGED <<migrationVars, proc, tokenVars, transports, given>>

----------------------------------------------------------------------------
(* Shutdown *)

(* SIGINT or SIGTERM, or a main loop that raises.                           *)
StopSignal ==
    /\ http = "on"
    /\ http' = "stopping"
    /\ UNCHANGED <<migrationVars, proc, tokenVars, sweeper, mcp, session, initialized,
                   held, given>>

(* At the end of stdin the MCP server ends, once its last call has.         *)
McpEnds ==
    /\ mcp = "on"
    /\ session = "closed"
    /\ ~held
    /\ mcp' = "ended"
    /\ UNCHANGED <<migrationVars, proc, tokenVars, sweeper, http, session, initialized,
                   held, given>>

(* Fault: the end of MCP is not passed on to HTTP.                          *)
StopHttp_Alone ==
    /\ http = "stopping"
    /\ http' = "stopped"
    /\ sweeper' = FALSE
    /\ UNCHANGED <<migrationVars, proc, tokenVars, mcp, session, initialized, held, given>>

(* HTTP lets its requests end, no longer than timeout_graceful_shutdown,    *)
(* and the lifespan stops the sweeper.                                      *)
StopHttp ==
    /\ http = "stopping" \/ (http = "on" /\ mcp = "ended")
    /\ http' = "stopped"
    /\ sweeper' = FALSE
    /\ UNCHANGED <<migrationVars, proc, tokenVars, mcp, session, initialized, held, given>>

(* mcp.cancel(): the read of stdin is abandoned to its thread.              *)
CancelMcp ==
    /\ http = "stopped"
    /\ mcp = "on"
    /\ mcp' = "cancelled"
    /\ UNCHANGED <<migrationVars, proc, tokenVars, sweeper, http, session, initialized,
                   held, given>>

(* Both transports have ended (an error, unless a client initialized), or   *)
(* MCP did not within a second of being cancelled: the process is ended.    *)
Exit ==
    /\ http = "stopped"
    /\ mcp # "on"
    /\ Ends

StartStep ==
    \/ ReadSettings \/ Migrate \/ CreateToken \/ WriteToken \/ TakeToken \/ ReadToken
    \/ Bind \/ StartMcp

StopStep == McpEnds \/ StopHttp \/ CancelMcp \/ Exit

(* All that happens to the process but the beginning and the end of a       *)
(* session, which are Alice's.                                              *)
HubStep ==
    \/ StartStep \/ MigrationFails
    \/ Initialize \/ CallTool \/ CallReturns \/ AppendEvent
    \/ StopSignal \/ StopStep
    \/ Kill

Next == Launch \/ CloseSession \/ HubStep

Spec == Init /\ [][Next]_vars

----------------------------------------------------------------------------
(* Properties *)

(* Every variable holds a value of its type.                                *)
TypeOK ==
    /\ MigrationTypeOK
    /\ proc \in {"down", "starting", "loading", "writing", "binding", "running"}
    /\ injected \in BOOLEAN
    /\ tokenFile \in {"absent", "empty", "written"}
    /\ sweeper \in BOOLEAN
    /\ http \in {"off", "on", "stopping", "stopped"}
    /\ mcp \in {"off", "on", "ended", "cancelled"}
    /\ session \in {"none", "open", "closed"}
    /\ initialized \in BOOLEAN
    /\ held \in BOOLEAN
    /\ given \in 0..(Mark + MaxEvents)

(* The workers are answered only by a hub whose database is current and     *)
(* whose token is known, and no event id it gives was given before, in this *)
(* process or by the hub whose tables it rebuilt: an assignment's           *)
(* checkpoint is keyed by its event's id.                                   *)
ServesReadyState ==
    http # "off" => /\ disk.version = SchemaVersion
                    /\ injected \/ tokenFile = "written"
                    /\ disk.mark = given

(* Neither a start nor a shutdown hangs: once Alice's session is over, at   *)
(* any point of the start or in the middle of a held call, or once the hub  *)
(* is told to stop while her session stays open, the process ends ("either  *)
(* one's exit shuts down its sibling", main.py, run_hub).                   *)
HubDoesNotOutliveSession ==
    (session = "closed" \/ http = "stopping") ~> (proc = "down")

=============================================================================
