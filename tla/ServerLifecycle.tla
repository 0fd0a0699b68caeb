-------------------------- MODULE ServerLifecycle --------------------------
(***************************************************************************)
(* A server process started, and restarted, beside the commands of         *)
(* ArtifactStore.  The launcher is the container entrypoint, which runs    *)
(* `init` first when the directory holds no artifact and is gone when its  *)
(* process exits (docker run --rm), or a service unit, which starts the    *)
(* server at once and has Restart=on-failure.  The server reads the        *)
(* directory twice (select_artifact_source, then the listing in            *)
(* load_operations_from_yamls) and then parses file after file, with no    *)
(* lock against the command that is writing.                               *)
(***************************************************************************)
EXTENDS ArtifactStore

VARIABLES
  launcher,   \* "entrypoint" or "unit"; never changes
  bundle,     \* whether default_artifacts_dir holds specifications; never changes
  server,     \* where the server process is
  files,      \* the files still to parse
  loaded,     \* the files parsed
  changed     \* history: the files some command changed since the process started

deployment == <<launcher, bundle>>
service == <<deployment, server, files, loaded, changed>>

(* "down": no process, and nothing starts one but an operator; "failed": the *)
(* unit's process exited with a failure and systemd is to restart it.        *)
Starting == {"initializing", "select", "list", "load"}
Stopped == {"down", "failed"}

ServiceTypeOK ==
  /\ TypeOK
  /\ launcher \in {"entrypoint", "unit"} /\ bundle \in BOOLEAN
  /\ server \in {"serving", "bundled", "noArtifacts"} \cup Starting \cup Stopped
  /\ files \in SUBSET File /\ loaded \in SUBSET File /\ changed \in SUBSET File

ServiceInit ==
  /\ Init
  /\ launcher \in {"entrypoint", "unit"} /\ bundle \in BOOLEAN
  /\ server = "down" /\ files = {} /\ loaded = {} /\ changed = {}

(* OpenAPIParser.load takes any YAML mapping, the start of a document too. *)
Loadable == {"mapping", "partial"}

-----------------------------------------------------------------------------
(* Mutations. *)

EntrypointIgnoresInit ==
  /\ server = "initializing" /\ pc \in Rest
  /\ server' = "select" /\ changed' = {}
  /\ UNCHANGED <<vars, deployment, files, loaded>>
SkipsUnloadable(f) ==
  /\ server = "load" /\ f \in files
  /\ files' = files \ {f}
  /\ IF runtime[f] \in Loadable THEN loaded' = loaded \cup {f} ELSE UNCHANGED loaded
  /\ UNCHANGED <<vars, deployment, server, changed>>
NeverRestarts == FALSE
ListsNamespaces ==
  /\ server = "list" /\ server' = "load"
  /\ files' = {f[1] : f \in Present(runtime)} /\ loaded' = {}
  /\ UNCHANGED <<vars, deployment, changed>>

-----------------------------------------------------------------------------
(* docker-entrypoint.sh; the unit goes straight to the server. *)

Begin ==
  /\ server' = "select" /\ changed' = {}
  /\ UNCHANGED <<vars, deployment, files, loaded>>

(* An operator's `docker run` or `systemctl start`. *)
Launch ==
  /\ server = "down"
  /\ launcher = "unit" \/ Present(runtime) # {}
  /\ Begin

(* nutanix-mcp init, when find sees no artifact.  A command an operator     *)
(* runs at the same moment is left out: the two would share the directory.  *)
LaunchInit ==
  /\ server = "down" /\ launcher = "entrypoint"
  /\ Present(runtime) = {}
  /\ StartInit
  /\ server' = "initializing"
  /\ UNCHANGED <<deployment, files, loaded, changed>>

(* init exits with status 0 only if an artifact file is there, and `set -e` *)
(* ends the container otherwise.                                            *)
InitExits ==
  /\ server = "initializing" /\ pc \in Rest
  /\ server' = IF pc = "finished" /\ Present(runtime) # {} THEN "select" ELSE "down"
  /\ changed' = {}
  /\ UNCHANGED <<vars, deployment, files, loaded>>

-----------------------------------------------------------------------------
(* server.py. *)

(* select_artifact_source *)
Select ==
  /\ server = "select"
  /\ server' = CASE Present(runtime) # {} -> "list"
                 [] Present(runtime) = {} /\ bundle -> "bundled"
                 [] OTHER -> "noArtifacts"
  /\ UNCHANGED <<vars, deployment, files, loaded, changed>>

(* load_operations_from_yamls lists the chosen directory again. *)
List ==
  /\ server = "list" /\ server' = "load"
  /\ files' = Present(runtime) /\ loaded' = {}
  /\ UNCHANGED <<vars, deployment, changed>>

Load(f) ==
  /\ server = "load" /\ f \in files
  /\ runtime[f] \in Loadable
  /\ files' = files \ {f} /\ loaded' = loaded \cup {f}
  /\ UNCHANGED <<vars, deployment, server, changed>>

(* An uncaught exception ends the process: a container is gone with it. *)
Failure ==
  /\ server' = IF launcher = "unit" THEN "failed" ELSE "down"
  /\ files' = {} /\ loaded' = {} /\ changed' = {}
  /\ UNCHANGED <<vars, deployment>>

(* OpenAPIParser.load raises: the file is gone, or holds no mapping. *)
LoadFails(f) ==
  /\ server = "load" /\ f \in files
  /\ runtime[f] \notin Loadable
  /\ Failure

(* select_artifact_source's RuntimeError. *)
Raise == server = "noArtifacts" /\ Failure

Serve ==
  /\ server = "load" /\ files = {}
  /\ server' = "serving"
  /\ UNCHANGED <<vars, deployment, files, loaded, changed>>

-----------------------------------------------------------------------------
(* The supervisor and the operator. *)

(* Restart=on-failure, RestartSec=5s. *)
Restart == server = "failed" /\ Begin

(* The process is stopped, or its standard input is closed: no failure. *)
Stop ==
  /\ server \notin {"down", "initializing"}
  /\ server' = "down" /\ files' = {} /\ loaded' = {} /\ changed' = {}
  /\ UNCHANGED <<vars, deployment>>

-----------------------------------------------------------------------------
CommandStep ==
  /\ Proceed \/ Crash
  /\ changed' = IF server \in Stopped THEN changed
                ELSE changed \cup {f \in File : runtime'[f] # runtime[f]}
  /\ UNCHANGED <<deployment, server, files, loaded>>

(* An operator starts a command at any time but during the entrypoint's. *)
OperatorStep ==
  /\ server # "initializing"
  /\ StartInit \/ StartRefresh
  /\ UNCHANGED service

(* What a server process that was started does by itself. *)
ServerStep ==
  \/ InitExits
  \/ Select \/ List \/ Serve \/ Raise
  \/ \E f \in File : Load(f) \/ LoadFails(f)

ServiceNext ==
  \/ CommandStep \/ ServerStep \/ Restart
  \/ OperatorStep \/ Launch \/ LaunchInit \/ Stop

serviceVars == <<vars, service>>

(* The command and the server run on, and systemd restarts a unit that      *)
(* failed.  Nothing makes an operator start or stop anything, and nothing   *)
(* but an operator starts a container again.                                *)
ServiceFairness ==
  WF_serviceVars(CommandStep) /\ WF_serviceVars(ServerStep) /\ WF_serviceVars(Restart)

ServiceSpec ==
  ServiceInit /\ [][ServiceNext]_serviceVars /\ ServiceFairness

-----------------------------------------------------------------------------
(* Properties. *)

(* Whatever a command does to other files while a server starts, a file it  *)
(* left alone is served exactly when it is there: none is passed over, an   *)
(* unreadable one stops the start (load_operations_from_yamls), and the     *)
(* bundled specifications or a failure take the directory's place only if   *)
(* no such file is there.  What a write cut short left of a document counts *)
(* as a file like any other when it parses to a mapping.                    *)
UntouchedFilesAreServed ==
  /\ server = "serving" =>
       \A f \in File \ changed :
         /\ f \in loaded <=> runtime[f] # "absent"
         /\ f \in loaded => runtime[f] \in Loadable
  /\ server \in {"bundled", "noArtifacts"} => Present(runtime) \subseteq changed

(* Behind the entrypoint a server does not lack artifacts, nor fall back to *)
(* the bundled ones, unless a command took them away while it started:      *)
(* init's exit status ends the container first (docs/configuration.md,      *)
(* "init exits with status 1").                                             *)
EntrypointFindsArtifacts ==
  launcher = "entrypoint" /\ server \in {"noArtifacts", "bundled"} => changed # {}

Healthy ==
  /\ pc \in Rest /\ Present(runtime) # {}
  /\ \A f \in Present(runtime) : runtime[f] \in Loadable

ServesAll == server = "serving" /\ loaded = Present(runtime)

(* A unit whose server failed, over a race with a command or over what one  *)
(* left, serves the whole directory once the commands are over and it can   *)
(* be loaded, unless it is stopped (Restart=on-failure); so does a server   *)
(* of either launcher that has not listed the directory yet.                *)
HealthyDirectoryIsServed ==
  /\ server \in {"failed", "select", "list"}
  /\ []Healthy
  ~> ServesAll \/ server = "down"

(* docs/configuration.md:242: if no artifacts are found, startup fails.     *)
(* The two listings let a refresh empty the directory in between.           *)
ServingHasArtifacts == server = "serving" => loaded # {}
=============================================================================
