---------------------------- MODULE CommandLine ----------------------------
(***************************************************************************)
(* main() in cli.py: one command after another reads its settings, does    *)
(* its work, and leaves an exit status and, after init and refresh, a .env *)
(* file for the commands that follow; `run` probes Prism Central first     *)
(* (auth/readiness.py).  The operator edits .env whenever it pleases, and  *)
(* a command may be killed between any two steps or in the middle of the   *)
(* write of .env.  What happens inside a download is in ArtifactStore, and *)
(* inside the start of a server in ServerLifecycle.                        *)
(***************************************************************************)
EXTENDS Settings

CONSTANTS
  Inputs,   \* what commands are given: their flags, config file and environment
  Edits,    \* what the operator writes into .env
  Bundled   \* whether default_artifacts_dir holds specifications

ASSUME InputsAssumption ==
  /\ Inputs \subseteq [flags : Layer, file : Layer, env : Layer]
  /\ \A x \in Inputs, f \in Field \ Flagged : x.flags[f] = NotGiven
ASSUME EditsAssumption == Edits \subseteq Layer
ASSUME BundledAssumption == Bundled \in BOOLEAN

VARIABLES
  dotenv,     \* the .env file at the project root, the one Settings reads
  artifacts,  \* _runtime_artifacts_available: a *-all-documentation.yaml is there
  pc,         \* where main() is
  command,    \* args.command
  given,      \* its flags, config file and environment
  atRoot,     \* whether its working directory is the project root
  settings,   \* what load_settings returned
  answers,    \* what each attempt of _probe_pc ended in
  verdict,    \* what the last command ended in
  origin,     \* history: who wrote .env last, and which settings it meant
  read        \* history: origin when the running command loaded its settings

invocation == <<command, given, atRoot>>
process == <<invocation, settings, answers, read>>
disk == <<dotenv, artifacts, origin>>
vars == <<disk, process, pc, verdict>>

(* "validate" is run --validate-only, "serve" either serve command. *)
Commands == {"init", "refresh", "run", "validate", "serve"}

Busy == {"settings", "download", "save", "report", "readiness", "probe", "judge",
         "build", "serving"}

(* An attempt ends in a response: 2xx or 3xx, 401 or 403, another error.   *)
(* Or in an exception: a TransportError whose text mentions certificates,  *)
(* SSL or TLS and that is no timeout of connecting or reading and no       *)
(* NetworkError (ConnectError is one, and httpx wraps a certificate that   *)
(* fails in it); any other TransportError; something else.                 *)
Responses == {"accepted", "denied", "error"}
Exceptions == {"network", "certificate", "other"}

(* stop_after_attempt(3) *)
Attempts == 3

VerdictOf ==
  [accepted |-> "ok", denied |-> "auth", error |-> "unexpected",
   network |-> "connectivity", certificate |-> "tls", other |-> "raised"]

(* Status 0 for "ok", 1 for the others but "killed". *)
Verdicts == {VerdictOf[a] : a \in DOMAIN VerdictOf} \cup
  {"none", "settings", "discovery", "empty", "noArtifacts", "killed"}

Writings == [by : {"operator", "save", "torn"}, held : Layer \cup Resolved]
Unwritten == [by |-> "operator", held |-> Nothing]

NoInput == [flags |-> Nothing, file |-> Nothing, env |-> Nothing]

TypeOK ==
  /\ dotenv \in Layer /\ artifacts \in BOOLEAN
  /\ pc \in Busy \cup {"rest"}
  /\ command \in Commands /\ given \in Inputs \cup {NoInput} /\ atRoot \in BOOLEAN
  /\ settings \in Resolved
  /\ answers \in Seq(Responses \cup Exceptions) /\ Len(answers) <= Attempts
  /\ verdict \in Verdicts
  /\ origin \in Writings /\ read \in Writings

Init ==
  /\ dotenv = Nothing /\ artifacts = FALSE
  /\ origin = Unwritten /\ read = Unwritten
  /\ pc = "rest" /\ verdict = "none"
  /\ command = "run" /\ given = NoInput /\ atRoot = TRUE
  /\ settings = Defaults /\ answers = <<>>

-----------------------------------------------------------------------------
(* Around the process. *)

Invoke(c, x, here) ==
  /\ pc = "rest" /\ pc' = "settings"
  /\ command' = c /\ given' = x /\ atRoot' = here
  /\ verdict' = "none"
  /\ UNCHANGED <<disk, settings, answers, read>>

(* At another moment of a command, an edit is as good as before or after it.*)
Edit(layer) ==
  /\ pc \in {"rest", "download"}
  /\ dotenv' = layer
  /\ origin' = [by |-> "operator", held |-> layer]
  /\ UNCHANGED <<artifacts, process, pc, verdict>>

(* The end of a process, of which only the verdict is left. *)
Exit(v) ==
  /\ pc' = "rest" /\ verdict' = v
  /\ command' = "run" /\ given' = NoInput /\ atRoot' = TRUE
  /\ settings' = Defaults /\ answers' = <<>> /\ read' = Unwritten

-----------------------------------------------------------------------------
(* Mutations. *)

SavesWhatFlagsGave ==
  /\ pc = "save" /\ pc' = "report"
  /\ dotenv' = Whole(Over(given.flags, Defaults))
  /\ origin' = [by |-> "save", held |-> settings]
  /\ UNCHANGED <<artifacts, process, verdict>>
RetriesForever(e) ==
  /\ pc = "probe"
  /\ answers' = IF Len(answers) < 2 THEN Append(answers, e) ELSE <<e>>
  /\ UNCHANGED <<disk, invocation, settings, read, pc, verdict>>
GivesUpAtOnce(e) ==
  /\ pc = "probe" /\ pc' = "judge"
  /\ answers' = Append(answers, e)
  /\ UNCHANGED <<disk, invocation, settings, read, verdict>>
NeverCounts(e) ==
  /\ pc = "probe"
  /\ answers' = Append(answers, e)
  /\ pc' = IF Len(answers) > Attempts THEN "judge" ELSE "probe"
  /\ UNCHANGED <<disk, invocation, settings, read, verdict>>
SaveFailureIsFatal ==
  /\ pc = "save"
  /\ Exit("empty")
  /\ UNCHANGED disk

-----------------------------------------------------------------------------
(* Loading the settings. *)

NextStep(s) ==
  CASE command \in {"init", "refresh"} -> "download"
    [] command = "run" /\ s["pc_host"] # Default -> "readiness"
    [] OTHER -> "build"

LoadSettings ==
  LET s == Resolve(given.flags, given.file, given.env, dotenv) IN
  /\ pc = "settings" /\ ~Rejected(s)
  /\ command # "validate"
  /\ settings' = s /\ read' = origin
  /\ pc' = NextStep(s)
  /\ UNCHANGED <<disk, invocation, answers, verdict>>

(* run --validate-only prints the settings and returns. *)
PrintSettings ==
  /\ pc = "settings" /\ command = "validate"
  /\ ~Rejected(Resolve(given.flags, given.file, given.env, dotenv))
  /\ Exit("ok")
  /\ UNCHANGED disk

(* A value is rejected, the config file cannot be read, or a directory     *)
(* cannot be made.                                                         *)
LoadFails ==
  /\ pc = "settings"
  /\ Exit("settings")
  /\ UNCHANGED disk

-----------------------------------------------------------------------------
(* init and refresh. *)

(* download_yamls returns: init only adds, a refresh that completes keeps  *)
(* what there was (ArtifactStore: InitOnlyAdds, RefreshKeepsEveryNamespace).*)
Download ==
  /\ pc = "download" /\ pc' = "save"
  /\ artifacts' \in {artifacts, TRUE}
  /\ UNCHANGED <<dotenv, origin, process, verdict>>

(* get_namespaces raises: a refresh has stashed everything by then. *)
DownloadRaises ==
  /\ pc = "download"
  /\ artifacts' = (artifacts /\ command = "init")
  /\ Exit("discovery")
  /\ UNCHANGED <<dotenv, origin>>

(* _save_config_dotenv writes .env in the working directory, where nobody  *)
(* reads it unless that is the project root.                               *)
Save ==
  /\ pc = "save" /\ pc' = "report"
  /\ IF atRoot
     THEN dotenv' = Whole(settings) /\ origin' = [by |-> "save", held |-> settings]
     ELSE UNCHANGED <<dotenv, origin>>
  /\ UNCHANGED <<artifacts, process, verdict>>

(* What an interrupted write_text leaves of the file. *)
Interrupted ==
  \/ UNCHANGED <<dotenv, origin>>
  \/ /\ atRoot
     /\ dotenv' \in Torn(settings)
     /\ origin' = [by |-> "torn", held |-> settings]

(* OSError is logged, and the command goes on. *)
SaveSkipped ==
  /\ pc = "save" /\ pc' = "report"
  /\ Interrupted
  /\ UNCHANGED <<artifacts, process, verdict>>

Report ==
  /\ pc = "report"
  /\ Exit(IF command = "init" /\ ~artifacts THEN "empty" ELSE "ok")
  /\ UNCHANGED disk

-----------------------------------------------------------------------------
(* run, with a Prism Central to probe. *)

CheckAuth ==
  /\ pc = "readiness" /\ Auth(settings) # <<"none">>
  /\ pc' = "probe"
  /\ UNCHANGED <<disk, process, verdict>>

NoAuth ==
  /\ pc = "readiness" /\ Auth(settings) = <<"none">>
  /\ Exit("auth")
  /\ UNCHANGED disk

(* Any response ends the probe, also one that reports an error. *)
Answered(a) ==
  /\ pc = "probe" /\ pc' = "judge"
  /\ answers' = Append(answers, a)
  /\ UNCHANGED <<disk, invocation, settings, read, verdict>>

(* Any exception is retried; the last attempt's is raised again. *)
Raised(e) ==
  /\ pc = "probe"
  /\ answers' = Append(answers, e)
  /\ pc' = IF Len(answers') = Attempts THEN "judge" ELSE "probe"
  /\ UNCHANGED <<disk, invocation, settings, read, verdict>>

Last == VerdictOf[answers[Len(answers)]]

Ready ==
  /\ pc = "judge" /\ Last = "ok"
  /\ pc' = "build"
  /\ UNCHANGED <<disk, process, verdict>>

NotReady ==
  /\ pc = "judge" /\ Last # "ok"
  /\ Exit(Last)
  /\ UNCHANGED disk

-----------------------------------------------------------------------------
(* run and serve. *)

(* build_runtime_dispatcher *)
Built ==
  /\ pc = "build" /\ command # "serve"
  /\ artifacts \/ Bundled
  /\ Exit("ok")
  /\ UNCHANGED disk

Serve ==
  /\ pc = "build" /\ command = "serve"
  /\ artifacts \/ Bundled
  /\ pc' = "serving"
  /\ UNCHANGED <<disk, process, verdict>>

(* No artifact anywhere, or one that does not load. *)
BuildRaises ==
  /\ pc = "build"
  /\ Exit("noArtifacts")
  /\ UNCHANGED disk

Stop ==
  /\ pc = "serving"
  /\ Exit("ok")
  /\ UNCHANGED disk

(* A download that is cut short: init may have added files by then, a       *)
(* refresh may also have stashed every one there was.                       *)
Kill ==
  /\ pc \in Busy
  /\ Exit("killed")
  /\ IF pc = "save" THEN Interrupted ELSE UNCHANGED <<dotenv, origin>>
  /\ \/ UNCHANGED artifacts
     \/ pc = "download" /\ artifacts' = TRUE
     \/ pc = "download" /\ command = "refresh" /\ artifacts' = FALSE

-----------------------------------------------------------------------------
Proceed ==
  \/ LoadSettings \/ PrintSettings \/ LoadFails
  \/ Download \/ DownloadRaises
  \/ Save \/ SaveSkipped \/ Report
  \/ CheckAuth \/ NoAuth
  \/ \E a \in Responses : Answered(a)
  \/ \E e \in Exceptions : Raised(e)
  \/ Ready \/ NotReady
  \/ Built \/ Serve \/ BuildRaises

Next ==
  \/ Proceed \/ Stop \/ Kill
  \/ \E c \in Commands, x \in Inputs, here \in BOOLEAN : Invoke(c, x, here)
  \/ \E layer \in Edits : Edit(layer)

(* Every step of a command is one process at work, and each of its waits    *)
(* has a timeout; a server runs until it is stopped.                        *)
Spec == Init /\ [][Next]_vars /\ WF_vars(Proceed)

-----------------------------------------------------------------------------
(* Properties. *)

Loaded == pc \in Busy \ {"settings"}

(* A start that is given nothing: all it has is .env. *)
Bare == given = NoInput

Plain(layer, f) == ReadBack(layer[f]) = layer[f]

(* A server executes writes only if its own start asked for it, by its      *)
(* environment or config file or in a .env the operator wrote: an init run  *)
(* once with READ_ONLY_MODE=false saves no .env that lifts the default of   *)
(* later starts (_save_config_dotenv leaves read_only_mode out).            *)
WritesNeedOptIn ==
  Loaded /\ settings["read_only_mode"] # Default =>
    \/ given.file["read_only_mode"] # NotGiven
    \/ given.env["read_only_mode"] # NotGiven
    \/ read.by = "operator" /\ read.held["read_only_mode"] # NotGiven

(* Whatever layers a setting came from, a start that is given nothing and   *)
(* finds .env as an init or refresh in the project root saved it has the    *)
(* value that command resolved, for every line of _save_config_dotenv whose *)
(* value python-dotenv reads as it was written.  A save in any other        *)
(* directory (Save) is read by no start: Settings names the root's .env.    *)
SavedLinesComeBack ==
  Loaded /\ Bare /\ read.by = "save" =>
    \A f \in Saved : Plain(read.held, f) => settings[f] = read.held[f]

(* However a save was interrupted, a later start that is given nothing      *)
(* sends credentials to no other host than the one they were resolved with: *)
(* PC_HOST is the first line written.                                       *)
CredentialsFollowTheirHost ==
  /\ Loaded /\ Bare
  /\ Auth(settings) # <<"none">> /\ settings["pc_host"] # Default
  /\ Plain(read.held, "pc_host")
  => settings["pc_host"] = read.held["pc_host"]

(* The status of an init that was not cut short tells the entrypoint        *)
(* whether there is an artifact to serve, whatever became of the save in    *)
(* between (docs/configuration.md:249 and 253).                             *)
InitStatusTellsArtifacts ==
  [][command = "init" /\ verdict' # verdict /\ verdict' \in {"ok", "empty"} =>
       (verdict' = "ok" <=> artifacts)]_vars

(* `run` reports success only if the last attempt was accepted, blames the  *)
(* network or TLS only after three attempts none of which was answered, and *)
(* the credentials only if there are none or Prism Central refused them     *)
(* (_probe_pc and validate_startup_readiness).                              *)
ProbeIsConclusive ==
  [][command = "run" /\ settings["pc_host"] # Default /\ verdict' # verdict =>
       /\ verdict' \in {"ok", "noArtifacts"} => answers # <<>> /\ Last = "ok"
       /\ verdict' \in {"connectivity", "tls"} =>
            answers \in [1..Attempts -> Exceptions]
       /\ verdict' = "auth" =>
            Auth(settings) = <<"none">> \/ answers[Len(answers)] = "denied"]_vars

(* Every command but a server ends, however its probe fails. *)
CommandsEnd == command # "serve" /\ pc \in Busy ~> pc = "rest"

(* docs/configuration.md:247: "the CLI attempts to save the resolved        *)
(* settings to `.env` as a convenience for later local runs".  The switch   *)
(* that WritesNeedOptIn wants forgotten is not asked for.                   *)
SavedSettingsComeBack ==
  Loaded /\ Bare /\ read.by = "save" =>
    \A f \in Field \ {"read_only_mode"} :
      Plain(read.held, f) => settings[f] = read.held[f]
=============================================================================
