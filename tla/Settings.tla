------------------------------ MODULE Settings ------------------------------
(***************************************************************************)
(* Where the settings of a process come from (load_settings, and the .env  *)
(* source of pydantic-settings below it), what _save_config_dotenv leaves  *)
(* of them for a later process, and which credentials they amount to.      *)
(***************************************************************************)
EXTENDS Naturals, Sequences

CONSTANTS
  Value,      \* what an operator may set a field to
  Malformed,  \* one of them: text that is no integer, Boolean or log level
  Reread,     \* what python-dotenv makes of a value in an unquoted line: it
              \* strips comments and quotes and expands ${...}
  Breaks      \* after how many lines a write of .env may stop

ASSUME MalformedAssumption == Malformed \in Value
ASSUME RereadAssumption == Reread \in [Value -> Value]

(* A bound: a write may stop after any of its ten lines. *)
ASSUME BreaksAssumption == Breaks \subseteq 0..9

(* A layer does not give a field; no layer does, or the one that counts    *)
(* gives an empty string or null, which are alike to every reader of       *)
(* pc_host and the credentials (for a typed field they are Malformed); a   *)
(* line of which only a beginning reached the disk.                        *)
NotGiven == "not given"
Default == "default"
Cut == "cut"

ASSUME MarksAssumption == {NotGiven, Default, Cut} \cap Value = {}

Connection == {"pc_host", "pc_port", "pc_username", "pc_password", "pc_api_key", "pc_insecure"}
Logging == {"log_level", "log_format", "log_dir"}
Discovery == {"namespace_source_url", "namespace_override_list"}
Directories == {"artifacts_dir", "default_artifacts_dir"}
Field == Connection \cup Logging \cup Discovery \cup Directories \cup {"read_only_mode"}

(* The fields that pydantic converts, and may reject. *)
Typed == {"pc_port", "pc_insecure", "log_level", "log_format", "read_only_mode"}

(* The fields a command line flag sets. *)
Flagged == Connection \cup Logging \cup Discovery

Layer == [Field -> Value \cup {NotGiven, Default, Cut}]
Nothing == [f \in Field |-> NotGiven]
Defaults == [f \in Field |-> Default]
Resolved == [Field -> Value \cup {Default, Cut}]

-----------------------------------------------------------------------------
(* Mutations. *)

SavesTheSwitchToo ==
  <<"pc_host", "pc_port", "pc_username", "pc_password", "pc_api_key", "pc_insecure",
    "artifacts_dir", "log_level", "log_format", "log_dir", "read_only_mode">>
SavesTheHostLast ==
  <<"pc_api_key", "pc_username", "pc_password", "pc_port", "pc_host", "pc_insecure",
    "artifacts_dir", "log_level", "log_format", "log_dir">>

-----------------------------------------------------------------------------
(* dict.update, layer by layer: an empty string masks what is below it. *)
Over(layer, below) ==
  [f \in Field |-> IF layer[f] # NotGiven THEN layer[f] ELSE below[f]]

(* What load_settings passes to Settings() outranks the .env file. *)
Resolve(flags, file, env, dotenv) ==
  Over(flags, Over(file, Over(env, Over(dotenv, Defaults))))

Rejected(settings) == \E f \in Typed : settings[f] = Malformed

(* The lines of _save_config_dotenv, in their order. *)
SavedLines ==
  <<"pc_host", "pc_port", "pc_username", "pc_password", "pc_api_key", "pc_insecure",
    "artifacts_dir", "log_level", "log_format", "log_dir">>

Saved == {SavedLines[k] : k \in DOMAIN SavedLines}

LineOf(f) == CHOOSE k \in DOMAIN SavedLines : SavedLines[k] = f

ReadBack(v) == IF v \in Value THEN Reread[v] ELSE v

(* The file of which n lines are whole and the next may have begun.  .env  *)
(* being the lowest layer, a default that is saved is like no line, and a  *)
(* file that is missing or empty is Nothing.                               *)
Prefix(settings, n, begun) ==
  [f \in Field |->
     IF f \notin Saved \/ settings[f] = Default THEN NotGiven
     ELSE IF LineOf(f) <= n THEN ReadBack(settings[f])
     ELSE IF begun /\ LineOf(f) = n + 1 THEN Cut
     ELSE NotGiven]

Whole(settings) == Prefix(settings, Len(SavedLines), FALSE)

(* write_text truncates the file before it writes: what a write that does  *)
(* not finish may leave, beside the file as it was.                        *)
Torn(settings) ==
  {Prefix(settings, n, begun) : n \in Breaks, begun \in BOOLEAN}

(* build_auth_context: the credentials requests carry. *)
Auth(settings) ==
  IF settings["pc_api_key"] # Default THEN <<"key", settings["pc_api_key"]>>
  ELSE IF settings["pc_username"] # Default /\ settings["pc_password"] # Default
       THEN <<"basic", settings["pc_username"], settings["pc_password"]>>
  ELSE <<"none">>
=============================================================================
