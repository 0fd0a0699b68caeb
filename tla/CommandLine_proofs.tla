------------------------ MODULE CommandLine_proofs ------------------------
(***************************************************************************)
(* Proofs about CommandLine and Settings, for any values, inputs, edits of *)
(* .env, rereading of its lines and any place a write of it stops.         *)
(***************************************************************************)
EXTENDS CommandLine, TLAPS

-----------------------------------------------------------------------------
(* The inductive invariant. *)

(* Which command can be where. *)
Control ==
  /\ pc \in {"download", "save", "report"} => command \in {"init", "refresh"}
  /\ pc \in {"readiness", "probe", "judge"} =>
       command = "run" /\ settings["pc_host"] # Default
  /\ pc = "build" => command \in {"run", "serve"}
  /\ pc = "serving" => command = "serve"

(* Exceptions pile up until a response, or the last attempt. *)
Probing ==
  /\ pc \notin {"probe", "judge", "build", "serving"} => answers = <<>>
  /\ pc = "probe" => answers \in Seq(Exceptions) /\ Len(answers) < Attempts
  /\ pc = "judge" =>
       \/ answers # <<>> /\ answers[Len(answers)] \in Responses
       \/ answers \in Seq(Exceptions) /\ Len(answers) = Attempts
  /\ pc = "build" /\ command = "run" /\ settings["pc_host"] # Default =>
       answers # <<>> /\ Last = "ok"

(* What .env may hold when w wrote it. *)
Sources(w) ==
  IF w.by = "operator" THEN {w.held}
  ELSE IF w.by = "save" THEN {Whole(w.held)}
  ELSE Torn(w.held)

Signed(w) == IF w.by = "operator" THEN w.held \in Layer ELSE w.held \in Resolved

(* .env is what its last writer left, and the settings of a running command *)
(* are those of what it read, although .env may have changed since.         *)
Provenance ==
  /\ Signed(origin) /\ dotenv \in Sources(origin)
  /\ Signed(read)
  /\ Loaded => \E layer \in Sources(read) :
                 settings = Resolve(given.flags, given.file, given.env, layer)

IInv == TypeOK /\ Control /\ Probing /\ Provenance

-----------------------------------------------------------------------------
(* Settings and the file they are saved to. *)

LEMMA Marks == NotGiven \notin Value /\ Default \notin Value /\ Cut \notin Value
BY MarksAssumption

LEMMA SavedFields ==
  Saved = {"pc_host", "pc_port", "pc_username", "pc_password", "pc_api_key", "pc_insecure",
           "artifacts_dir", "log_level", "log_format", "log_dir"}
<1>1. DOMAIN SavedLines = 1..10
  BY DEF SavedLines
<1> QED
  BY <1>1 DEF Saved, SavedLines

LEMMA SavedAreFields == Saved \subseteq Field /\ "read_only_mode" \notin Saved
BY SavedFields DEF Field, Connection, Logging, Directories

(* A field that is saved has a line of its own. *)
LEMMA LineOfSaved ==
  ASSUME NEW f \in Saved
  PROVE  LineOf(f) \in 1..10 /\ SavedLines[LineOf(f)] = f
<1>1. DOMAIN SavedLines = 1..10 /\ Len(SavedLines) = 10
  BY DEF SavedLines
<1>2. \E k \in DOMAIN SavedLines : SavedLines[k] = f
  BY DEF Saved
<1> QED
  BY <1>1, <1>2 DEF LineOf

(* PC_HOST is the first line, and nothing else is. *)
LEMMA HostIsFirst ==
  ASSUME NEW f \in Saved
  PROVE  LineOf(f) = 1 <=> f = "pc_host"
<1>1. SavedLines[LineOf(f)] = f /\ LineOf(f) \in 1..10
  BY LineOfSaved
<1>2. SavedLines[1] = "pc_host" /\ \A k \in 1..10 : SavedLines[k] = "pc_host" => k = 1
  BY DEF SavedLines
<1> QED
  BY <1>1, <1>2

LEMMA ReadBackType ==
  ASSUME NEW v \in Value \cup {Cut}
  PROVE  ReadBack(v) \in Value \cup {Cut}
BY RereadAssumption DEF ReadBack

(* A file that was written to, wholly or in part, is a layer. *)
LEMMA PrefixType ==
  ASSUME NEW s \in Resolved, NEW n, NEW begun
  PROVE  Prefix(s, n, begun) \in Layer
<1>1. ASSUME NEW f \in Field, s[f] # Default
      PROVE  ReadBack(s[f]) \in Value \cup {Cut}
  BY <1>1, ReadBackType DEF Resolved
<1> QED
  BY <1>1 DEF Prefix, Layer

LEMMA SourcesType ==
  ASSUME NEW w, Signed(w)
  PROVE  Sources(w) \subseteq Layer
<1>1. CASE w.by = "operator"
  BY <1>1 DEF Signed, Sources
<1>2. CASE w.by # "operator"
  <2>1. w.held \in Resolved
    BY <1>2 DEF Signed
  <2>2. Whole(w.held) \in Layer
    BY <2>1, PrefixType DEF Whole
  <2>3. Torn(w.held) \subseteq Layer
    BY <2>1, PrefixType DEF Torn
  <2> QED
    BY <1>2, <2>2, <2>3 DEF Sources
<1> QED
  BY <1>1, <1>2

(* A whole file has every field that is not at its default, as dotenv reads it. *)
LEMMA WholeLine ==
  ASSUME NEW s \in Resolved, NEW f \in Saved
  PROVE  Whole(s)[f] = IF s[f] = Default THEN NotGiven ELSE ReadBack(s[f])
<1>1. Len(SavedLines) = 10
  BY DEF SavedLines
<1> QED
  BY <1>1, SavedAreFields, LineOfSaved DEF Whole, Prefix

(* read_only_mode is in no file that a command wrote. *)
LEMMA SwitchIsNotSaved ==
  ASSUME NEW s, NEW n, NEW begun
  PROVE  Prefix(s, n, begun)["read_only_mode"] = NotGiven
BY SavedAreFields DEF Prefix, Field

LEMMA ResolveType ==
  ASSUME NEW flags \in Layer, NEW file \in Layer, NEW env \in Layer, NEW layer \in Layer
  PROVE  Resolve(flags, file, env, layer) \in Resolved
<1>1. ASSUME NEW upper \in Layer, NEW below \in Resolved
      PROVE  Over(upper, below) \in Resolved
  BY <1>1 DEF Over, Layer, Resolved
<1>2. Defaults \in Resolved
  BY DEF Defaults, Resolved
<1> QED
  BY <1>1, <1>2 DEF Resolve

(* Without any input, the settings are those of .env. *)
LEMMA BareSettings ==
  ASSUME NEW layer \in Layer, NEW f \in Field
  PROVE  Resolve(Nothing, Nothing, Nothing, layer)[f] =
           IF layer[f] # NotGiven THEN layer[f] ELSE Default
<1>1. Over(layer, Defaults)[f] = IF layer[f] # NotGiven THEN layer[f] ELSE Default
  BY DEF Over, Defaults
<1>2. ASSUME NEW below
      PROVE  Over(Nothing, below)[f] = below[f]
  BY DEF Over, Nothing
<1> QED
  BY <1>1, <1>2 DEF Resolve

LEMMA GivenType ==
  ASSUME NEW x \in Inputs \cup {NoInput}
  PROVE  /\ x.flags \in Layer /\ x.file \in Layer /\ x.env \in Layer
         /\ x.flags["read_only_mode"] = NotGiven
<1>1. Nothing \in Layer
  BY DEF Nothing, Layer
<1>2. "read_only_mode" \in Field \ Flagged
  BY DEF Field, Flagged, Connection, Logging, Discovery
<1>3. Nothing["read_only_mode"] = NotGiven
  BY <1>2 DEF Nothing
<1>4. CASE x \in Inputs
  BY <1>2, <1>4, InputsAssumption
<1>5. CASE x = NoInput
  BY <1>1, <1>3, <1>5 DEF NoInput
<1> QED
  BY <1>4, <1>5

-----------------------------------------------------------------------------
(* The invariant holds at first and is kept by every step. *)

LEMMA InvInit == Init => IInv
<1> SUFFICES ASSUME Init PROVE IInv
  OBVIOUS
<1>1. Nothing \in Layer /\ Defaults \in Resolved
  BY DEF Nothing, Layer, Defaults, Resolved
<1>2. Unwritten \in Writings /\ Signed(Unwritten) /\ Nothing \in Sources(Unwritten)
  BY <1>1 DEF Unwritten, Writings, Signed, Sources
<1>3. "none" \in Verdicts
  BY DEF Verdicts
<1>4. TypeOK
  <2>1. artifacts \in BOOLEAN /\ atRoot \in BOOLEAN
    BY Zenon DEF Init
  <2>2. /\ dotenv \in Layer /\ pc \in Busy \cup {"rest"} /\ command \in Commands
        /\ given \in Inputs \cup {NoInput} /\ settings \in Resolved
        /\ verdict \in Verdicts /\ origin \in Writings /\ read \in Writings
    BY <1>1, <1>2, <1>3 DEF Init, Commands
  <2>3. answers \in Seq(Responses \cup Exceptions) /\ Len(answers) <= Attempts
    BY DEF Init, Attempts
  <2> QED
    BY <2>1, <2>2, <2>3 DEF TypeOK
<1> QED
  BY <1>2, <1>4 DEF Init, IInv, Control, Probing, Provenance, Loaded, Busy

(* A process that ends leaves what it did to .env. *)
LEMMA ExitStep ==
  ASSUME IInv, NEW v \in Verdicts, Exit(v), artifacts' \in BOOLEAN,
         dotenv' \in Layer, origin' \in Writings,
         Signed(origin'), dotenv' \in Sources(origin')
  PROVE  IInv'
<1>1. Unwritten \in Writings /\ Signed(Unwritten)
  <2>1. Nothing \in Layer
    BY DEF Nothing, Layer
  <2> QED
    BY <2>1 DEF Unwritten, Writings, Signed
<1>2. /\ pc' = "rest" /\ verdict' = v /\ command' = "run" /\ given' = NoInput /\ atRoot' = TRUE
      /\ settings' = Defaults /\ answers' = <<>> /\ read' = Unwritten
  BY DEF Exit
<1>3. Defaults \in Resolved
  BY DEF Defaults, Resolved
<1>4. TypeOK'
  BY <1>1, <1>2, <1>3 DEF TypeOK, Commands, Attempts
<1>5. Control' /\ Probing'
  BY <1>2 DEF Control, Probing
<1>6. Signed(read)' /\ Signed(origin)' /\ (dotenv \in Sources(origin))'
  BY <1>1, <1>2 DEF Signed, Sources
<1>7. Provenance'
  BY <1>2, <1>6 DEF Provenance, Loaded, Busy
<1> QED
  BY <1>4, <1>5, <1>7 DEF IInv

(* So does one that ends with .env as it was. *)
LEMMA ExitUntouched ==
  ASSUME IInv, NEW v \in Verdicts, Exit(v), artifacts' \in BOOLEAN,
         UNCHANGED <<dotenv, origin>>
  PROVE  IInv'
<1>1. /\ dotenv' \in Layer /\ origin' \in Writings
      /\ Signed(origin') /\ dotenv' \in Sources(origin')
  BY DEF IInv, TypeOK, Provenance
<1> QED
  BY <1>1, ExitStep

(* What a save leaves of .env, whole, interrupted or elsewhere. *)
LEMMA SaveStep ==
  ASSUME IInv,
         \/ dotenv' = Whole(settings) /\ origin' = [by |-> "save", held |-> settings]
         \/ Interrupted
  PROVE  /\ dotenv' \in Layer /\ origin' \in Writings
         /\ Signed(origin') /\ dotenv' \in Sources(origin')
<1>0. settings \in Resolved
  BY DEF IInv, TypeOK
<1>1. CASE dotenv' = Whole(settings) /\ origin' = [by |-> "save", held |-> settings]
  <2>1. origin' \in Writings /\ Signed(origin') /\ origin'.held = settings
    BY <1>0, <1>1 DEF Writings, Signed
  <2>2. dotenv' \in Sources(origin')
    BY <1>1 DEF Sources
  <2> QED
    BY <2>1, <2>2, SourcesType
<1>2. CASE dotenv' \in Torn(settings) /\ origin' = [by |-> "torn", held |-> settings]
  <2>1. origin' \in Writings /\ Signed(origin') /\ origin'.held = settings
    BY <1>0, <1>2 DEF Writings, Signed
  <2>2. dotenv' \in Sources(origin')
    BY <1>2, <2>1 DEF Sources
  <2> QED
    BY <2>1, <2>2, SourcesType
<1>3. CASE UNCHANGED <<dotenv, origin>>
  BY <1>3 DEF IInv, TypeOK, Provenance
<1> QED
  BY <1>1, <1>2, <1>3 DEF Interrupted

(* Steps that change neither .env nor what was read keep their relation. *)
LEMMA ProvenanceKept ==
  ASSUME Provenance, UNCHANGED <<dotenv, origin, read, settings, given>>,
         Loaded' => Loaded
  PROVE  Provenance'
<1>1. Signed(origin)' /\ (dotenv \in Sources(origin))' /\ Signed(read)'
  BY DEF Provenance, Signed, Sources
<1>2. ASSUME Loaded'
      PROVE  \E layer \in Sources(read') :
               settings' = Resolve(given'.flags, given'.file, given'.env, layer)
  BY <1>2 DEF Provenance
<1>3. Sources(read)' = Sources(read')
  BY DEF Sources
<1> QED
  BY <1>1, <1>2, <1>3 DEF Provenance

(* What the probe ended in, when it is judged. *)
LEMMA JudgedType ==
  ASSUME IInv, pc = "judge"
  PROVE  /\ answers # <<>> /\ answers[Len(answers)] \in Responses \cup Exceptions
         /\ Last \in {"ok", "auth", "unexpected", "connectivity", "tls", "raised"}
         /\ Last = "auth" => answers[Len(answers)] = "denied"
         /\ Last \in {"connectivity", "tls"} => answers \in [1..Attempts -> Exceptions]
<1>1. answers # <<>> /\ answers[Len(answers)] \in Responses \cup Exceptions
  BY DEF IInv, Probing, Attempts
<1>2. answers[Len(answers)] \in Exceptions => answers \in [1..Attempts -> Exceptions]
  <2>1. Responses \cap Exceptions = {}
    BY DEF Responses, Exceptions
  <2>2. answers[Len(answers)] \in Exceptions =>
          answers \in Seq(Exceptions) /\ Len(answers) = Attempts
    BY <2>1 DEF IInv, Probing
  <2>3. answers \in Seq(Exceptions) => answers \in [1..Len(answers) -> Exceptions]
    OBVIOUS
  <2> QED
    BY <2>2, <2>3
<1>3. /\ answers[Len(answers)] \in Responses => Last \in {"ok", "auth", "unexpected"}
      /\ answers[Len(answers)] \in Exceptions => Last \in {"connectivity", "tls", "raised"}
      /\ answers[Len(answers)] \in Responses /\ Last = "auth" => answers[Len(answers)] = "denied"
  BY DEF Last, VerdictOf, Responses, Exceptions
<1> QED
  BY <1>1, <1>2, <1>3

LEMMA InvNext == IInv /\ [Next]_vars => IInv'
<1> SUFFICES ASSUME IInv, [Next]_vars PROVE IInv'
  OBVIOUS
<1> USE DEF process, invocation, disk
<1>0. TypeOK /\ Control /\ Probing /\ Provenance
  BY DEF IInv
<1>a. artifacts \in BOOLEAN /\ atRoot \in BOOLEAN
  BY <1>0 DEF TypeOK
<1>b. {"none", "ok", "auth", "unexpected", "connectivity", "tls", "raised",
       "settings", "discovery", "empty", "noArtifacts", "killed"} \subseteq Verdicts
  BY DEF Verdicts, VerdictOf
<1>1. ASSUME NEW c \in Commands, NEW x \in Inputs, NEW here \in BOOLEAN, Invoke(c, x, here)
      PROVE  IInv'
  <2>1. TypeOK'
    BY <1>0, <1>1, <1>b DEF Invoke, TypeOK, Busy
  <2>2. Control' /\ Probing'
    BY <1>0, <1>1 DEF Invoke, Control, Probing
  <2>3. Provenance'
    BY <1>0, <1>1 DEF Invoke, Provenance, Signed, Sources, Loaded
  <2> QED
    BY <2>1, <2>2, <2>3 DEF IInv
<1>2. ASSUME NEW layer \in Edits, Edit(layer)
      PROVE  IInv'
  <2>1. layer \in Layer
    BY EditsAssumption
  <2>2. /\ dotenv' = layer /\ origin' = [by |-> "operator", held |-> layer]
        /\ UNCHANGED <<artifacts, process, pc, verdict>>
    BY <1>2 DEF Edit
  <2>3. origin' \in Writings /\ Signed(origin') /\ dotenv' \in Sources(origin')
    BY <2>1, <2>2 DEF Writings, Signed, Sources
  <2>4. TypeOK'
    BY <1>0, <2>1, <2>2, <2>3 DEF TypeOK
  <2>5. Control' /\ Probing'
    BY <1>0, <2>2 DEF Control, Probing, Last
  <2>6. Provenance'
    BY <1>0, <2>2, <2>3 DEF Provenance, Loaded, Signed, Sources
  <2> QED
    BY <2>4, <2>5, <2>6 DEF IInv
<1>3. CASE LoadSettings
  <2> DEFINE s == Resolve(given.flags, given.file, given.env, dotenv)
  <2>1. /\ pc = "settings" /\ command # "validate" /\ settings' = s /\ read' = origin
        /\ pc' = NextStep(s)
        /\ UNCHANGED <<dotenv, artifacts, origin, command, given, atRoot, answers, verdict>>
    BY <1>3 DEF LoadSettings
  <2>2. s \in Resolved
    BY <1>0, GivenType, ResolveType DEF TypeOK
  <2>3. pc' \in {"download", "readiness", "build"}
    BY <2>1 DEF NextStep
  <2>4. TypeOK'
    BY <1>0, <2>1, <2>2, <2>3 DEF TypeOK, Busy
  <2>5. Control'
    BY <1>0, <2>1 DEF NextStep, Control, TypeOK, Commands
  <2>6. Probing'
    BY <1>0, <2>1, <2>3 DEF NextStep, Probing
  <2>7. Provenance'
    BY <1>0, <2>1 DEF Provenance, Signed, Sources
  <2> QED
    BY <2>4, <2>5, <2>6, <2>7 DEF IInv
<1>4. CASE PrintSettings \/ LoadFails \/ NoAuth \/ Built \/ BuildRaises \/ Stop
  <2>1. PICK v \in {"ok", "settings", "auth", "noArtifacts"} : Exit(v)
    BY <1>4 DEF PrintSettings, LoadFails, NoAuth, Built, BuildRaises, Stop
  <2>2. UNCHANGED disk
    BY <1>4 DEF PrintSettings, LoadFails, NoAuth, Built, BuildRaises, Stop
  <2> QED
    BY <1>a, <1>b, <2>1, <2>2, ExitUntouched
<1>5. CASE Download
  <2>1. /\ pc = "download" /\ pc' = "save" /\ artifacts' \in BOOLEAN
        /\ UNCHANGED <<dotenv, origin, command, given, atRoot, settings, answers, read, verdict>>
    BY <1>5, <1>a DEF Download
  <2>2. TypeOK'
    BY <1>0, <2>1 DEF TypeOK, Busy
  <2>3. Control' /\ Probing' /\ Provenance'
    BY <1>0, <2>1, ProvenanceKept DEF Control, Probing, Loaded, Busy
  <2> QED
    BY <2>2, <2>3 DEF IInv
<1>6. CASE DownloadRaises
  <2>1. artifacts' \in BOOLEAN /\ Exit("discovery") /\ UNCHANGED <<dotenv, origin>>
    BY <1>6, <1>a DEF DownloadRaises
  <2> QED
    BY <1>b, <2>1, ExitUntouched
<1>7. CASE Save \/ SaveSkipped
  <2>1. /\ pc = "save" /\ pc' = "report" /\ UNCHANGED <<artifacts, process, verdict>>
        /\ \/ dotenv' = Whole(settings) /\ origin' = [by |-> "save", held |-> settings]
           \/ Interrupted
    BY <1>7 DEF Save, SaveSkipped, Interrupted
  <2>2. /\ dotenv' \in Layer /\ origin' \in Writings
        /\ Signed(origin') /\ dotenv' \in Sources(origin')
    BY <2>1, SaveStep
  <2>3. TypeOK'
    BY <1>0, <2>1, <2>2 DEF TypeOK, Busy
  <2>4. Control' /\ Probing'
    BY <1>0, <2>1 DEF Control, Probing
  <2>5. Provenance'
    BY <1>0, <2>1, <2>2 DEF Provenance, Loaded, Busy, Signed, Sources
  <2> QED
    BY <2>3, <2>4, <2>5 DEF IInv
<1>8. CASE Report
  <2>1. PICK v \in {"ok", "empty"} : Exit(v)
    BY <1>8 DEF Report
  <2>2. UNCHANGED disk
    BY <1>8 DEF Report
  <2> QED
    BY <1>a, <1>b, <2>1, <2>2, ExitUntouched
<1>9. CASE CheckAuth
  <2>1. pc = "readiness" /\ pc' = "probe" /\ UNCHANGED <<disk, process, verdict>>
    BY <1>9 DEF CheckAuth
  <2>2. TypeOK'
    BY <1>0, <2>1 DEF TypeOK, Busy
  <2>3. Probing'
    BY <1>0, <2>1 DEF Probing, Attempts
  <2>4. Control' /\ Provenance'
    BY <1>0, <2>1, ProvenanceKept DEF Control, Loaded, Busy
  <2> QED
    BY <2>2, <2>3, <2>4 DEF IInv
<1>10. ASSUME NEW a \in Responses, Answered(a)
       PROVE  IInv'
  <2>1. /\ pc = "probe" /\ pc' = "judge" /\ answers' = Append(answers, a)
        /\ UNCHANGED <<disk, invocation, settings, read, verdict>>
    BY <1>10 DEF Answered
  <2>2. answers \in Seq(Exceptions) /\ Len(answers) < Attempts
    BY <1>0, <2>1 DEF Probing
  <2>3. /\ answers' \in Seq(Responses \cup Exceptions) /\ Len(answers') <= Attempts
        /\ answers' # <<>> /\ answers'[Len(answers')] = a
    BY <1>0, <2>1, <2>2 DEF TypeOK, Attempts
  <2>4. TypeOK'
    BY <1>0, <2>1, <2>3 DEF TypeOK, Busy
  <2>5. Probing'
    BY <2>1, <2>3 DEF Probing
  <2>6. Control' /\ Provenance'
    BY <1>0, <2>1, ProvenanceKept DEF Control, Loaded, Busy
  <2> QED
    BY <2>4, <2>5, <2>6 DEF IInv
<1>11. ASSUME NEW e \in Exceptions, Raised(e)
       PROVE  IInv'
  <2>1. /\ pc = "probe" /\ answers' = Append(answers, e)
        /\ pc' = IF Len(answers') = Attempts THEN "judge" ELSE "probe"
        /\ UNCHANGED <<disk, invocation, settings, read, verdict>>
    BY <1>11 DEF Raised
  <2>2. answers \in Seq(Exceptions) /\ Len(answers) < Attempts
    BY <1>0, <2>1 DEF Probing
  <2>3. /\ answers' \in Seq(Exceptions) /\ Len(answers') <= Attempts
        /\ answers' \in Seq(Responses \cup Exceptions)
    BY <1>0, <2>1, <2>2 DEF TypeOK, Attempts
  <2>4. TypeOK'
    BY <1>0, <2>1, <2>3 DEF TypeOK, Busy
  <2>5. Probing'
    BY <2>1, <2>3 DEF Probing, Attempts
  <2>6. Control' /\ Provenance'
    BY <1>0, <2>1, ProvenanceKept DEF Control, Loaded, Busy
  <2> QED
    BY <2>4, <2>5, <2>6 DEF IInv
<1>12. CASE Ready
  <2>1. pc = "judge" /\ Last = "ok" /\ pc' = "build" /\ UNCHANGED <<disk, process, verdict>>
    BY <1>12 DEF Ready
  <2>2. TypeOK'
    BY <1>0, <2>1 DEF TypeOK, Busy
  <2>3. answers # <<>>
    BY <1>0, <2>1 DEF Probing, Attempts
  <2>4. Probing'
    BY <2>1, <2>3 DEF Probing, Last
  <2>5. Control' /\ Provenance'
    BY <1>0, <2>1, ProvenanceKept DEF Control, Loaded, Busy
  <2> QED
    BY <2>2, <2>4, <2>5 DEF IInv
<1>13. CASE NotReady
  <2>1. Exit(Last) /\ UNCHANGED disk /\ pc = "judge"
    BY <1>13 DEF NotReady
  <2>2. Last \in Verdicts
    BY <1>0, <1>b, <2>1, JudgedType
  <2> QED
    BY <1>a, <2>1, <2>2, ExitUntouched
<1>14. CASE Serve
  <2>1. /\ pc = "build" /\ command = "serve" /\ pc' = "serving"
        /\ UNCHANGED <<disk, process, verdict>>
    BY <1>14 DEF Serve
  <2>2. TypeOK'
    BY <1>0, <2>1 DEF TypeOK, Busy
  <2>3. Control' /\ Probing' /\ Provenance'
    BY <1>0, <2>1, ProvenanceKept DEF Control, Probing, Loaded, Busy
  <2> QED
    BY <2>2, <2>3 DEF IInv
<1>15. CASE Kill
  <2>1. Exit("killed") /\ artifacts' \in BOOLEAN /\ Interrupted
    BY <1>15, <1>a DEF Kill, Interrupted
  <2>2. /\ dotenv' \in Layer /\ origin' \in Writings
        /\ Signed(origin') /\ dotenv' \in Sources(origin')
    BY <2>1, SaveStep
  <2> QED
    BY <1>b, <2>1, <2>2, ExitStep
<1>16. CASE UNCHANGED vars
  <2>1. UNCHANGED <<disk, process, pc, verdict>>
    BY <1>16 DEF vars
  <2>2. TypeOK'
    BY <1>0, <2>1 DEF TypeOK
  <2>3. Control' /\ Probing' /\ Provenance'
    BY <1>0, <2>1, ProvenanceKept DEF Control, Probing, Last, Loaded
  <2> QED
    BY <2>2, <2>3 DEF IInv
<1> QED
  BY <1>1, <1>2, <1>3, <1>4, <1>5, <1>6, <1>7, <1>8, <1>9, <1>10, <1>11, <1>12,
     <1>13, <1>14, <1>15, <1>16 DEF Next, Proceed

LEMMA Invariance == Spec => []IInv
<1>1. Init => IInv
  BY InvInit
<1>2. IInv /\ [Next]_vars => IInv'
  BY InvNext
<1> QED
  BY <1>1, <1>2, PTL DEF Spec

-----------------------------------------------------------------------------
(* The theorems. *)

(* In every reachable state the variables have their types. *)
THEOREM TypeCorrect == Spec => []TypeOK
<1>1. IInv => TypeOK
  BY DEF IInv
<1> QED
  BY <1>1, Invariance, PTL

(* Writes need a start that asks for them, for any flags and any history of  *)
(* commands before it: _save_config_dotenv has no line for read_only_mode,   *)
(* and no command line flag sets it.                                         *)
THEOREM OptIn == Spec => []WritesNeedOptIn
<1>1. IInv => WritesNeedOptIn
  <2> SUFFICES ASSUME IInv, Loaded, settings["read_only_mode"] # Default,
                      given.file["read_only_mode"] = NotGiven,
                      given.env["read_only_mode"] = NotGiven
               PROVE  read.by = "operator" /\ read.held["read_only_mode"] # NotGiven
    BY DEF WritesNeedOptIn
  <2> DEFINE f == "read_only_mode"
  <2>1. PICK layer \in Sources(read) :
          settings = Resolve(given.flags, given.file, given.env, layer)
    BY DEF IInv, Provenance
  <2>2. given.flags[f] = NotGiven
    BY GivenType DEF IInv, TypeOK
  <2>3. f \in Field
    BY DEF Field
  <2>4. layer[f] # NotGiven
    BY <2>1, <2>2, <2>3 DEF Resolve, Over, Defaults
  <2>5. CASE read.by = "operator"
    BY <2>1, <2>4, <2>5 DEF Sources
  <2>6. CASE read.by # "operator"
    <3>1. layer = Whole(read.held) \/ layer \in Torn(read.held)
      BY <2>1, <2>6 DEF Sources
    <3>2. CASE layer = Whole(read.held)
      BY <2>4, <3>2, SwitchIsNotSaved DEF Whole
    <3>3. CASE layer \in Torn(read.held)
      <4>1. PICK n \in Breaks, begun \in BOOLEAN : layer = Prefix(read.held, n, begun)
        BY <3>3 DEF Torn
      <4> QED
        BY <2>4, <4>1, SwitchIsNotSaved
    <3> QED
      BY <3>1, <3>2, <3>3
  <2> QED
    BY <2>5, <2>6
<1> QED
  BY <1>1, Invariance, PTL

(* What an init or refresh in the project root resolved comes back to a bare *)
(* start, for every line it saved whose value dotenv reads as it was written.*)
THEOREM SavesComeBack == Spec => []SavedLinesComeBack
<1>1. IInv => SavedLinesComeBack
  <2> SUFFICES ASSUME IInv, Loaded, Bare, read.by = "save",
                      NEW f \in Saved, Plain(read.held, f)
               PROVE  settings[f] = read.held[f]
    BY DEF SavedLinesComeBack
  <2>1. read.held \in Resolved /\ Whole(read.held) \in Layer
    BY PrefixType DEF IInv, Provenance, Signed, Whole
  <2>2. settings = Resolve(Nothing, Nothing, Nothing, Whole(read.held))
    BY DEF IInv, Provenance, Sources, Bare, NoInput
  <2>3. f \in Field
    BY SavedAreFields
  <2>4. settings[f] = IF Whole(read.held)[f] # NotGiven THEN Whole(read.held)[f] ELSE Default
    BY <2>1, <2>2, <2>3, BareSettings
  <2>5. Whole(read.held)[f] = IF read.held[f] = Default THEN NotGiven ELSE read.held[f]
    BY <2>1, WholeLine DEF Plain
  <2>6. read.held[f] # NotGiven
    BY <2>1, <2>3, Marks DEF Resolved, NotGiven, Default, Cut
  <2> QED
    BY <2>4, <2>5, <2>6
<1> QED
  BY <1>1, Invariance, PTL

(* However a save was cut, a bare start that has a host and credentials has  *)
(* them with the host they were resolved with: PC_HOST is the first line of  *)
(* _save_config_dotenv.                                                      *)
THEOREM HostFirst == Spec => []CredentialsFollowTheirHost
<1>1. IInv => CredentialsFollowTheirHost
  <2> SUFFICES ASSUME IInv, Loaded, Bare, Auth(settings) # <<"none">>,
                      settings["pc_host"] # Default, Plain(read.held, "pc_host")
               PROVE  settings["pc_host"] = read.held["pc_host"]
    BY DEF CredentialsFollowTheirHost
  <2> DEFINE held == read.held
             Credential == {"pc_api_key", "pc_username"}
  <2>1. PICK layer \in Sources(read) : settings = Resolve(Nothing, Nothing, Nothing, layer)
    BY DEF IInv, Provenance, Bare, NoInput
  <2>2. layer \in Layer
    BY <2>1, SourcesType DEF IInv, Provenance
  <2>3. "pc_host" \in Saved /\ "pc_host" \in Field
    BY SavedFields, SavedAreFields
  <2>4. layer["pc_host"] # NotGiven /\ settings["pc_host"] = layer["pc_host"]
    BY <2>1, <2>2, <2>3, BareSettings
  <2>5. CASE read.by = "operator"
    BY <2>1, <2>4, <2>5 DEF Sources
  <2>6. CASE read.by = "save"
    <3>1. held \in Resolved /\ layer = Whole(held)
      BY <2>1, <2>6 DEF IInv, Provenance, Signed, Sources
    <3>2. layer["pc_host"] \in {NotGiven, held["pc_host"]}
      BY <2>3, <3>1, WholeLine DEF Plain
    <3> QED
      BY <2>4, <3>2
  <2>7. CASE read.by # "operator" /\ read.by # "save"
    <3>1. layer \in Torn(held)
      BY <2>1, <2>7 DEF Sources
    <3>2. PICK n \in Breaks, begun \in BOOLEAN : layer = Prefix(held, n, begun)
      BY <3>1 DEF Torn
    <3>3. n \in 0..9
      BY BreaksAssumption
    <3>4. CASE n = 0
      <4>1. ASSUME NEW f \in Credential
            PROVE  settings[f] = Default
        <5>1. f \in Saved /\ f \in Field
          BY SavedFields, SavedAreFields
        <5>2. LineOf(f) \in 1..10 /\ LineOf(f) # 1
          BY <5>1, LineOfSaved, HostIsFirst
        <5>3. layer[f] = NotGiven
          BY <3>2, <3>4, <5>1, <5>2 DEF Prefix
        <5> QED
          BY <2>1, <2>2, <5>1, <5>3, BareSettings
      <4> QED
        BY <4>1 DEF Auth
    <3>5. CASE n >= 1
      <4>1. LineOf("pc_host") = 1
        BY <2>3, HostIsFirst
      <4>2. layer["pc_host"] \in {NotGiven, ReadBack(held["pc_host"])}
        BY <2>3, <3>2, <3>3, <3>5, <4>1 DEF Prefix
      <4> QED
        BY <2>4, <4>2 DEF Plain
    <3> QED
      BY <3>3, <3>4, <3>5
  <2> QED
    BY <2>5, <2>6, <2>7
<1> QED
  BY <1>1, Invariance, PTL

(* The exit status of an init that was not cut short says whether there is   *)
(* an artifact to serve, after any save, failed or not.                      *)
THEOREM StatusTells == Spec => InitStatusTellsArtifacts
<1>1. ASSUME IInv, [Next]_vars, command = "init", verdict' # verdict, verdict' \in {"ok", "empty"}
      PROVE  verdict' = "ok" <=> artifacts
  <2> USE DEF Exit
  <2>0. Control
    BY <1>1 DEF IInv
  <2>1. CASE Report
    BY <1>1, <2>1 DEF Report
  <2>2. CASE \/ PrintSettings \/ LoadFails \/ DownloadRaises \/ NoAuth \/ Built \/ BuildRaises
             \/ Stop \/ Kill
    BY <1>1, <2>0, <2>2 DEF PrintSettings, LoadFails, DownloadRaises, NoAuth, Built,
                            BuildRaises, Stop, Kill, Control
  <2>3. CASE NotReady
    BY <1>1, <2>0, <2>3 DEF NotReady, Control
  <2>4. CASE \E c \in Commands, x \in Inputs, here \in BOOLEAN : Invoke(c, x, here)
    BY <1>1, <2>4 DEF Invoke
  <2>5. CASE verdict' = verdict
    BY <1>1, <2>5
  <2> QED
    BY <1>1, <2>1, <2>2, <2>3, <2>4, <2>5
       DEF Next, Proceed, LoadSettings, Download, Save, SaveSkipped, CheckAuth, Answered, Raised,
           Ready, Serve, Edit, vars
<1>2. IInv /\ [Next]_vars =>
        [command = "init" /\ verdict' # verdict /\ verdict' \in {"ok", "empty"} =>
           (verdict' = "ok" <=> artifacts)]_vars
  BY <1>1
<1> QED
  BY <1>2, Invariance, PTL DEF Spec, InitStatusTellsArtifacts

(* What `run` says of its probe is what three attempts showed: success only  *)
(* of an accepted last one, connectivity or TLS only of three that nobody    *)
(* answered, authentication only of a refusal, or of no credentials at all.  *)
THEOREM Conclusive == Spec => ProbeIsConclusive
<1> DEFINE Said ==
      /\ verdict' \in {"ok", "noArtifacts"} => answers # <<>> /\ Last = "ok"
      /\ verdict' \in {"connectivity", "tls"} => answers \in [1..Attempts -> Exceptions]
      /\ verdict' = "auth" => Auth(settings) = <<"none">> \/ answers[Len(answers)] = "denied"
<1>1. ASSUME IInv, [Next]_vars,
             command = "run", settings["pc_host"] # Default, verdict' # verdict
      PROVE  Said
  <2> USE DEF Exit
  <2>0. Control /\ Probing
    BY <1>1 DEF IInv
  <2>1. CASE NotReady
    <3>1. pc = "judge" /\ verdict' = Last /\ Last # "ok"
      BY <2>1 DEF NotReady
    <3> QED
      BY <1>1, <3>1, JudgedType
  <2>2. CASE PrintSettings \/ LoadFails \/ DownloadRaises \/ Report \/ Stop \/ Kill
    BY <1>1, <2>0, <2>2 DEF PrintSettings, LoadFails, DownloadRaises, Report, Stop, Kill, Control
  <2>3. CASE NoAuth
    BY <2>3 DEF NoAuth
  <2>4. CASE Built \/ BuildRaises
    BY <1>1, <2>0, <2>4 DEF Built, BuildRaises, Probing
  <2>5. CASE \E c \in Commands, x \in Inputs, here \in BOOLEAN : Invoke(c, x, here)
    BY <2>5 DEF Invoke
  <2> QED
    BY <1>1, <2>1, <2>2, <2>3, <2>4, <2>5
       DEF Next, Proceed, LoadSettings, Download, Save, SaveSkipped, CheckAuth, Answered, Raised,
           Ready, Serve, Edit, vars
<1>2. IInv /\ [Next]_vars =>
        [command = "run" /\ settings["pc_host"] # Default /\ verdict' # verdict => Said]_vars
  BY <1>1
<1> QED
  BY <1>2, Invariance, PTL DEF Spec, ProbeIsConclusive
=============================================================================
