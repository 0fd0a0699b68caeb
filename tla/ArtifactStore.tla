--------------------------- MODULE ArtifactStore ---------------------------
(***************************************************************************)
(* The runtime artifact directory and the two commands that write it,      *)
(* `init` and `refresh` (download_yamls in pull_from_developers_api.py).   *)
(*                                                                         *)
(* One process runs a command at a time; every step that touches the disk  *)
(* is an action of its own, so the process may die between any two.  The   *)
(* disk survives, and the next command starts from what it finds.          *)
(***************************************************************************)
EXTENDS Naturals, Sequences

CONSTANTS
  Namespaces,   \* the API namespaces (vmm, prism, networking, ...)
  Versions,     \* the versions a namespace may be published at
  Listings,     \* what get_namespaces may return: the discovered names, or the
                \* override list exactly as the user wrote it
  Label,        \* the text before the first dash of a namespace's file names
  Bodies        \* the kinds of body a download may return

ASSUME ListingsAssumption == Listings \subseteq Seq(Namespaces)
ASSUME LabelAssumption == DOMAIN Label = Namespaces

(* An artifact file is named <namespace>-<version>-all-documentation.yaml. *)
File == Namespaces \X Versions
NoFile == <<>>

(***************************************************************************)
(* What a file holds: an OpenAPI mapping; YAML that parses to something    *)
(* other than a mapping, which validation accepts; a prefix of a document  *)
(* that was not written to its end and happens to parse to a mapping, too  *)
(* ("partial"); or bytes no loader takes (malformed, cut short where they  *)
(* do not parse, or raising something other than YAMLError).               *)
(***************************************************************************)
Validated == {"mapping", "scalar"}
Unvalidated == {"unvalidated", "partial"}
Content == {"absent"} \cup Validated \cup Unvalidated

(* The bodies a download may return, by what yaml.safe_load does to them:  *)
(* "malformed" raises YAMLError or loads None, "raises" raises another     *)
(* exception (an out-of-range timestamp raises ValueError).                *)
Payload == {"mapping", "scalar", "malformed", "raises"}
ASSUME BodiesAssumption == Bodies \subseteq Payload

ContentOf(p) == IF p \in Validated THEN p ELSE "unvalidated"

(* What a write that is not finished may have put on the disk of such a    *)
(* body: the start of most documents is a mapping when it parses at all.   *)
Prefixes(p) == IF p = "scalar" THEN {"unvalidated"} ELSE Unvalidated

VARIABLES
  runtime,    \* artifacts_dir: the content of every artifact file
  backup,     \* artifacts_dir/.refresh_backup, the same
  pc,         \* where the process is
  mode,       \* "init" or "refresh": the command running, or the last one
  force,      \* the --force flag
  listing,    \* namespaces: what the loop runs over
  i,          \* the loop's position in listing
  output,     \* output_path: the file being written for listing[i]
  payload,    \* content: the body downloaded for it
  processed,  \* processed_namespaces
  before      \* history: runtime when the command started

disk == <<runtime, backup>>
command == <<mode, force, before>>
loop == <<listing, i, processed>>
fetched == <<output, payload>>
vars == <<disk, pc, command, loop, fetched>>

(* No command is running: none has yet, the last one returned, it ended in *)
(* an exception from get_namespaces, or the process was killed.            *)
Rest == {"idle", "finished", "failed", "killed"}
Busy == {"purge", "stash", "discover", "lookup", "write", "writing",
         "validate", "restore", "cleanup"}

Empty == [f \in File |-> "absent"]
Present(store) == {f \in File : store[f] # "absent"}

TypeOK ==
  /\ runtime \in [File -> Content]
  /\ backup \in [File -> Content]
  /\ before \in [File -> Content]
  /\ pc \in Rest \cup Busy
  /\ mode \in {"init", "refresh"}
  /\ force \in BOOLEAN
  /\ listing \in Seq(Namespaces)
  /\ i \in Nat \ {0}
  /\ output \in File \cup {NoFile}
  /\ payload \in Payload \cup {"none"}
  /\ processed \in SUBSET Namespaces

Init ==
  /\ runtime = Empty /\ backup = Empty /\ before = Empty
  /\ pc = "idle" /\ mode = "init" /\ force = FALSE
  /\ listing = <<>> /\ i = 1 /\ processed = {}
  /\ output = NoFile /\ payload = "none"

-----------------------------------------------------------------------------
(* Mutations of the definitions below, each one a plausible slip in the    *)
(* code; only the mutation runs use them.                                  *)

RestoresOnlyWhenNothingSucceeded(f) == processed = {} /\ backup[f] # "absent"
RestoresEverything(f) == backup[f] # "absent"
RestoresOnlyMissingFiles(f) ==
  /\ backup[f] # "absent" /\ runtime[f] = "absent"
  /\ processed = {} \/ Label[f[1]] \notin processed
DownloadsOverExisting(v, p) ==
  /\ pc = "lookup" /\ i <= Len(listing)
  /\ output' = <<listing[i], v>> /\ payload' = p
  /\ pc' = "write"
  /\ UNCHANGED <<disk, command, loop>>
DiscoverFromZero(names) ==
  /\ pc = "discover" /\ pc' = "lookup"
  /\ listing' = names /\ i' = 0
  /\ UNCHANGED <<disk, command, processed, fetched>>
RestoreSkipped ==
  /\ pc = "restore" /\ pc' = "cleanup"
  /\ UNCHANGED <<disk, command, loop, fetched>>

-----------------------------------------------------------------------------
(* Starting a command. *)

(* The locals of a process that is gone. *)
NoLocals ==
  /\ listing' = <<>> /\ i' = 1 /\ processed' = {}
  /\ output' = NoFile /\ payload' = "none"

Start(m, f) ==
  /\ pc \in Rest
  /\ mode' = m /\ force' = f /\ before' = runtime
  /\ NoLocals
  /\ pc' = IF m = "refresh" THEN "purge" ELSE "discover"
  /\ UNCHANGED disk

StartInit == Start("init", FALSE)
StartRefresh == \E f \in BOOLEAN : Start("refresh", f)

(* _prepare_refresh_backup: the backup an earlier refresh left is removed  *)
(* file by file, then every artifact is moved into the new one.            *)
Purge(f) ==
  /\ pc = "purge" /\ backup[f] # "absent"
  /\ backup' = [backup EXCEPT ![f] = "absent"]
  /\ UNCHANGED <<runtime, pc, command, loop, fetched>>

PurgeDone ==
  /\ pc = "purge" /\ Present(backup) = {}
  /\ pc' = "stash"
  /\ UNCHANGED <<disk, command, loop, fetched>>

Stash(f) ==
  /\ pc = "stash" /\ runtime[f] # "absent"
  /\ backup' = [backup EXCEPT ![f] = runtime[f]]
  /\ runtime' = [runtime EXCEPT ![f] = "absent"]
  /\ UNCHANGED <<pc, command, loop, fetched>>

StashDone ==
  /\ pc = "stash" /\ Present(runtime) = {}
  /\ pc' = "discover"
  /\ UNCHANGED <<disk, command, loop, fetched>>

(* get_namespaces: not retried, and called outside the loop's try. *)
Discover(names) ==
  /\ pc = "discover" /\ pc' = "lookup"
  /\ listing' = names /\ i' = 1
  /\ UNCHANGED <<disk, command, processed, fetched>>

DiscoverFails ==
  /\ pc = "discover" /\ pc' = "failed"
  /\ NoLocals
  /\ UNCHANGED <<disk, command>>

-----------------------------------------------------------------------------
(* The loop over the namespaces. *)

Looking == pc = "lookup" /\ i <= Len(listing)

(* The end of an iteration; its version and content are dead. *)
NextNamespace ==
  /\ pc' = "lookup" /\ i' = i + 1 /\ output' = NoFile /\ payload' = "none"
  /\ UNCHANGED listing

(* Every `continue` and every except clause. *)
GiveUp == NextNamespace /\ UNCHANGED processed

(* The version probe or the download answered an error three times over, or *)
(* the namespace has no version; the three tallies differ, the disk not.    *)
FetchFails ==
  /\ Looking /\ GiveUp
  /\ UNCHANGED <<disk, command>>

SkipExisting(v) ==
  /\ Looking /\ ~force
  /\ runtime[<<listing[i], v>>] # "absent"
  /\ GiveUp
  /\ UNCHANGED <<disk, command>>

Download(v, p) ==
  /\ Looking
  /\ runtime[<<listing[i], v>>] = "absent" \/ force
  /\ output' = <<listing[i], v>> /\ payload' = p
  /\ pc' = "write"
  /\ UNCHANGED <<disk, command, loop>>

(* _validate_and_save_yaml writes the final path before it validates:       *)
(* write_text truncates the file, and what it then writes is on the disk    *)
(* piece by piece.                                                          *)
Open ==
  /\ pc = "write" /\ pc' = "writing"
  /\ \E c \in Prefixes(payload) : runtime' = [runtime EXCEPT ![output] = c]
  /\ UNCHANGED <<backup, command, loop, fetched>>

Write ==
  /\ pc = "writing" /\ pc' = "validate"
  /\ runtime' = [runtime EXCEPT ![output] = ContentOf(payload)]
  /\ UNCHANGED <<backup, command, loop, fetched>>

(* write_text raises: the file is as it was, or as far as it was written. *)
WriteFails ==
  /\ pc \in {"write", "writing"}
  /\ GiveUp
  /\ UNCHANGED <<disk, command>>

ValidateKeeps ==
  /\ pc = "validate" /\ payload \in Validated
  /\ processed' = processed \cup {listing[i]}
  /\ NextNamespace
  /\ UNCHANGED <<disk, command>>

ValidateRejects ==
  /\ pc = "validate" /\ payload = "malformed"
  /\ runtime' = [runtime EXCEPT ![output] = "absent"]
  /\ GiveUp
  /\ UNCHANGED <<backup, command>>

(* Only YAMLError is caught next to the unlink: any other exception goes to *)
(* the loop's own handler, and the file stays.                              *)
ValidateRaises ==
  /\ pc = "validate" /\ payload = "raises"
  /\ GiveUp
  /\ UNCHANGED <<disk, command>>

LoopDone ==
  /\ pc = "lookup" /\ i > Len(listing)
  /\ pc' = IF mode = "refresh" THEN "restore" ELSE "finished"
  /\ UNCHANGED <<disk, command, loop, fetched>>

-----------------------------------------------------------------------------
(* Finishing a refresh. *)

(* processed is empty exactly when summary.success is 0. *)
Restorable(f) ==
  /\ backup[f] # "absent"
  /\ processed = {} \/ Label[f[1]] \notin processed

Restore(f) ==
  /\ pc = "restore" /\ Restorable(f)
  /\ runtime' = [runtime EXCEPT ![f] = backup[f]]
  /\ backup' = [backup EXCEPT ![f] = "absent"]
  /\ UNCHANGED <<pc, command, loop, fetched>>

RestoreDone ==
  /\ pc = "restore" /\ \A f \in File : ~Restorable(f)
  /\ pc' = "cleanup"
  /\ UNCHANGED <<disk, command, loop, fetched>>

Cleanup(f) ==
  /\ pc = "cleanup" /\ backup[f] # "absent"
  /\ backup' = [backup EXCEPT ![f] = "absent"]
  /\ UNCHANGED <<runtime, pc, command, loop, fetched>>

(* With ignore_errors=True, what cannot be removed stays until the next purge. *)
CleanupDone ==
  /\ pc = "cleanup" /\ pc' = "finished"
  /\ UNCHANGED <<disk, command, loop, fetched>>

(* The process is killed, or raises outside the loop's try. *)
Crash ==
  /\ pc \in Busy /\ pc' = "killed"
  /\ NoLocals
  /\ UNCHANGED <<disk, command>>

-----------------------------------------------------------------------------
(* What the running process does, and what befalls it. *)

Proceed ==
  \/ \E f \in File : Purge(f) \/ Stash(f) \/ Restore(f) \/ Cleanup(f)
  \/ PurgeDone \/ StashDone \/ RestoreDone \/ CleanupDone
  \/ DiscoverFails
  \/ \E names \in Listings : Discover(names)
  \/ FetchFails
  \/ \E v \in Versions : SkipExisting(v) \/ \E p \in Bodies : Download(v, p)
  \/ Open \/ Write \/ WriteFails
  \/ ValidateKeeps \/ ValidateRejects \/ ValidateRaises
  \/ LoopDone

Next == StartInit \/ StartRefresh \/ Proceed \/ Crash

Spec == Init /\ [][Next]_vars

-----------------------------------------------------------------------------
(* Properties. *)

Distinct(s) == \A j, k \in 1..Len(s) : s[j] = s[k] => j = k

ListedOnce(n) ==
  \A j, k \in 1..Len(listing) : listing[j] = n /\ listing[k] = n => j = k

(* n has no dash: the label of its files is n itself. *)
OwnLabel(n) == Label[n] = n

Holds(store, n) == \E v \in Versions : store[<<n, v>>] \in Validated

RefreshCompleted == pc = "finished" /\ mode = "refresh"

(* A completed refresh leaves every namespace that had a validated artifact *)
(* with one, whatever failed in between: backup, loop and restore together  *)
(* in download_yamls.  Two exceptions: a namespace with a dash in its name, *)
(* which the restore takes for another (OwnLabel), and, under --force, one  *)
(* listed twice, which loses what its first pass saved when the second one  *)
(* fails; the other names of that list are spared.                          *)
RefreshKeepsEveryNamespace ==
  RefreshCompleted =>
    \A n \in Namespaces :
      OwnLabel(n) /\ Holds(before, n) /\ (~force \/ ListedOnce(n)) => Holds(runtime, n)

(* The files of a namespace the completed refresh did not process: each one *)
(* it had is as it was, also when a failed download wrote over the same     *)
(* name (_restore_backup_artifacts); and a file it did not have is at most  *)
(* what a write or a validation that raised left there, never a document    *)
(* that was accepted and not counted.                                       *)
UnprocessedIsUntouched ==
  RefreshCompleted =>
    \A n \in Namespaces \ processed, v \in Versions :
      OwnLabel(n) =>
        /\ before[<<n, v>>] # "absent" => runtime[<<n, v>>] = before[<<n, v>>]
        /\ before[<<n, v>>] = "absent" => runtime[<<n, v>>] \notin Validated

(* A processed namespace is left with one file, so that no older version is *)
(* loaded beside the new one, unless the list named it twice.               *)
ProcessedHasOneVersion ==
  RefreshCompleted =>
    \A n \in processed :
      OwnLabel(n) /\ ListedOnce(n) => \E v \in Versions :
        Present(runtime) \cap ({n} \X Versions) = {<<n, v>>}

(* init never changes a file that was there when it started, even when it   *)
(* is killed in the middle of a write: the already_exists skip.             *)
InitOnlyAdds ==
  mode = "init" =>
    \A f \in File : before[f] # "absent" => runtime[f] = before[f]

(* The promise of ArtifactPromise, for the namespaces whose names cannot be *)
(* confused with another's: a validated artifact, in the directory or its   *)
(* backup, is lost only when a refresh starts over the backup an earlier    *)
(* one left, or under --force with a namespace listed twice.                *)
Stock == {n \in Namespaces : OwnLabel(n) /\ (Holds(runtime, n) \/ Holds(backup, n))}
Exposed == pc = "purge" \/ (force /\ ~Distinct(listing))

Promise == INSTANCE ArtifactPromise WITH stock <- Stock, exposed <- Exposed

ImplementsPromise == Promise!Spec

(* What the code's comments and the documentation claim, and it does not do. *)

(* README.md:122 and docs/deployment.md:548: artifacts survive a refresh    *)
(* that could not reach the discovery endpoint (get_namespaces raising).    *)
FailedRefreshKeepsArtifacts ==
  pc = "failed" /\ mode = "refresh" =>
    \A n \in Namespaces : Holds(before, n) => Holds(runtime, n)

(* _validate_and_save_yaml, "Validate YAML before keeping file on disk": a  *)
(* command that returns leaves no new file that was not validated.          *)
KeptFilesAreValidated ==
  pc = "finished" =>
    \A f \in File : runtime[f] \in Unvalidated => runtime[f] = before[f]
=============================================================================
