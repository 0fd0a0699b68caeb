----------------------- MODULE ArtifactStore_proofs -----------------------
(***************************************************************************)
(* Proofs about ArtifactStore, for any sets of namespaces and versions,    *)
(* any listings and any labelling of file names.                           *)
(***************************************************************************)
EXTENDS ArtifactStore, TLAPS

-----------------------------------------------------------------------------
(* The inductive invariant: what the process knows at each pc. *)

Loop == {"lookup", "write", "writing", "validate"}
Late == Loop \cup {"restore", "cleanup", "finished"}

(* The file being written belongs to the current namespace. *)
Writing ==
  pc \in {"write", "writing", "validate"} =>
    /\ i \in 1..Len(listing) /\ payload \in Payload
    /\ output \in File /\ output[1] = listing[i]

Written ==
  /\ pc = "writing" => runtime[output] \in Unvalidated
  /\ pc = "validate" => runtime[output] = ContentOf(payload)

(* Only refresh forces, purges, stashes, restores and cleans up. *)
Modes ==
  /\ pc \in {"purge", "stash", "restore", "cleanup"} => mode = "refresh"
  /\ mode = "init" => force = FALSE

(* A processed namespace was met at an earlier position of the listing. *)
ProcessedEarlier ==
  /\ pc \in {"purge", "stash", "discover"} => i = 1 /\ processed = {}
  /\ \A n \in processed : \E j \in 1..Len(listing) : j < i /\ listing[j] = n

(* Without --force nothing that was there is written over. *)
FreshOutput ==
  /\ pc = "write" /\ ~force => runtime[output] = "absent"
  /\ pc \in {"write", "writing", "validate"} /\ mode = "init" => before[output] = "absent"

(* Where the artifacts of before are, phase by phase. *)
Stashing ==
  mode = "refresh" =>
    /\ pc = "purge" => runtime = before
    /\ pc = "stash" => \A f \in File :
         \/ runtime[f] = before[f] /\ backup[f] = "absent"
         \/ runtime[f] = "absent" /\ backup[f] = before[f]
    /\ pc \in {"discover"} \cup Loop => backup = before
    /\ pc = "restore" => \A f \in File :
         \/ backup[f] = before[f]
         \/ backup[f] = "absent" /\ runtime[f] = before[f]

Untouched ==
  mode = "refresh" /\ pc \in {"cleanup", "finished"} =>
    \A n \in Namespaces \ processed, v \in Versions :
      OwnLabel(n) =>
        /\ before[<<n, v>>] # "absent" => runtime[<<n, v>>] = before[<<n, v>>]
        /\ before[<<n, v>>] = "absent" => runtime[<<n, v>>] \notin Validated

ProcessedHolds ==
  mode = "refresh" /\ pc \in Late =>
    \A n \in processed :
      OwnLabel(n) /\ (~force \/ ListedOnce(n)) => Holds(runtime, n)

(* During a refresh, only processed namespaces have validated artifacts in  *)
(* the directory, until their old ones are restored.                        *)
NoStray ==
  mode = "refresh" /\ pc \in {"discover", "restore"} \cup Loop =>
    \A f \in File :
      /\ f[1] \notin processed
      /\ ~(pc = "validate" /\ f = output)
      /\ ~(pc = "restore" /\ backup[f] = "absent" /\ before[f] # "absent")
      => runtime[f] \notin Validated

(* A namespace the loop has not passed yet has no file at all. *)
NotYetMet ==
  mode = "refresh" /\ pc \in {"discover"} \cup Loop =>
    \A f \in File :
      /\ \A j \in 1..Len(listing) : j < i => listing[j] # f[1]
      /\ ~(pc \in {"writing", "validate"} /\ f = output)
      => runtime[f] = "absent"

OneVersion ==
  mode = "refresh" /\ pc \in Late =>
    \A n \in processed :
      OwnLabel(n) /\ ListedOnce(n) => \E v \in Versions :
        \A w \in Versions : runtime[<<n, w>>] # "absent" <=> w = v

(* What is left to clean up was replaced. *)
Leftover ==
  pc = "cleanup" =>
    \A f \in File : backup[f] # "absent" => Label[f[1]] \in processed

IInv ==
  /\ TypeOK
  /\ Writing /\ Written /\ Modes /\ ProcessedEarlier /\ FreshOutput
  /\ Stashing /\ Untouched /\ ProcessedHolds
  /\ NoStray /\ NotYetMet /\ OneVersion /\ Leftover
  /\ InitOnlyAdds

-----------------------------------------------------------------------------
(* Type correctness: every reachable state has the declared shape. *)

LEMMA TypeInit == Init => TypeOK
<1> SUFFICES ASSUME Init PROVE TypeOK
  OBVIOUS
<1>1. listing \in Seq(Namespaces)
  BY DEF Init
<1>2. /\ runtime \in [File -> Content] /\ backup \in [File -> Content]
      /\ before \in [File -> Content]
  BY DEF Init, Empty, Content, Validated, Unvalidated
<1>3. /\ output \in File \cup {NoFile} /\ processed \in SUBSET Namespaces
      /\ payload \in Payload \cup {"none"}
  BY DEF Init
<1>4. pc \in Rest /\ mode \in {"init", "refresh"} /\ i \in Nat \ {0}
  BY DEF Init, Rest
<1>5. force \in BOOLEAN
  BY DEF Init
<1> QED
  BY <1>1, <1>2, <1>3, <1>4, <1>5 DEF TypeOK

LEMMA TypeNext == TypeOK /\ Writing /\ [Next]_vars => TypeOK'
<1> USE ListingsAssumption, BodiesAssumption DEF TypeOK, Content, Validated, Unvalidated, Prefixes,
      Payload, Rest, Busy,
      disk, command, loop, fetched
<1> SUFFICES ASSUME TypeOK, Writing, [Next]_vars PROVE TypeOK'
  OBVIOUS
<1>1. CASE StartInit
  <2>1. listing' \in Seq(Namespaces)
    BY <1>1 DEF StartInit, Start, NoLocals
  <2>2. /\ runtime' = runtime /\ backup' = backup /\ before' = runtime
        /\ mode' = "init" /\ pc' = "discover" /\ i' = 1
        /\ processed' = {} /\ output' = NoFile /\ payload' = "none"
    BY <1>1 DEF StartInit, Start, NoLocals
  <2>3. force' \in BOOLEAN
    BY <1>1, Zenon DEF StartInit, Start
  <2> QED
    BY <2>1, <2>2, <2>3
<1>2. CASE StartRefresh
  BY <1>2 DEF StartRefresh, Start, NoLocals
<1>3. ASSUME NEW f \in File, Purge(f)
      PROVE  TypeOK'
  BY <1>3 DEF Purge
<1>4. ASSUME NEW f \in File, Stash(f)
      PROVE  TypeOK'
  BY <1>4 DEF Stash
<1>5. ASSUME NEW f \in File, Restore(f)
      PROVE  TypeOK'
  BY <1>5 DEF Restore, Restorable
<1>6. ASSUME NEW f \in File, Cleanup(f)
      PROVE  TypeOK'
  BY <1>6 DEF Cleanup
<1>7. CASE PurgeDone
  BY <1>7 DEF PurgeDone
<1>8. CASE StashDone
  BY <1>8 DEF StashDone, Present
<1>9. CASE RestoreDone
  BY <1>9 DEF RestoreDone, Restorable
<1>10. CASE CleanupDone
  BY <1>10 DEF CleanupDone
<1>11. CASE DiscoverFails
  BY <1>11 DEF DiscoverFails, NoLocals
<1>12. ASSUME NEW names \in Listings, Discover(names)
      PROVE  TypeOK'
  BY <1>12 DEF Discover
<1>13. CASE FetchFails
  BY <1>13 DEF FetchFails, Looking, GiveUp, NextNamespace
<1>14. ASSUME NEW v \in Versions, SkipExisting(v)
      PROVE  TypeOK'
  BY <1>14 DEF SkipExisting, Looking, GiveUp, NextNamespace
<1>15. ASSUME NEW v \in Versions, NEW p \in Bodies, Download(v, p)
      PROVE  TypeOK'
  BY <1>15 DEF Download, Looking, File
<1>16. CASE Open
  BY <1>16 DEF Open, Writing
<1>17. CASE Write
  BY <1>17 DEF Write, Writing, ContentOf
<1>18. CASE WriteFails
  BY <1>18 DEF WriteFails, GiveUp, NextNamespace, Writing
<1>19. CASE ValidateKeeps
  BY <1>19 DEF ValidateKeeps, NextNamespace, Writing
<1>20. CASE ValidateRejects
  BY <1>20 DEF ValidateRejects, GiveUp, NextNamespace, Writing
<1>21. CASE ValidateRaises
  BY <1>21 DEF ValidateRaises, GiveUp, NextNamespace
<1>22. CASE LoopDone
  BY <1>22 DEF LoopDone
<1>23. CASE Crash
  BY <1>23 DEF Crash, NoLocals
<1>24. CASE UNCHANGED vars
  BY <1>24 DEF vars
<1> QED
  BY <1>1, <1>2, <1>3, <1>4, <1>5, <1>6, <1>7, <1>8, <1>9, <1>10, <1>11, <1>12,
     <1>13, <1>14, <1>15, <1>16, <1>17, <1>18, <1>19, <1>20, <1>21, <1>22, <1>23, <1>24
     DEF Next, Proceed

(* Control: what is being written, by which command, for which namespace. *)

Control == Writing /\ Written /\ Modes /\ ProcessedEarlier /\ FreshOutput

LEMMA ControlNext ==
  TypeOK /\ Control /\ InitOnlyAdds /\ [Next]_vars => Control' /\ InitOnlyAdds'
<1> USE ListingsAssumption, BodiesAssumption DEF TypeOK, Control, Writing, Written,
      Modes, ProcessedEarlier,
      FreshOutput, InitOnlyAdds, Rest, Busy, disk, command, loop, fetched
<1> SUFFICES ASSUME TypeOK, Control, InitOnlyAdds, [Next]_vars
             PROVE  Control' /\ InitOnlyAdds'
  OBVIOUS
<1>1. CASE StartInit
  BY <1>1 DEF StartInit, Start, NoLocals
<1>2. CASE StartRefresh
  BY <1>2 DEF StartRefresh, Start, NoLocals
<1>3. ASSUME NEW f \in File, Purge(f)
      PROVE  Control' /\ InitOnlyAdds'
  BY <1>3 DEF Purge
<1>4. ASSUME NEW f \in File, Stash(f)
      PROVE  Control' /\ InitOnlyAdds'
  BY <1>4 DEF Stash
<1>5. ASSUME NEW f \in File, Restore(f)
      PROVE  Control' /\ InitOnlyAdds'
  BY <1>5 DEF Restore, Restorable
<1>6. ASSUME NEW f \in File, Cleanup(f)
      PROVE  Control' /\ InitOnlyAdds'
  BY <1>6 DEF Cleanup
<1>7. CASE PurgeDone
  BY <1>7 DEF PurgeDone
<1>8. CASE StashDone
  BY <1>8 DEF StashDone, Present
<1>9. CASE RestoreDone
  BY <1>9 DEF RestoreDone, Restorable
<1>10. CASE CleanupDone
  BY <1>10 DEF CleanupDone
<1>11. CASE DiscoverFails
  BY <1>11 DEF DiscoverFails, NoLocals
<1>12. ASSUME NEW names \in Listings, Discover(names)
      PROVE  Control' /\ InitOnlyAdds'
  BY <1>12 DEF Discover
<1>13. CASE FetchFails
  BY <1>13 DEF FetchFails, Looking, GiveUp, NextNamespace
<1>14. ASSUME NEW v \in Versions, SkipExisting(v)
      PROVE  Control' /\ InitOnlyAdds'
  BY <1>14 DEF SkipExisting, Looking, GiveUp, NextNamespace
<1>15. ASSUME NEW v \in Versions, NEW p \in Bodies, Download(v, p)
      PROVE  Control' /\ InitOnlyAdds'
  BY <1>15 DEF Download, Looking, File
<1>16. CASE Open
  BY <1>16 DEF Open, Prefixes, Unvalidated
<1>17. CASE Write
  BY <1>17 DEF Write, ContentOf
<1>18. CASE WriteFails
  BY <1>18 DEF WriteFails, GiveUp, NextNamespace
<1>19. CASE ValidateKeeps
  BY <1>19 DEF ValidateKeeps, NextNamespace
<1>20. CASE ValidateRejects
  BY <1>20 DEF ValidateRejects, GiveUp, NextNamespace
<1>21. CASE ValidateRaises
  BY <1>21 DEF ValidateRaises, GiveUp, NextNamespace
<1>22. CASE LoopDone
  BY <1>22 DEF LoopDone
<1>23. CASE Crash
  BY <1>23 DEF Crash, NoLocals
<1>24. CASE UNCHANGED vars
  BY <1>24 DEF vars
<1> QED
  BY <1>1, <1>2, <1>3, <1>4, <1>5, <1>6, <1>7, <1>8, <1>9, <1>10, <1>11, <1>12,
     <1>13, <1>14, <1>15, <1>16, <1>17, <1>18, <1>19, <1>20, <1>21, <1>22, <1>23, <1>24
     DEF Next, Proceed

(* Where the artifacts of before are. *)

Disk == Stashing /\ Untouched

LEMMA DiskNext ==
  TypeOK /\ Control /\ Disk /\ NoStray /\ [Next]_vars => Disk'
<1> USE DEF TypeOK, Control, Writing, Modes, Disk, Stashing, Untouched, Loop, Rest,
      Busy, disk, command, loop, fetched
<1> SUFFICES ASSUME TypeOK, Control, Disk, NoStray, [Next]_vars PROVE Disk'
  OBVIOUS
<1>1. CASE StartInit
  BY <1>1 DEF StartInit, Start, NoLocals
<1>2. CASE StartRefresh
  BY <1>2 DEF StartRefresh, Start, NoLocals
<1>3. ASSUME NEW f \in File, Purge(f)
      PROVE  Disk'
  BY <1>3 DEF Purge
<1>4. ASSUME NEW f \in File, Stash(f)
      PROVE  Disk'
  BY <1>4 DEF Stash
<1>5. ASSUME NEW f \in File, Restore(f)
      PROVE  Disk'
  BY <1>5 DEF Restore, Restorable
<1>6. ASSUME NEW f \in File, Cleanup(f)
      PROVE  Disk'
  BY <1>6 DEF Cleanup
<1>7. CASE PurgeDone
  BY <1>7 DEF PurgeDone, Present
<1>8. CASE StashDone
  BY <1>8 DEF StashDone, Present
<1>9. CASE RestoreDone
  BY <1>9 DEF RestoreDone, Restorable, File, OwnLabel, NoStray, Validated
<1>10. CASE CleanupDone
  BY <1>10 DEF CleanupDone
<1>11. CASE DiscoverFails
  BY <1>11 DEF DiscoverFails, NoLocals
<1>12. ASSUME NEW names \in Listings, Discover(names)
      PROVE  Disk'
  BY <1>12 DEF Discover
<1>13. CASE FetchFails
  BY <1>13 DEF FetchFails, Looking, GiveUp, NextNamespace
<1>14. ASSUME NEW v \in Versions, SkipExisting(v)
      PROVE  Disk'
  BY <1>14 DEF SkipExisting, Looking, GiveUp, NextNamespace
<1>15. ASSUME NEW v \in Versions, NEW p \in Bodies, Download(v, p)
      PROVE  Disk'
  BY <1>15 DEF Download, Looking
<1>16. CASE Open
  BY <1>16 DEF Open
<1>17. CASE Write
  BY <1>17 DEF Write
<1>18. CASE WriteFails
  BY <1>18 DEF WriteFails, GiveUp, NextNamespace
<1>19. CASE ValidateKeeps
  BY <1>19 DEF ValidateKeeps, NextNamespace
<1>20. CASE ValidateRejects
  BY <1>20 DEF ValidateRejects, GiveUp, NextNamespace
<1>21. CASE ValidateRaises
  BY <1>21 DEF ValidateRaises, GiveUp, NextNamespace
<1>22. CASE LoopDone
  BY <1>22 DEF LoopDone
<1>23. CASE Crash
  BY <1>23 DEF Crash, NoLocals
<1>24. CASE UNCHANGED vars
  BY <1>24 DEF vars
<1> QED
  BY <1>1, <1>2, <1>3, <1>4, <1>5, <1>6, <1>7, <1>8, <1>9, <1>10, <1>11, <1>12,
     <1>13, <1>14, <1>15, <1>16, <1>17, <1>18, <1>19, <1>20, <1>21, <1>22, <1>23, <1>24
     DEF Next, Proceed

(* What was processed stays on disk. *)

LEMMA HoldsNext ==
  TypeOK /\ Control /\ ProcessedHolds /\ [Next]_vars => ProcessedHolds'
<1> USE DEF TypeOK, Control, Writing, Written, Modes, ProcessedEarlier, FreshOutput,
      ProcessedHolds, Late, Loop, Rest, Busy, ListedOnce, Holds, disk, command, loop, fetched
<1> SUFFICES ASSUME TypeOK, Control, ProcessedHolds, [Next]_vars PROVE ProcessedHolds'
  OBVIOUS
<1>1. CASE StartInit
  BY <1>1 DEF StartInit, Start, NoLocals
<1>2. CASE StartRefresh
  BY <1>2 DEF StartRefresh, Start, NoLocals
<1>3. ASSUME NEW f \in File, Purge(f)
      PROVE  ProcessedHolds'
  BY <1>3 DEF Purge
<1>4. ASSUME NEW f \in File, Stash(f)
      PROVE  ProcessedHolds'
  BY <1>4 DEF Stash
<1>5. ASSUME NEW f \in File, Restore(f)
      PROVE  ProcessedHolds'
  <2> SUFFICES ASSUME mode' = "refresh", pc' \in Late, NEW n \in processed', OwnLabel(n),
                      (~force \/ ListedOnce(n))'
               PROVE  Holds(runtime, n)'
    BY DEF OwnLabel
  <2>1. Holds(runtime, n) /\ Label[n] \in processed
    BY <1>5 DEF Restore, OwnLabel
  <2>2. f[1] # n
    BY <1>5, <2>1 DEF Restore, Restorable
  <2>3. PICK v \in Versions : runtime[<<n, v>>] \in Validated
    BY <2>1
  <2>4. runtime'[<<n, v>>] = runtime[<<n, v>>]
    BY <1>5, <2>2, <2>3 DEF Restore, File
  <2> QED
    BY <2>3, <2>4
<1>6. ASSUME NEW f \in File, Cleanup(f)
      PROVE  ProcessedHolds'
  BY <1>6 DEF Cleanup
<1>7. CASE PurgeDone
  BY <1>7 DEF PurgeDone
<1>8. CASE StashDone
  BY <1>8 DEF StashDone, Present
<1>9. CASE RestoreDone
  BY <1>9 DEF RestoreDone, Restorable
<1>10. CASE CleanupDone
  BY <1>10 DEF CleanupDone
<1>11. CASE DiscoverFails
  BY <1>11 DEF DiscoverFails, NoLocals
<1>12. ASSUME NEW names \in Listings, Discover(names)
      PROVE  ProcessedHolds'
  BY <1>12 DEF Discover
<1>13. CASE FetchFails
  BY <1>13 DEF FetchFails, Looking, GiveUp, NextNamespace
<1>14. ASSUME NEW v \in Versions, SkipExisting(v)
      PROVE  ProcessedHolds'
  BY <1>14 DEF SkipExisting, Looking, GiveUp, NextNamespace
<1>15. ASSUME NEW v \in Versions, NEW p \in Bodies, Download(v, p)
      PROVE  ProcessedHolds'
  BY <1>15 DEF Download, Looking
<1>16. CASE Open
  <2> SUFFICES ASSUME mode' = "refresh", NEW n \in processed', OwnLabel(n),
                      (~force \/ ListedOnce(n))'
               PROVE  Holds(runtime, n)'
    BY <1>16 DEF Open, OwnLabel
  <2>1. PICK v \in Versions : runtime[<<n, v>>] \in Validated
    BY <1>16 DEF Open
  <2>2. <<n, v>> # output
    BY <1>16, <2>1 DEF Open, Validated
  <2>3. runtime'[<<n, v>>] = runtime[<<n, v>>]
    BY <1>16, <2>1, <2>2 DEF Open, File
  <2> QED
    BY <2>1, <2>3
<1>17. CASE Write
  <2> SUFFICES ASSUME mode' = "refresh", NEW n \in processed', OwnLabel(n),
                      (~force \/ ListedOnce(n))'
               PROVE  Holds(runtime, n)'
    BY <1>17 DEF Write, OwnLabel
  <2>1. PICK v \in Versions : runtime[<<n, v>>] \in Validated
    BY <1>17 DEF Write
  <2>2. <<n, v>> # output
    BY <1>17, <2>1 DEF Write, Unvalidated, Validated
  <2>3. runtime'[<<n, v>>] = runtime[<<n, v>>]
    BY <1>17, <2>1, <2>2 DEF Write, File
  <2> QED
    BY <2>1, <2>3
<1>18. CASE WriteFails
  BY <1>18 DEF WriteFails, GiveUp, NextNamespace
<1>19. CASE ValidateKeeps
  <2> SUFFICES ASSUME mode' = "refresh", NEW n \in processed', OwnLabel(n),
                      (~force \/ ListedOnce(n))'
               PROVE  Holds(runtime, n)'
    BY <1>19 DEF ValidateKeeps, NextNamespace, OwnLabel
  <2>1. CASE n \in processed
    BY <1>19, <2>1 DEF ValidateKeeps, NextNamespace
  <2>2. CASE n = output[1]
    <3>1. output = <<n, output[2]>> /\ output[2] \in Versions
      BY <1>19, <2>2 DEF ValidateKeeps, File
    <3>2. runtime'[output] \in Validated
      BY <1>19 DEF ValidateKeeps, ContentOf
    <3> QED
      BY <3>1, <3>2
  <2> QED
    BY <1>19, <2>1, <2>2 DEF ValidateKeeps, NextNamespace
<1>20. CASE ValidateRejects
  <2> SUFFICES ASSUME mode' = "refresh", NEW n \in processed', OwnLabel(n),
                      (~force \/ ListedOnce(n))'
               PROVE  Holds(runtime, n)'
    BY <1>20 DEF ValidateRejects, GiveUp, NextNamespace, OwnLabel
  <2>1. PICK v \in Versions : runtime[<<n, v>>] \in Validated
    BY <1>20 DEF ValidateRejects, GiveUp, NextNamespace
  <2>2. <<n, v>> # output
    BY <1>20, <2>1 DEF ValidateRejects, GiveUp, NextNamespace, ContentOf, Validated
  <2>3. runtime'[<<n, v>>] = runtime[<<n, v>>]
    BY <1>20, <2>1, <2>2 DEF ValidateRejects, GiveUp, NextNamespace, File
  <2> QED
    BY <2>1, <2>3
<1>21. CASE ValidateRaises
  BY <1>21 DEF ValidateRaises, GiveUp, NextNamespace
<1>22. CASE LoopDone
  BY <1>22 DEF LoopDone
<1>23. CASE Crash
  BY <1>23 DEF Crash, NoLocals
<1>24. CASE UNCHANGED vars
  BY <1>24 DEF vars
<1> QED
  BY <1>1, <1>2, <1>3, <1>4, <1>5, <1>6, <1>7, <1>8, <1>9, <1>10, <1>11, <1>12,
     <1>13, <1>14, <1>15, <1>16, <1>17, <1>18, <1>19, <1>20, <1>21, <1>22, <1>23, <1>24
     DEF Next, Proceed

(* What is in the directory before, and apart from, what was processed. *)

LEMMA StrayNext ==
  TypeOK /\ Control /\ Stashing /\ NoStray /\ [Next]_vars => NoStray'
<1> USE DEF TypeOK, Control, Writing, Written, Modes, ProcessedEarlier, FreshOutput,
      NoStray, Loop, Rest, Busy, disk, command, loop, fetched
<1> SUFFICES ASSUME TypeOK, Control, Stashing, NoStray, [Next]_vars PROVE NoStray'
  OBVIOUS
<1>1. CASE StartInit
  BY <1>1 DEF StartInit, Start, NoLocals
<1>2. CASE StartRefresh
  BY <1>2 DEF StartRefresh, Start, NoLocals
<1>3. ASSUME NEW f \in File, Purge(f)
      PROVE  NoStray'
  BY <1>3 DEF Purge
<1>4. ASSUME NEW f \in File, Stash(f)
      PROVE  NoStray'
  BY <1>4 DEF Stash
<1>5. ASSUME NEW f \in File, Restore(f)
      PROVE  NoStray'
  BY <1>5 DEF Restore, Restorable, Stashing
<1>6. ASSUME NEW f \in File, Cleanup(f)
      PROVE  NoStray'
  BY <1>6 DEF Cleanup
<1>7. CASE PurgeDone
  BY <1>7 DEF PurgeDone
<1>8. CASE StashDone
  BY <1>8 DEF StashDone, Present, Present, Validated
<1>9. CASE RestoreDone
  BY <1>9 DEF RestoreDone, Restorable, Restorable
<1>10. CASE CleanupDone
  BY <1>10 DEF CleanupDone
<1>11. CASE DiscoverFails
  BY <1>11 DEF DiscoverFails, NoLocals
<1>12. ASSUME NEW names \in Listings, Discover(names)
      PROVE  NoStray'
  BY <1>12 DEF Discover
<1>13. CASE FetchFails
  BY <1>13 DEF FetchFails, Looking, GiveUp, NextNamespace
<1>14. ASSUME NEW v \in Versions, SkipExisting(v)
      PROVE  NoStray'
  BY <1>14 DEF SkipExisting, Looking, GiveUp, NextNamespace
<1>15. ASSUME NEW v \in Versions, NEW p \in Bodies, Download(v, p)
      PROVE  NoStray'
  BY <1>15 DEF Download, Looking
<1>16. CASE Open
  BY <1>16 DEF Open, Prefixes, Unvalidated, Validated
<1>17. CASE Write
  BY <1>17 DEF Write, ContentOf
<1>18. CASE WriteFails
  BY <1>18 DEF WriteFails, GiveUp, NextNamespace, Validated
<1>19. CASE ValidateKeeps
  BY <1>19 DEF ValidateKeeps, NextNamespace
<1>20. CASE ValidateRejects
  BY <1>20 DEF ValidateRejects, GiveUp, NextNamespace, Validated
<1>21. CASE ValidateRaises
  BY <1>21 DEF ValidateRaises, GiveUp, NextNamespace, ContentOf, Validated
<1>22. CASE LoopDone
  BY <1>22 DEF LoopDone
<1>23. CASE Crash
  BY <1>23 DEF Crash, NoLocals
<1>24. CASE UNCHANGED vars
  BY <1>24 DEF vars
<1> QED
  BY <1>1, <1>2, <1>3, <1>4, <1>5, <1>6, <1>7, <1>8, <1>9, <1>10, <1>11, <1>12,
     <1>13, <1>14, <1>15, <1>16, <1>17, <1>18, <1>19, <1>20, <1>21, <1>22, <1>23, <1>24
     DEF Next, Proceed

LEMMA NotYetMetNext ==
  TypeOK /\ Control /\ NotYetMet /\ [Next]_vars => NotYetMet'
<1> USE DEF TypeOK, Control, Writing, Written, Modes, ProcessedEarlier, FreshOutput,
      NotYetMet, Loop, Rest, Busy, disk, command, loop, fetched
<1> SUFFICES ASSUME TypeOK, Control, NotYetMet, [Next]_vars PROVE NotYetMet'
  OBVIOUS
<1>1. CASE StartInit
  BY <1>1 DEF StartInit, Start, NoLocals
<1>2. CASE StartRefresh
  BY <1>2 DEF StartRefresh, Start, NoLocals
<1>3. ASSUME NEW f \in File, Purge(f)
      PROVE  NotYetMet'
  BY <1>3 DEF Purge
<1>4. ASSUME NEW f \in File, Stash(f)
      PROVE  NotYetMet'
  BY <1>4 DEF Stash
<1>5. ASSUME NEW f \in File, Restore(f)
      PROVE  NotYetMet'
  BY <1>5 DEF Restore, Restorable
<1>6. ASSUME NEW f \in File, Cleanup(f)
      PROVE  NotYetMet'
  BY <1>6 DEF Cleanup
<1>7. CASE PurgeDone
  BY <1>7 DEF PurgeDone
<1>8. CASE StashDone
  BY <1>8 DEF StashDone, Present, Present
<1>9. CASE RestoreDone
  BY <1>9 DEF RestoreDone, Restorable
<1>10. CASE CleanupDone
  BY <1>10 DEF CleanupDone
<1>11. CASE DiscoverFails
  BY <1>11 DEF DiscoverFails, NoLocals
<1>12. ASSUME NEW names \in Listings, Discover(names)
      PROVE  NotYetMet'
  BY <1>12 DEF Discover
<1>13. CASE FetchFails
  BY <1>13 DEF FetchFails, Looking, GiveUp, NextNamespace
<1>14. ASSUME NEW v \in Versions, SkipExisting(v)
      PROVE  NotYetMet'
  BY <1>14 DEF SkipExisting, Looking, GiveUp, NextNamespace
<1>15. ASSUME NEW v \in Versions, NEW p \in Bodies, Download(v, p)
      PROVE  NotYetMet'
  BY <1>15 DEF Download, Looking
<1>16. CASE Open
  BY <1>16 DEF Open
<1>17. CASE Write
  BY <1>17 DEF Write
<1>18. CASE WriteFails
  BY <1>18 DEF WriteFails, GiveUp, NextNamespace
<1>19. CASE ValidateKeeps
  BY <1>19 DEF ValidateKeeps, NextNamespace
<1>20. CASE ValidateRejects
  BY <1>20 DEF ValidateRejects, GiveUp, NextNamespace
<1>21. CASE ValidateRaises
  BY <1>21 DEF ValidateRaises, GiveUp, NextNamespace
<1>22. CASE LoopDone
  BY <1>22 DEF LoopDone
<1>23. CASE Crash
  BY <1>23 DEF Crash, NoLocals
<1>24. CASE UNCHANGED vars
  BY <1>24 DEF vars
<1> QED
  BY <1>1, <1>2, <1>3, <1>4, <1>5, <1>6, <1>7, <1>8, <1>9, <1>10, <1>11, <1>12,
     <1>13, <1>14, <1>15, <1>16, <1>17, <1>18, <1>19, <1>20, <1>21, <1>22, <1>23, <1>24
     DEF Next, Proceed

LEMMA OneVersionNext ==
  TypeOK /\ Control /\ NotYetMet /\ OneVersion /\ [Next]_vars => OneVersion'
<1> USE DEF TypeOK, Control, Writing, Written, Modes, ProcessedEarlier, FreshOutput,
      OneVersion, Late, Loop, Rest, Busy, ListedOnce, disk, command, loop, fetched
<1> SUFFICES ASSUME TypeOK, Control, NotYetMet, OneVersion, [Next]_vars PROVE OneVersion'
  OBVIOUS
<1>1. CASE StartInit
  BY <1>1 DEF StartInit, Start, NoLocals
<1>2. CASE StartRefresh
  BY <1>2 DEF StartRefresh, Start, NoLocals
<1>3. ASSUME NEW f \in File, Purge(f)
      PROVE  OneVersion'
  BY <1>3 DEF Purge
<1>4. ASSUME NEW f \in File, Stash(f)
      PROVE  OneVersion'
  BY <1>4 DEF Stash
<1>5. ASSUME NEW f \in File, Restore(f)
      PROVE  OneVersion'
  <2> SUFFICES ASSUME mode' = "refresh", pc' \in Late,
                      NEW n \in processed', OwnLabel(n), ListedOnce(n)'
               PROVE  \E v \in Versions : \A w \in Versions :
                        runtime'[<<n, w>>] # "absent" <=> w = v
    BY <1>5 DEF Restore, OwnLabel
  <2>1. n \in processed /\ Label[n] \in processed
    BY <1>5 DEF Restore, OwnLabel
  <2>2. f[1] # n
    BY <1>5, <2>1 DEF Restore, Restorable
  <2>3. PICK v \in Versions : \A w \in Versions : runtime[<<n, w>>] # "absent" <=> w = v
    BY <1>5, <2>1 DEF Restore
  <2>4. \A w \in Versions : runtime'[<<n, w>>] = runtime[<<n, w>>]
    BY <1>5, <2>2 DEF Restore, File
  <2> QED
    BY <2>3, <2>4
<1>6. ASSUME NEW f \in File, Cleanup(f)
      PROVE  OneVersion'
  BY <1>6 DEF Cleanup
<1>7. CASE PurgeDone
  BY <1>7 DEF PurgeDone
<1>8. CASE StashDone
  BY <1>8 DEF StashDone, Present
<1>9. CASE RestoreDone
  BY <1>9 DEF RestoreDone, Restorable
<1>10. CASE CleanupDone
  BY <1>10 DEF CleanupDone
<1>11. CASE DiscoverFails
  BY <1>11 DEF DiscoverFails, NoLocals
<1>12. ASSUME NEW names \in Listings, Discover(names)
      PROVE  OneVersion'
  BY <1>12 DEF Discover
<1>13. CASE FetchFails
  BY <1>13 DEF FetchFails, Looking, GiveUp, NextNamespace
<1>14. ASSUME NEW v \in Versions, SkipExisting(v)
      PROVE  OneVersion'
  BY <1>14 DEF SkipExisting, Looking, GiveUp, NextNamespace
<1>15. ASSUME NEW v \in Versions, NEW p \in Bodies, Download(v, p)
      PROVE  OneVersion'
  <2>1. pc \in Late /\ mode' = mode /\ UNCHANGED <<runtime, listing, processed>>
    BY <1>15 DEF Download, Looking
  <2> QED
    BY <2>1
<1>16. CASE Open
  <2> SUFFICES ASSUME mode' = "refresh", pc' \in Late,
                      NEW n \in processed', OwnLabel(n), ListedOnce(n)'
               PROVE  \E v \in Versions : \A w \in Versions :
                        runtime'[<<n, w>>] # "absent" <=> w = v
    BY <1>16 DEF Open, OwnLabel
  <2>1. n \in processed
    BY <1>16 DEF Open
  <2>2. output[1] # n
    BY <1>16, <2>1 DEF Open
  <2>3. PICK v \in Versions : \A w \in Versions : runtime[<<n, w>>] # "absent" <=> w = v
    BY <1>16, <2>1 DEF Open
  <2>4. \A w \in Versions : runtime'[<<n, w>>] = runtime[<<n, w>>]
    BY <1>16, <2>2 DEF Open, File
  <2> QED
    BY <2>3, <2>4
<1>17. CASE Write
  BY <1>17 DEF Write
<1>18. CASE WriteFails
  BY <1>18 DEF WriteFails, GiveUp, NextNamespace
<1>19. CASE ValidateKeeps
  <2> SUFFICES ASSUME mode' = "refresh", pc' \in Late,
                      NEW n \in processed', OwnLabel(n), ListedOnce(n)'
               PROVE  \E v \in Versions : \A w \in Versions :
                        runtime'[<<n, w>>] # "absent" <=> w = v
    BY <1>19 DEF ValidateKeeps, NextNamespace, OwnLabel
  <2>1. CASE n \in processed
    BY <1>19, <2>1 DEF ValidateKeeps, NextNamespace
  <2>2. CASE n = listing[i] /\ n \notin processed
    <3>1. output = <<n, output[2]>> /\ output[2] \in Versions
      BY <1>19, <2>2 DEF ValidateKeeps, File
    <3>2. runtime[output] # "absent"
      BY <1>19 DEF ValidateKeeps, ContentOf, Validated
    <3>3. ASSUME NEW w \in Versions, w # output[2]
          PROVE  runtime[<<n, w>>] = "absent"
      <4>1. \A j \in 1..Len(listing) : j < i => listing[j] # n
        BY <1>19, <2>2 DEF ValidateKeeps, NextNamespace
      <4>2. <<n, w>> \in File /\ <<n, w>> # output
        BY <1>19, <2>2, <3>1, <3>3, ListingsAssumption DEF ValidateKeeps, File
      <4> QED
        BY <1>19, <4>1, <4>2 DEF ValidateKeeps, NotYetMet
    <3> QED
      BY <1>19, <3>1, <3>2, <3>3 DEF ValidateKeeps
  <2> QED
    BY <1>19, <2>1, <2>2 DEF ValidateKeeps, NextNamespace
<1>20. CASE ValidateRejects
  BY <1>20 DEF ValidateRejects, GiveUp, NextNamespace
<1>21. CASE ValidateRaises
  BY <1>21 DEF ValidateRaises, GiveUp, NextNamespace
<1>22. CASE LoopDone
  BY <1>22 DEF LoopDone
<1>23. CASE Crash
  BY <1>23 DEF Crash, NoLocals
<1>24. CASE UNCHANGED vars
  BY <1>24 DEF vars
<1> QED
  BY <1>1, <1>2, <1>3, <1>4, <1>5, <1>6, <1>7, <1>8, <1>9, <1>10, <1>11, <1>12,
     <1>13, <1>14, <1>15, <1>16, <1>17, <1>18, <1>19, <1>20, <1>21, <1>22, <1>23, <1>24
     DEF Next, Proceed

LEMMA LeftoverNext ==
  Modes /\ Leftover /\ [Next]_vars => Leftover'
<1> USE DEF Modes, Leftover, Rest, Busy, disk, command, loop, fetched
<1> SUFFICES ASSUME Modes, Leftover, [Next]_vars PROVE Leftover'
  OBVIOUS
<1>1. CASE StartInit
  BY <1>1 DEF StartInit, Start, NoLocals
<1>2. CASE StartRefresh
  BY <1>2 DEF StartRefresh, Start, NoLocals
<1>3. ASSUME NEW f \in File, Purge(f)
      PROVE  Leftover'
  BY <1>3 DEF Purge
<1>4. ASSUME NEW f \in File, Stash(f)
      PROVE  Leftover'
  BY <1>4 DEF Stash
<1>5. ASSUME NEW f \in File, Restore(f)
      PROVE  Leftover'
  BY <1>5 DEF Restore, Restorable
<1>6. ASSUME NEW f \in File, Cleanup(f)
      PROVE  Leftover'
  BY <1>6 DEF Cleanup
<1>7. CASE PurgeDone
  BY <1>7 DEF PurgeDone
<1>8. CASE StashDone
  BY <1>8 DEF StashDone, Present
<1>9. CASE RestoreDone
  BY <1>9 DEF RestoreDone, Restorable
<1>10. CASE CleanupDone
  BY <1>10 DEF CleanupDone
<1>11. CASE DiscoverFails
  BY <1>11 DEF DiscoverFails, NoLocals
<1>12. ASSUME NEW names \in Listings, Discover(names)
      PROVE  Leftover'
  BY <1>12 DEF Discover
<1>13. CASE FetchFails
  BY <1>13 DEF FetchFails, Looking, GiveUp, NextNamespace
<1>14. ASSUME NEW v \in Versions, SkipExisting(v)
      PROVE  Leftover'
  BY <1>14 DEF SkipExisting, Looking, GiveUp, NextNamespace
<1>15. ASSUME NEW v \in Versions, NEW p \in Bodies, Download(v, p)
      PROVE  Leftover'
  BY <1>15 DEF Download, Looking
<1>16. CASE Open
  BY <1>16 DEF Open
<1>17. CASE Write
  BY <1>17 DEF Write
<1>18. CASE WriteFails
  BY <1>18 DEF WriteFails, GiveUp, NextNamespace
<1>19. CASE ValidateKeeps
  BY <1>19 DEF ValidateKeeps, NextNamespace
<1>20. CASE ValidateRejects
  BY <1>20 DEF ValidateRejects, GiveUp, NextNamespace
<1>21. CASE ValidateRaises
  BY <1>21 DEF ValidateRaises, GiveUp, NextNamespace
<1>22. CASE LoopDone
  BY <1>22 DEF LoopDone
<1>23. CASE Crash
  BY <1>23 DEF Crash, NoLocals
<1>24. CASE UNCHANGED vars
  BY <1>24 DEF vars
<1> QED
  BY <1>1, <1>2, <1>3, <1>4, <1>5, <1>6, <1>7, <1>8, <1>9, <1>10, <1>11, <1>12,
     <1>13, <1>14, <1>15, <1>16, <1>17, <1>18, <1>19, <1>20, <1>21, <1>22, <1>23, <1>24
     DEF Next, Proceed

-----------------------------------------------------------------------------
(* The theorems. *)

LEMMA IInvInit == Init => IInv
<1> SUFFICES ASSUME Init PROVE IInv
  OBVIOUS
<1>1. TypeOK
  BY TypeInit
<1>2. Modes /\ Writing /\ Written /\ ProcessedEarlier /\ FreshOutput
  BY DEF Init, Modes, Writing, Written, ProcessedEarlier, FreshOutput
<1>3. Stashing /\ Untouched /\ ProcessedHolds
  BY DEF Init, Stashing, Untouched, ProcessedHolds
<1>4. NoStray /\ NotYetMet /\ OneVersion /\ Leftover
  BY DEF Init, NoStray, NotYetMet, OneVersion, Leftover
<1>5. InitOnlyAdds
  BY DEF Init, InitOnlyAdds
<1> QED
  BY <1>1, <1>2, <1>3, <1>4, <1>5 DEF IInv

LEMMA IInvNext == IInv /\ [Next]_vars => IInv'
<1> SUFFICES ASSUME IInv, [Next]_vars PROVE IInv'
  OBVIOUS
<1>1. TypeOK'
  BY TypeNext DEF IInv
<1>2. Control' /\ InitOnlyAdds'
  BY ControlNext DEF IInv, Control
<1>3. Disk'
  BY DiskNext DEF IInv, Control, Disk
<1>4. ProcessedHolds'
  BY HoldsNext DEF IInv, Control
<1>5. NoStray' /\ NotYetMet' /\ OneVersion' /\ Leftover'
  BY StrayNext, NotYetMetNext, OneVersionNext, LeftoverNext DEF IInv, Control, Disk
<1> QED
  BY <1>1, <1>2, <1>3, <1>4, <1>5 DEF IInv, Control, Disk

LEMMA Invariance == Spec => []IInv
<1>1. Init => IInv
  BY IInvInit
<1>2. IInv /\ [Next]_vars => IInv'
  BY IInvNext
<1> QED
  BY <1>1, <1>2, PTL DEF Spec

(* Every reachable state is well typed. *)
THEOREM TypeCorrect == Spec => []TypeOK
<1>1. IInv => TypeOK
  BY DEF IInv
<1> QED
  BY <1>1, Invariance, PTL

(* A completed refresh costs no namespace its last-known-good artifact: it  *)
(* was restored (Untouched) or replaced by a validated one (ProcessedHolds).*)
THEOREM RefreshSafe == Spec => []RefreshKeepsEveryNamespace
<1>1. IInv => RefreshKeepsEveryNamespace
  <2> SUFFICES ASSUME IInv, RefreshCompleted, NEW n \in Namespaces,
                      OwnLabel(n), Holds(before, n), ~force \/ ListedOnce(n)
               PROVE  Holds(runtime, n)
    BY DEF RefreshKeepsEveryNamespace
  <2>1. CASE n \in processed
    BY <2>1 DEF IInv, ProcessedHolds, Late, RefreshCompleted
  <2>2. CASE n \notin processed
    <3>1. PICK v \in Versions : before[<<n, v>>] \in Validated
      BY DEF Holds
    <3>2. runtime[<<n, v>>] = before[<<n, v>>]
      BY <2>2, <3>1 DEF IInv, Untouched, RefreshCompleted, Validated
    <3> QED
      BY <3>1, <3>2 DEF Holds
  <2> QED
    BY <2>1, <2>2
<1> QED
  BY <1>1, Invariance, PTL

(* A refresh leaves the files a namespace it did not process had as they    *)
(* were, and adds no validated one to them.                                 *)
THEOREM UnprocessedSafe == Spec => []UnprocessedIsUntouched
<1>1. IInv => UnprocessedIsUntouched
  BY DEF IInv, Untouched, UnprocessedIsUntouched, RefreshCompleted
<1> QED
  BY <1>1, Invariance, PTL

(* A refresh leaves one version of a namespace it processed.                *)
THEOREM ProcessedSingle == Spec => []ProcessedHasOneVersion
<1>1. IInv => ProcessedHasOneVersion
  <2> SUFFICES ASSUME IInv, RefreshCompleted,
                      NEW n \in processed, OwnLabel(n), ListedOnce(n)
               PROVE  \E v \in Versions :
                        Present(runtime) \cap ({n} \X Versions) = {<<n, v>>}
    BY DEF ProcessedHasOneVersion
  <2>1. PICK v \in Versions : \A w \in Versions : runtime[<<n, w>>] # "absent" <=> w = v
    BY DEF IInv, OneVersion, Late, RefreshCompleted
  <2>2. n \in Namespaces
    BY DEF IInv, TypeOK
  <2>3. ASSUME NEW f \in Present(runtime) \cap ({n} \X Versions) PROVE f = <<n, v>>
    BY <2>1 DEF Present
  <2>4. <<n, v>> \in Present(runtime) \cap ({n} \X Versions)
    BY <2>1, <2>2 DEF Present, File
  <2> QED
    BY <2>3, <2>4
<1> QED
  BY <1>1, Invariance, PTL

(* init, killed or not, changes no file it found.                           *)
THEOREM InitSafe == Spec => []InitOnlyAdds
<1>1. IInv => InitOnlyAdds
  BY DEF IInv
<1> QED
  BY <1>1, Invariance, PTL

-----------------------------------------------------------------------------
(* ArtifactStore implements ArtifactPromise. *)

PromiseStep == [Promise!Next]_(Promise!vars)

LEMMA ExposedType == Exposed \in BOOLEAN /\ Exposed' \in BOOLEAN
BY DEF Exposed

LEMMA SameStock == Stock' = Stock => PromiseStep
BY ExposedType DEF PromiseStep, Promise!Next, Promise!Expose, Promise!Secure

LEMMA MoreStock ==
  Stock \subseteq Stock' /\ Exposed' = Exposed => PromiseStep
BY DEF PromiseStep, Promise!Next, Promise!Gain, Stock

LEMMA LessStock == Stock' \subseteq Stock /\ Exposed => PromiseStep
BY ExposedType DEF PromiseStep, Promise!Next, Promise!Lose

(* The stock depends on which files are validated, and on nothing else. *)
LEMMA StockSame ==
  ASSUME \A f \in File : runtime'[f] \in Validated <=> runtime[f] \in Validated,
         backup' = backup
  PROVE  Stock' = Stock
<1>1. ASSUME NEW n \in Namespaces
      PROVE  (OwnLabel(n) /\ (Holds(runtime, n) \/ Holds(backup, n)))' <=>
             (OwnLabel(n) /\ (Holds(runtime, n) \/ Holds(backup, n)))
  BY DEF Holds, File, OwnLabel
<1> QED
  BY <1>1 DEF Stock

(* Only an exposed store writes over a validated artifact. *)
LEMMA WritesFresh ==
  IInv /\ pc = "write" /\ ~Exposed => runtime[output] \notin Validated
<1> SUFFICES ASSUME IInv, pc = "write", ~Exposed, runtime[output] \in Validated
             PROVE  FALSE
  OBVIOUS
<1>1. force /\ mode = "refresh"
  BY DEF IInv, FreshOutput, Modes, TypeOK, Validated
<1>2. output[1] \in processed
  BY <1>1 DEF IInv, NoStray, Loop, Writing
<1>3. \E j \in 1..Len(listing) : j < i /\ listing[j] = listing[i]
  BY <1>2 DEF IInv, ProcessedEarlier, Writing
<1>4. ~Distinct(listing)
  BY <1>3 DEF IInv, Writing, Distinct, TypeOK
<1> QED
  BY <1>1, <1>4 DEF Exposed

(* Spoiling the file being written. *)
LEMMA SpoilStep ==
  ASSUME IInv, pc = "write", backup' = backup,
         NEW c \in Unvalidated, runtime' = [runtime EXCEPT ![output] = c]
  PROVE  PromiseStep
<1>1. CASE Exposed
  <2>1. \A f \in File : runtime'[f] \in Validated => runtime[f] \in Validated
    BY DEF IInv, TypeOK, Validated, Unvalidated
  <2>2. Stock' \subseteq Stock
    BY <2>1 DEF Stock, Holds, File, OwnLabel
  <2> QED
    BY <1>1, <2>2, LessStock
<1>2. CASE ~Exposed
  <2>1. runtime[output] \notin Validated
    BY <1>2, WritesFresh
  <2>2. \A f \in File : runtime'[f] \in Validated <=> runtime[f] \in Validated
    BY <2>1 DEF IInv, TypeOK, Validated, Unvalidated
  <2> QED
    BY <2>2, StockSame, SameStock
<1> QED
  BY <1>1, <1>2

LEMMA PromiseNext == IInv /\ [Next]_vars => PromiseStep
<1> SUFFICES ASSUME IInv, [Next]_vars PROVE PromiseStep
  OBVIOUS
<1> USE DEF disk, command, loop, fetched
<1>1. CASE StartInit
  <2>1. runtime' = runtime /\ backup' = backup
    BY <1>1 DEF StartInit, Start, NoLocals
  <2> QED
    BY <2>1, StockSame, SameStock
<1>2. CASE StartRefresh
  <2>1. runtime' = runtime /\ backup' = backup
    BY <1>2 DEF StartRefresh, Start, NoLocals
  <2> QED
    BY <2>1, StockSame, SameStock
<1>3. ASSUME NEW f \in File, Purge(f)
      PROVE  PromiseStep
  <2>1. \A g \in File : backup'[g] \in Validated => backup[g] \in Validated
    BY <1>3 DEF Purge, IInv, TypeOK, Validated
  <2>2. Stock' \subseteq Stock
    BY <1>3, <2>1 DEF Purge, Stock, Holds, File, OwnLabel
  <2> QED
    BY <1>3, <2>2, LessStock DEF Purge, Exposed
<1>4. ASSUME NEW f \in File, Stash(f)
      PROVE  PromiseStep
  <2>1. backup[f] = "absent"
    BY <1>4 DEF Stash, IInv, Modes, Stashing
  <2>2. \A g \in File : runtime[g] \in Validated \/ backup[g] \in Validated
          => runtime'[g] \in Validated \/ backup'[g] \in Validated
    BY <1>4, <2>1 DEF Stash, IInv, TypeOK, Validated
  <2>3. Stock \subseteq Stock'
    BY <2>2 DEF Stock, Holds, File, OwnLabel
  <2> QED
    BY <1>4, <2>3, MoreStock DEF Stash, Exposed
<1>5. ASSUME NEW f \in File, Restore(f)
      PROVE  PromiseStep
  <2>1. ASSUME OwnLabel(f[1]) PROVE runtime[f] \notin Validated
    BY <1>5, <2>1 DEF Restore, Restorable, OwnLabel, IInv, Modes, NoStray
  <2>2. \A g \in File : OwnLabel(g[1]) /\ (runtime[g] \in Validated \/ backup[g] \in Validated)
          => runtime'[g] \in Validated \/ backup'[g] \in Validated
    BY <1>5, <2>1 DEF Restore, IInv, TypeOK
  <2>3. Stock \subseteq Stock'
    BY <2>2 DEF Stock, Holds, File, OwnLabel
  <2> QED
    BY <1>5, <2>3, MoreStock DEF Restore, Exposed
<1>6. ASSUME NEW f \in File, Cleanup(f)
      PROVE  PromiseStep
  <2>1. CASE Exposed
    <3>1. \A g \in File : backup'[g] \in Validated => backup[g] \in Validated
      BY <1>6 DEF Cleanup, IInv, TypeOK, Validated
    <3>2. Stock' \subseteq Stock
      BY <1>6, <3>1 DEF Cleanup, Stock, Holds, File, OwnLabel
    <3> QED
      BY <2>1, <3>2, LessStock
  <2>2. CASE ~Exposed
    <3>1. ASSUME OwnLabel(f[1]) PROVE Holds(runtime, f[1])
      <4>1. f[1] \in processed
        BY <1>6, <3>1 DEF Cleanup, OwnLabel, IInv, Leftover
      <4> QED
        BY <1>6, <2>2, <3>1, <4>1
           DEF Cleanup, Exposed, Distinct, ListedOnce, IInv, TypeOK, Modes, ProcessedHolds, Late
    <3>2. ASSUME NEW n \in Namespaces, OwnLabel(n), Holds(runtime, n) \/ Holds(backup, n)
          PROVE  Holds(runtime', n) \/ Holds(backup', n)
      <4>1. CASE n = f[1]
        BY <1>6, <3>1, <3>2, <4>1 DEF Cleanup
      <4>2. CASE n # f[1]
        <5>1. \A v \in Versions : backup'[<<n, v>>] = backup[<<n, v>>]
          BY <1>6, <4>2 DEF Cleanup, IInv, TypeOK, File
        <5> QED
          BY <1>6, <3>2, <5>1 DEF Cleanup, Holds
      <4> QED
        BY <4>1, <4>2
    <3>3. Stock \subseteq Stock'
      BY <3>2 DEF Stock, OwnLabel, Holds
    <3> QED
      BY <1>6, <3>3, MoreStock DEF Cleanup, Exposed
  <2> QED
    BY <2>1, <2>2
<1>7. CASE PurgeDone
  <2>1. runtime' = runtime /\ backup' = backup
    BY <1>7 DEF PurgeDone
  <2> QED
    BY <2>1, StockSame, SameStock
<1>8. CASE StashDone
  <2>1. runtime' = runtime /\ backup' = backup
    BY <1>8 DEF StashDone, Present
  <2> QED
    BY <2>1, StockSame, SameStock
<1>9. CASE RestoreDone
  <2>1. runtime' = runtime /\ backup' = backup
    BY <1>9 DEF RestoreDone, Restorable
  <2> QED
    BY <2>1, StockSame, SameStock
<1>10. CASE CleanupDone
  <2>1. runtime' = runtime /\ backup' = backup
    BY <1>10 DEF CleanupDone
  <2> QED
    BY <2>1, StockSame, SameStock
<1>11. CASE DiscoverFails
  <2>1. runtime' = runtime /\ backup' = backup
    BY <1>11 DEF DiscoverFails, NoLocals
  <2> QED
    BY <2>1, StockSame, SameStock
<1>12. ASSUME NEW names \in Listings, Discover(names)
      PROVE  PromiseStep
  <2>1. runtime' = runtime /\ backup' = backup
    BY <1>12 DEF Discover
  <2> QED
    BY <2>1, StockSame, SameStock
<1>13. CASE FetchFails
  <2>1. runtime' = runtime /\ backup' = backup
    BY <1>13 DEF FetchFails, Looking, GiveUp, NextNamespace
  <2> QED
    BY <2>1, StockSame, SameStock
<1>14. ASSUME NEW v \in Versions, SkipExisting(v)
      PROVE  PromiseStep
  <2>1. runtime' = runtime /\ backup' = backup
    BY <1>14 DEF SkipExisting, Looking, GiveUp, NextNamespace
  <2> QED
    BY <2>1, StockSame, SameStock
<1>15. ASSUME NEW v \in Versions, NEW p \in Bodies, Download(v, p)
      PROVE  PromiseStep
  <2>1. runtime' = runtime /\ backup' = backup
    BY <1>15 DEF Download, Looking
  <2> QED
    BY <2>1, StockSame, SameStock
<1>16. CASE Open
  <2>1. PICK c \in Prefixes(payload) : runtime' = [runtime EXCEPT ![output] = c]
    BY <1>16 DEF Open
  <2>2. c \in Unvalidated
    BY DEF Prefixes, Unvalidated
  <2> QED
    BY <1>16, <2>1, <2>2, SpoilStep DEF Open
<1>17. CASE Write
  <2>1. CASE payload \in Validated
    <3>1. \A g \in File : runtime[g] \in Validated => runtime'[g] \in Validated
      BY <1>17, <2>1 DEF Write, ContentOf, IInv, TypeOK
    <3>2. Stock \subseteq Stock'
      BY <1>17, <3>1 DEF Write, Stock, Holds, File, OwnLabel
    <3> QED
      BY <1>17, <3>2, MoreStock DEF Write, Exposed
  <2>2. CASE payload \notin Validated
    <3>1. runtime[output] \notin Validated
      BY <1>17 DEF Write, IInv, Written, Validated, Unvalidated
    <3>2. \A f \in File : runtime'[f] \in Validated <=> runtime[f] \in Validated
      BY <1>17, <2>2, <3>1 DEF Write, ContentOf, IInv, TypeOK, Validated
    <3> QED
      BY <1>17, <3>2, StockSame, SameStock DEF Write
  <2> QED
    BY <2>1, <2>2
<1>18. CASE WriteFails
  BY <1>18, StockSame, SameStock DEF WriteFails
<1>19. CASE ValidateKeeps
  <2>1. runtime' = runtime /\ backup' = backup
    BY <1>19 DEF ValidateKeeps, NextNamespace
  <2> QED
    BY <2>1, StockSame, SameStock
<1>20. CASE ValidateRejects
  <2>1. runtime[output] \notin Validated
    BY <1>20 DEF ValidateRejects, IInv, Written, ContentOf, Validated
  <2>2. \A f \in File : runtime'[f] \in Validated <=> runtime[f] \in Validated
    BY <1>20, <2>1 DEF ValidateRejects, IInv, TypeOK, Validated
  <2> QED
    BY <1>20, <2>2, StockSame, SameStock DEF ValidateRejects
<1>21. CASE ValidateRaises
  <2>1. runtime' = runtime /\ backup' = backup
    BY <1>21 DEF ValidateRaises, GiveUp, NextNamespace
  <2> QED
    BY <2>1, StockSame, SameStock
<1>22. CASE LoopDone
  <2>1. runtime' = runtime /\ backup' = backup
    BY <1>22 DEF LoopDone
  <2> QED
    BY <2>1, StockSame, SameStock
<1>23. CASE Crash
  BY <1>23, StockSame, SameStock DEF Crash
<1>24. CASE UNCHANGED vars
  BY <1>24, StockSame, SameStock DEF vars
<1> QED
  BY <1>1, <1>2, <1>3, <1>4, <1>5, <1>6, <1>7, <1>8, <1>9, <1>10, <1>11, <1>12,
     <1>13, <1>14, <1>15, <1>16, <1>17, <1>18, <1>19, <1>20, <1>21, <1>22, <1>23, <1>24
     DEF Next, Proceed

(* The last-known-good promise: a validated artifact of a dashless          *)
(* namespace is lost only by starting a refresh over a leftover backup, or  *)
(* under --force with a namespace listed twice.                             *)
THEOREM Refinement == Spec => ImplementsPromise
<1>1. Init => Promise!Init
  BY DEF Init, Promise!Init, Stock, Exposed, Holds, Empty, File, Validated
<1>2. IInv /\ [Next]_vars => [Promise!Next]_(Promise!vars)
  BY PromiseNext DEF PromiseStep
<1> QED
  BY <1>1, <1>2, Invariance, PTL DEF Spec, ImplementsPromise, Promise!Spec
=============================================================================
