----------------------- MODULE ServerLifecycle_proofs -----------------------
(***************************************************************************)
(* Proofs about ServerLifecycle: the server and the commands together are  *)
(* still ArtifactStore to the directory, and what a start can rely on,     *)
(* whatever is written at the same time.                                   *)
(***************************************************************************)
EXTENDS ServerLifecycle, ArtifactStore_proofs

-----------------------------------------------------------------------------
(* The inductive invariant, for what the server remembers of the directory. *)

(* Of the files no command changed, those that are there are what is parsed  *)
(* and what is left to parse, and what is parsed could be.                   *)
Loading ==
  /\ server = "serving" => files = {}
  /\ server \in {"load", "serving"} =>
       \A f \in File \ changed :
         /\ f \in files \cup loaded <=> runtime[f] # "absent"
         /\ f \in loaded => runtime[f] \in Loadable
  /\ server \in {"bundled", "noArtifacts"} => Present(runtime) \subseteq changed

(* The entrypoint hands over a directory with an artifact in it, and nothing *)
(* restarts a container.                                                     *)
HandedOver ==
  launcher = "entrypoint" =>
    /\ server # "failed"
    /\ changed = {} =>
         /\ server \notin {"noArtifacts", "bundled"}
         /\ server = "select" => Present(runtime) # {}

ServerType ==
  /\ launcher \in {"entrypoint", "unit"} /\ bundle \in BOOLEAN
  /\ server \in {"serving", "bundled", "noArtifacts"} \cup Starting \cup Stopped
  /\ files \in SUBSET File /\ loaded \in SUBSET File /\ changed \in SUBSET File

ServiceIInv == ServerType /\ Loading /\ HandedOver

-----------------------------------------------------------------------------
(* The directory and the commands. *)

LEMMA StoreStep == [ServiceNext]_serviceVars => [Next]_vars
<1> SUFFICES ASSUME [ServiceNext]_serviceVars PROVE [Next]_vars
  OBVIOUS
<1>1. CASE CommandStep
  BY <1>1 DEF CommandStep, Next
<1>2. CASE OperatorStep
  BY <1>2 DEF OperatorStep, Next
<1>3. CASE LaunchInit
  BY <1>3 DEF LaunchInit, Next
<1>4. CASE Launch \/ Restart \/ InitExits \/ Select \/ List \/ Serve \/ Raise \/ Stop
  BY <1>4 DEF Launch, Restart, Begin, InitExits, Select, List, Serve, Raise, Failure, Stop
<1>5. ASSUME NEW f \in File, Load(f) \/ LoadFails(f)
      PROVE  UNCHANGED vars
  BY <1>5 DEF Load, LoadFails, Failure
<1>6. CASE UNCHANGED serviceVars
  BY <1>6 DEF serviceVars
<1> QED
  BY <1>1, <1>2, <1>3, <1>4, <1>5, <1>6 DEF ServiceNext, ServerStep

(* To the directory, a deployment is commands one after the other: the       *)
(* server writes nothing, and the entrypoint's init is an init.  So every    *)
(* theorem of ArtifactStore is one of the deployment.                        *)
THEOREM ServiceImplementsStore == ServiceSpec => Spec
<1>1. ServiceInit => Init
  BY DEF ServiceInit
<1>2. [ServiceNext]_serviceVars => [Next]_vars
  BY StoreStep
<1> QED
  BY <1>1, <1>2, PTL DEF ServiceSpec, Spec

(* A command runs on beside a server: what it changes is remembered. *)
LEMMA CommandBeside ==
  ASSUME ServiceIInv, CommandStep
  PROVE  ServiceIInv'
<1>1. UNCHANGED <<launcher, bundle, server, files, loaded>>
  BY DEF CommandStep, deployment
<1>2. /\ changed' \in SUBSET File
      /\ changed \subseteq changed'
      /\ server \notin Stopped =>
           \A f \in File \ changed' : runtime'[f] = runtime[f]
  BY DEF CommandStep, ServiceIInv, ServerType
<1>3. ServerType'
  BY <1>1, <1>2 DEF ServiceIInv, ServerType
<1>4. Loading'
  BY <1>1, <1>2 DEF ServiceIInv, Loading, Present, Stopped
<1>5. HandedOver'
  BY <1>1, <1>2 DEF ServiceIInv, HandedOver, Present, Stopped
<1> QED
  BY <1>3, <1>4, <1>5 DEF ServiceIInv

LEMMA ServiceIInvNext == ServiceIInv /\ [ServiceNext]_serviceVars => ServiceIInv'
<1> SUFFICES ASSUME ServiceIInv, [ServiceNext]_serviceVars PROVE ServiceIInv'
  OBVIOUS
<1> USE DEF ServiceIInv, ServerType, Loading, HandedOver, Present, Starting, Stopped,
            vars, disk, deployment, service
<1>1. CASE CommandStep
  BY <1>1, CommandBeside
<1>2. CASE OperatorStep
  BY <1>2 DEF OperatorStep, StartInit, StartRefresh, Start
<1>3. CASE Launch
  BY <1>3 DEF Launch, Begin
<1>4. CASE LaunchInit
  BY <1>4 DEF LaunchInit, StartInit, Start
<1>5. CASE InitExits
  BY <1>5 DEF InitExits
<1>6. CASE Select
  BY <1>6 DEF Select
<1>7. CASE List
  BY <1>7 DEF List
<1>8. ASSUME NEW f \in File, Load(f)
      PROVE  ServiceIInv'
  BY <1>8 DEF Load
<1>9. ASSUME NEW f \in File, LoadFails(f)
      PROVE  ServiceIInv'
  BY <1>9 DEF LoadFails, Failure
<1>10. CASE Raise
  BY <1>10 DEF Raise, Failure
<1>11. CASE Serve
  BY <1>11 DEF Serve
<1>12. CASE Restart
  <2>1. launcher = "unit"
    BY <1>12 DEF Restart
  <2> QED
    BY <1>12, <2>1 DEF Restart, Begin
<1>13. CASE Stop
  BY <1>13 DEF Stop
<1>14. CASE UNCHANGED serviceVars
  BY <1>14 DEF serviceVars
<1> QED
  BY <1>1, <1>2, <1>3, <1>4, <1>5, <1>6, <1>7, <1>8, <1>9, <1>10, <1>11, <1>12, <1>13,
     <1>14 DEF ServiceNext, ServerStep

LEMMA ServiceInvariance == ServiceSpec => []ServiceIInv
<1>1. ServiceInit => ServiceIInv
  BY DEF ServiceInit, ServiceIInv, ServerType, Loading, HandedOver, Stopped
<1>2. ServiceIInv /\ [ServiceNext]_serviceVars => ServiceIInv'
  BY ServiceIInvNext
<1> QED
  BY <1>1, <1>2, PTL DEF ServiceSpec

-----------------------------------------------------------------------------
(* The theorems. *)

(* The variables of the server and of the commands beside it keep their types. *)
THEOREM ServiceTypeCorrect == ServiceSpec => []ServiceTypeOK
<1>1. TypeOK /\ ServiceIInv => ServiceTypeOK
  BY DEF ServiceIInv, ServerType, ServiceTypeOK
<1> QED
  BY <1>1, ServiceImplementsStore, TypeCorrect, ServiceInvariance, PTL

(* Whatever commands write while a server starts, the files they leave alone *)
(* are served, all of them, or the start fails (load_operations_from_yamls); *)
(* nothing is assumed of what the files hold, or of when a write is cut off. *)
THEOREM StartServesUntouched == ServiceSpec => []UntouchedFilesAreServed
<1>1. ServiceIInv => UntouchedFilesAreServed
  BY DEF ServiceIInv, Loading, UntouchedFilesAreServed
<1> QED
  BY <1>1, ServiceInvariance, PTL

(* Behind docker-entrypoint.sh a server lacks artifacts only if a command    *)
(* changed the directory while it started.                                   *)
THEOREM EntrypointStart == ServiceSpec => []EntrypointFindsArtifacts
<1>1. HandedOver => EntrypointFindsArtifacts
  BY DEF HandedOver, EntrypointFindsArtifacts
<1>2. ServiceIInv => HandedOver
  BY DEF ServiceIInv
<1> QED
  BY <1>1, <1>2, ServiceInvariance, PTL

(* A refresh beside a server keeps every namespace, as one by itself does.   *)
THEOREM RefreshSafeBesideServer == ServiceSpec => []RefreshKeepsEveryNamespace
<1> QED
  BY ServiceImplementsStore, RefreshSafe, PTL
=============================================================================
