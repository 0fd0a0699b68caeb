-------------------------- MODULE ArtifactPromise --------------------------
(***************************************************************************)
(* What the artifact directory promises its operator: a namespace for      *)
(* which a validated artifact is on disk stays in stock, whatever fails    *)
(* and whenever the process dies, except while the store is exposed.       *)
(***************************************************************************)
CONSTANT Namespaces

VARIABLES
  stock,    \* the namespaces with a validated artifact somewhere on disk
  exposed   \* whether the promise is suspended

vars == <<stock, exposed>>

Init == stock = {} /\ exposed = FALSE

Gain == stock' \in SUBSET Namespaces /\ stock \subseteq stock' /\ UNCHANGED exposed

Expose == exposed' = TRUE /\ UNCHANGED stock

Secure == exposed' = FALSE /\ UNCHANGED stock

(* The step that ends the exposure, a crash, may itself lose. *)
Lose == exposed /\ stock' \subseteq stock /\ exposed' \in BOOLEAN

Next == Gain \/ Expose \/ Secure \/ Lose

Spec == Init /\ [][Next]_vars
=============================================================================
