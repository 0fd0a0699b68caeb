-------------------------- MODULE MCArtifactStore --------------------------
(* Instances of ArtifactStore for TLC. *)
EXTENDS ArtifactStore, TLC

CONSTANTS vmm, prism

(* What discovery returns (sorted, without duplicates), and an override     *)
(* list that names a namespace twice, with another between.                 *)
MCListings == {<<>>, <<vmm>>, <<prism, vmm>>, <<vmm, prism, vmm>>}
VersionSymmetry == Permutations(Versions)
MCLabel == [n \in Namespaces |-> n]
=============================================================================
