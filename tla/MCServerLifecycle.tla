------------------------- MODULE MCServerLifecycle -------------------------
(* Instances of ServerLifecycle for TLC. *)
EXTENDS ServerLifecycle

CONSTANTS vmm, prism

MCListings == {<<vmm>>, <<prism, vmm>>}
MCLabel == [n \in Namespaces |-> n]
=============================================================================
