-------------------------- MODULE MCSchemaResolver --------------------------
(* Instances of SchemaResolver for TLC: every dictionary of the given size. *)
EXTENDS SchemaResolver

CONSTANTS a, b, c

(* Every way to give each schema at most two $refs. *)
MCGraphs == [Schemas -> UNION {[1..k -> Ref] : k \in 0..2}]
=============================================================================
