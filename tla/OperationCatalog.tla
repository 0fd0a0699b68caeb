-------------------------- MODULE OperationCatalog --------------------------
(***************************************************************************)
(* load_operations_from_yamls: the files of the artifact directory are     *)
(* parsed in order, resolve_collisions names the operations of each, and   *)
(* all of them go into one list, which the tools search by name.           *)
(*                                                                         *)
(* A text is the sequence of its letters.  Of an operation the model keeps *)
(* what naming and searching it depend on: operationId, first tag, summary *)
(* and the meaningful segments of the path, one letter each; of component  *)
(* schemas, which file they are from.                                      *)
(***************************************************************************)
EXTENDS Naturals, Sequences, FiniteSets, Functions

CONSTANTS
  Letters,     \* the alphabet, in the order sorted() puts it
  Lower,       \* the lower-case form of every letter
  Namespaces,  \* what infer_namespace makes of file names
  SchemaNames, \* the names of component schemas
  Directories  \* the directories considered: sequences of documents

Letter == {Letters[n] : n \in DOMAIN Letters}

ASSUME LettersAssumption == Letters \in Seq(STRING) /\ Lower \in [Letter -> Letter]

Text == Seq(Letter \cup {"_"})

(* What a document declares of an operation; no tag is the empty text. *)
Declaration ==
  [id : Text, tag : Seq(Letter), path : SUBSET Letter, summary : Seq(Letter)]

ASSUME DirectoriesAssumption ==
  Directories \subseteq
    Seq([namespace : Namespaces, declares : Seq(Declaration), schemas : SUBSET SchemaNames])

VARIABLES
  directory,   \* the documents, in the order of their file names; never changes
  file,        \* the next one to parse
  operations,  \* what was made of those parsed
  schemas      \* combined_schemas: the file each schema was taken from, 0 for none

vars == <<directory, file, operations, schemas>>

Init ==
  /\ directory \in Directories /\ file = 1
  /\ operations = <<>> /\ schemas = [n \in SchemaNames |-> 0]

-----------------------------------------------------------------------------
(* _derive_discriminators.  ds is what a document declares, group the set   *)
(* of positions in it with the same operationId; the empty text is None.    *)

Group(ds, k) == {j \in 1..Len(ds) : ds[j].id = ds[k].id}

Tagged(ds, group) == {j \in group : ds[j].tag # <<>>}

FromEnd(text, n) == text[Len(text) - n]

(* The n last letters of every tag are the same, upper or lower case. *)
SharesSuffix(ds, group, n) ==
  \A j, k \in Tagged(ds, group) :
    /\ n <= Len(ds[j].tag)
    /\ \A m \in 0..(n - 1) :
         Lower[FromEnd(ds[j].tag, m)] = Lower[FromEnd(ds[k].tag, m)]

SuffixLength(ds, group, k) ==
  CHOOSE n \in 0..Len(ds[k].tag) :
    /\ SharesSuffix(ds, group, n)
    /\ \A m \in 0..Len(ds[k].tag) : SharesSuffix(ds, group, m) => m <= n

(* _to_snake: every capital becomes an underscore and the small letter. *)
Snake(text) ==
  LET snake[n \in 0..Len(text)] ==
        IF n = 0 THEN <<>>
        ELSE IF Lower[text[n]] = text[n] THEN Append(snake[n - 1], text[n])
             ELSE snake[n - 1] \o <<"_", Lower[text[n]]>>
      whole == snake[Len(text)]
  IN  IF whole # <<>> /\ Head(whole) = "_" THEN Tail(whole) ELSE whole

TagLabel(ds, group, k) ==
  IF ds[k].tag = <<>> THEN <<>>
  ELSE Snake(SubSeq(ds[k].tag, 1, Len(ds[k].tag) - SuffixLength(ds, group, k)))

(* The first segment of the path that the paths do not all have. *)
FirstOf(segments) ==
  IF segments = {} THEN <<>>
  ELSE <<Letters[CHOOSE n \in DOMAIN Letters :
           /\ Letters[n] \in segments
           /\ \A m \in DOMAIN Letters : Letters[m] \in segments => n <= m]>>

(* Mutation: only the segments of the variants before it are set aside. *)
PathLabelAgainstEarlier(ds, group, k) ==
  FirstOf({s \in ds[k].path : \A j \in group : j < k => s \notin ds[j].path})

PathLabel(ds, group, k) ==
  FirstOf({s \in ds[k].path : \E j \in group : s \notin ds[j].path})

AllDifferent(labels, group) == \A j, k \in group : labels[j] = labels[k] => j = k

(* variant_<n>, the number in strokes. *)
Positional(group, k) ==
  <<"variant">> \o [m \in 1..Cardinality({j \in group : j < k}) |-> "1"]

(* The tag, or else the path; the path alone when those are not different;  *)
(* the position for what is still without a label.                          *)
Preferred(ds, group) ==
  LET paths == [k \in group |-> PathLabel(ds, group, k)]
      merged == [k \in group |-> LET tag == TagLabel(ds, group, k)
                                 IN  IF tag # <<>> THEN tag ELSE paths[k]]
      chosen == IF AllDifferent(merged, group) THEN merged ELSE paths
  IN  [k \in group |-> IF chosen[k] # <<>> THEN chosen[k] ELSE Positional(group, k)]

(* Mutation: without the last fallback. *)
PreferredOnly(ds, group) == Preferred(ds, group)

(* The position for all when they are still not different. *)
Discriminators(ds, group) ==
  IF AllDifferent(Preferred(ds, group), group) THEN Preferred(ds, group)
  ELSE [k \in group |-> Positional(group, k)]

(* registered_name *)
RegisteredName(ds, k) ==
  IF Group(ds, k) = {k} THEN ds[k].id
  ELSE Discriminators(ds, Group(ds, k))[k] \o <<"_">> \o ds[k].id

-----------------------------------------------------------------------------
(* Loading. *)

(* Mutation: the file is counted before its operations are taken. *)
NamedAfterCounting(f) ==
  [k \in 1..Len(directory[f].declares) |->
    [namespace |-> directory[f].namespace, file |-> f + 1, at |-> k,
     id |-> directory[f].declares[k].id,
     name |-> RegisteredName(directory[f].declares, k)]]

(* The operations of the next document, each in its namespace. *)
Named(f) ==
  [k \in 1..Len(directory[f].declares) |->
    [namespace |-> directory[f].namespace, file |-> f, at |-> k,
     id |-> directory[f].declares[k].id,
     name |-> RegisteredName(directory[f].declares, k)]]

(* dict.update: the last file that defines a schema replaces it, last in the *)
(* order of the file names, which is not that of the versions (v4.10, v4.9). *)
Updated(f) ==
  [n \in SchemaNames |-> IF n \in directory[f].schemas THEN f ELSE schemas[n]]

LoadFile ==
  /\ file <= Len(directory)
  /\ operations' = operations \o Named(file)
  /\ schemas' = Updated(file)
  /\ file' = file + 1
  /\ UNCHANGED directory

(* The server goes on with what is loaded. *)
Serve == file > Len(directory) /\ UNCHANGED vars

Next == LoadFile \/ Serve

Spec == Init /\ [][Next]_vars

TypeOK ==
  /\ directory \in Directories /\ file \in 1..(Len(directory) + 1)
  /\ \A k \in 1..Len(operations) :
       /\ operations[k].namespace \in Namespaces
       /\ operations[k].file \in 1..(file - 1)
       /\ operations[k].at \in 1..Len(directory[operations[k].file].declares)
       /\ operations[k].id \in Text
  /\ schemas \in [SchemaNames -> 0..(file - 1)]

-----------------------------------------------------------------------------
(* Searching. *)

FirstIn(found) == CHOOSE j \in found : \A k \in found : j <= k

(* Mutation: the tool's namespace is not looked at. *)
ExecutesByName(namespace, name) ==
  FirstIn({j \in 1..Len(operations) : operations[j].name = name})

(* _find_operation of the dispatcher, for <namespace>_execute. *)
Executes(namespace, name) ==
  FirstIn({j \in 1..Len(operations) :
             operations[j].namespace = namespace /\ operations[j].name = name})

(* _find_operation of the generator, for getOperationSchema, getCodeSample  *)
(* and getOperationPermissions, which take no namespace.                    *)
Describes(name) == FirstIn({j \in 1..Len(operations) : operations[j].name = name})

-----------------------------------------------------------------------------
(* Properties. *)

(* The operations of one file that share an operationId are told apart,     *)
(* whatever their tags and paths (resolve_collisions).                      *)
VariantsAreDistinguished ==
  \A j, k \in 1..Len(operations) :
    /\ operations[j].file = operations[k].file /\ operations[j].id = operations[k].id
    /\ operations[j].name = operations[k].name
    => j = k

OneFileEach ==
  \A f, g \in 1..Len(directory) : directory[f].namespace = directory[g].namespace => f = g
PlainIds ==
  \A f \in 1..Len(directory) : \A k \in 1..Len(directory[f].declares) :
    \A n \in 1..Len(directory[f].declares[k].id) : directory[f].declares[k].id[n] # "_"

(* Every operation listed can be executed, under the namespace and the name *)
(* it is listed with, if the directory holds one file of each namespace and *)
(* no operationId has an underscore that could look like a discriminator's. *)
ListedOperationsAreReached ==
  OneFileEach /\ PlainIds =>
    \A k \in 1..Len(operations) :
      Executes(operations[k].namespace, operations[k].name) = k

Orders(n) == Bijection(1..n, 1..n)
Reordered(ds, order) == [k \in 1..Len(ds) |-> ds[order[k]]]
IsPositional(ds, k) ==
  \E j \in Group(ds, k) :
    RegisteredName(ds, k) = Positional(Group(ds, k), j) \o <<"_">> \o ds[k].id

(* A specification, each when it is about to be parsed, that listed its     *)
(* operations in any other order would give them the same names, but those *)
(* that have nothing but their position ("unique, stable discriminator      *)
(* label").                                                                 *)
NamesAreStable ==
  file <= Len(directory) =>
    LET ds == directory[file].declares
    IN  \A order \in Orders(Len(ds)), k \in 1..Len(ds) :
          ~IsPositional(ds, order[k]) =>
            RegisteredName(Reordered(ds, order), k) = RegisteredName(ds, order[k])

(* mcp_stdio_server.py, _build_instructions: getOperationSchema is called   *)
(* with the operation of a listOperations result "to confirm parameters".   *)
DescribesTheListedOperation ==
  \A k \in 1..Len(operations) :
    operations[Describes(operations[k].name)].namespace = operations[k].namespace
=============================================================================
