------------------------- MODULE MCOperationCatalog -------------------------
(* Instances of OperationCatalog and Discovery for TLC. *)
EXTENDS Discovery

MCLetters == <<"A", "B", "a", "b", "l">>
MCCharacters == <<"1", "A", "B", "_", "a", "b", "l", "variant">>
MCLower == [A |-> "a", B |-> "b", a |-> "a", b |-> "b", l |-> "l"]

list == <<"l">>

(* What one specification may declare: up to three operations with the same *)
(* id, told apart by tags that share a suffix, differ in case only or are   *)
(* missing, and by paths.                                                   *)
Tags == {<<>>, <<"A", "B">>, <<"a", "B">>, <<"B", "B">>, <<"B">>}
Variants == {[id |-> list, tag |-> t, path |-> p, summary |-> <<>>] : t \in Tags, p \in SUBSET {"a", "b"}}
UpTo(n, S) == UNION {[1..m -> S] : m \in 1..n}
OneFile == {<<[namespace |-> "vmm", declares |-> ds, schemas |-> {}]>> : ds \in UpTo(2, Variants)}

ThreePaths == {[id |-> list, tag |-> t, path |-> p, summary |-> <<>>] :
  t \in {<<>>, <<"A", "B">>},
  p \in {{}, {"a"}, {"a", "b"}, {"b", "l"}}}
OneLongFile == {<<[namespace |-> "vmm", declares |-> ds, schemas |-> {}]>> : ds \in [1..3 -> ThreePaths]}

(* Two files, of one namespace at two versions or of two namespaces, with   *)
(* ids that may look like a discriminated one.                              *)
Plain == {[id |-> list, tag |-> <<>>, path |-> {"b"}, summary |-> <<>>]}
         \cup {[id |-> i, tag |-> <<>>, path |-> {"a"}, summary |-> <<>>] :
                 i \in {list, <<"a", "_", "l">>, <<"b">>}}
Documents == [namespace : {"prism", "vmm"}, declares : UpTo(2, Plain), schemas : {{}}]
TwoFiles == Documents \X Documents

(* What is searched: an operation named by both words, one that has them in *)
(* every other place and ties with it, and one found by its tag.  The two   *)
(* files may define one schema both.                                        *)
Searchable ==
  {[id |-> <<"b", "l">>, tag |-> <<>>, path |-> {}, summary |-> <<>>],
   [id |-> <<"b">>, tag |-> <<>>, path |-> {"b", "l"}, summary |-> <<"b", "l">>],
   [id |-> <<"a">>, tag |-> <<"B">>, path |-> {"l"}, summary |-> <<>>]}
Catalogued(n) ==
  [namespace : {"prism", "vmm"}, declares : UpTo(n, Searchable), schemas : SUBSET {"Vm"}]
MCQueries == {<<>>, <<<<"b">>>>, <<<<"b">>, <<"l">>>>}
MCSpaces == <<"prism", "vmm">>

MCDirectories == OneFile \cup OneLongFile \cup TwoFiles \cup (Catalogued(2) \X Catalogued(1))
MCTwoFiles == TwoFiles
=============================================================================
