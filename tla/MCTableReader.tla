----------------------------- MODULE MCTableReader -----------------------------
(***************************************************************************)
(* Instances of TableReader.  In the scenes of one reader the file holds   *)
(* any of six entries that share prefixes, end in the largest byte or      *)
(* differ in their number only, with and without filters and faults; in    *)
(* the race two readers share, without filters, a file of two blocks and   *)
(* one of one block, and the caches hold one table and about one block.    *)
(***************************************************************************)
EXTENDS TableReader

K(key, seq) == [key |-> key, seq |-> seq]

MCEntries == {K(<<0, 1, 1>>, 2), K(<<0, 1, 1>>, 1), K(<<0, 3>>, 3),
              K(<<2, 1>>, 1), K(<<2, 1, 0>>, 2), K(<<3, 3>>, 1)}

MCTargets == {K(<<0, 1, 1>>, 1), K(<<1>>, 3), K(<<2, 1>>, 3), K(<<3, 3>>, 0)}

Lone == [files : {<<es>> : es \in SUBSET MCEntries \ {{}}}, readers : {{"a"}},
         calls : {4}, faults : BOOLEAN, filter_policy : BOOLEAN]

Race == [files : {<<{K(<<0, 1, 1>>, 2), K(<<0, 1, 1>>, 1), K(<<2, 1>>, 1), K(<<3, 3>>, 1)},
                    {K(<<0, 3>>, 3), K(<<3, 3>>, 1)}>>},
         readers : {{"a", "b"}, {"a", "c"}}, calls : {4}, faults : {TRUE},
         filter_policy : {FALSE}]

MCScenes == Lone \cup Race
=============================================================================
