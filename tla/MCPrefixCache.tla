---------------------------- MODULE MCPrefixCache ----------------------------
(***************************************************************************)
(* Instances of PrefixCache for TLC.                                       *)
(***************************************************************************)
EXTENDS PrefixCache, TLC

Prompts == {<<0>>, <<0, 0>>, <<0, 1>>, <<0, 0, 1>>, <<0, 0, 0, 0>>, <<0, 0, 1, 1>>}
Configs == {[entries |-> 3, tokens |-> 9, page |-> 1], [entries |-> 2, tokens |-> 7, page |-> 1],
            [entries |-> 3, tokens |-> 7, page |-> 2]}
Symmetry == Permutations(Namespace)

\* MaxRecent: the keys used since the last clear or configure.  A cache holds at most
\* three, so a run has keys that were dropped and may come back.
MaxRecent == 4
RecentBound == Len(recent) <= MaxRecent
=============================================================================
