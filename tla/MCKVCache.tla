----------------------------- MODULE MCKVCache -----------------------------
(***************************************************************************)
(* Instances of KVCacheManager for TLC.                                    *)
(***************************************************************************)
EXTENDS KVCacheManager, TLC

CONSTANTS MaxDrift, MaxOffloaded, u1, u2, u3, p1, p2, p3, p4, p5, c1, c2, c3, c4

Users2 == {u1, u2}
Users3 == {u1, u2, u3}
Users1 == {u1}
Pages2 == {p1, p2}
Pages3 == {p1, p2, p3}
Pages4 == {p1, p2, p3, p4}
Pages5 == {p1, p2, p3, p4, p5}
Chunks1 == {c1}
Chunks2 == {c1, c2}
Chunks3 == {c1, c2, c3}
Chunks4 == {c1, c2, c3, c4}

\* Bound: total_offloaded_pages counts the pages of at most one pool, but drifts
\* without limit below it when users are evicted and onboarded again; states
\* beyond the bounds are checked and not explored further.
DriftBound == totalOffloaded \in -MaxDrift..MaxOffloaded

\* Two users with full histories and a third that is still short are enough to
\* overfill the pages of overlap_pressure.
MaxTokens == 7
TokenBound == FoldSet(LAMBDA u, n : history[u] + n, 0, User) <= MaxTokens

Symmetric == Permutations(User) \cup Permutations(Page) \cup Permutations(Chunk)
=============================================================================
