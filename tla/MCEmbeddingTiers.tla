-------------------------- MODULE MCEmbeddingTiers --------------------------
(* Instances of EmbeddingTiers for TLC: every key hashes to the first bucket. *)
EXTENDS EmbeddingTiers

MCHome == [k \in Key |-> 1]
MCBatch == {{1, 2}, {3, 4}, {5}, {1, 6}}
MCShared == {{1}, {2}}
=============================================================================
