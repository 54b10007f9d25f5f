------------------------------ MODULE SeqSelect ------------------------------
(***************************************************************************)
(* Filtering a sequence by a set.  SelectSeq filters by an operator, which *)
(* the provers cannot reason about; a set says the same and can be proved  *)
(* about.                                                                  *)
(***************************************************************************)
EXTENDS Integers, Sequences

\* The elements of q that are in S, in the order of q.
Only(q, S) ==
    LET kept[n \in 0 .. Len(q)] ==
            IF n = 0 THEN <<>>
            ELSE IF q[n] \in S THEN Append(kept[n - 1], q[n]) ELSE kept[n - 1]
    IN  kept[Len(q)]

\* The elements of q that are not in S.
Without(q, S) == Only(q, {q[i] : i \in DOMAIN q} \ S)
=============================================================================
