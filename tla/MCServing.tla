------------------------------ MODULE MCServing ------------------------------
(***************************************************************************)
(* Instances of ServingWorker for TLC.                                     *)
(***************************************************************************)
EXTENDS ServingWorker

CONSTANTS r1, r2, r3, r4, r5

Requests2 == {r1, r2}
Requests3 == {r1, r2, r3}
Requests5 == {r1, r2, r3, r4, r5}

\* Everybody takes two steps; r3 has a longer context, or r1 one that never fits.
Steps2  == [r \in Request |-> 2]
Ones    == [r \in Request |-> 1]
Long3   == [r \in Request |-> IF r = r3 THEN 2 ELSE 1]
Large1  == [r \in Request |-> IF r = r1 THEN 4 ELSE 1]
Never   == [r \in Request |-> NoTimeout]
Late1   == [r \in Request |-> IF r = r1 THEN 1 ELSE NoTimeout]

\* MaxSubmissions: submissions in one run.  Four requests that fit are enough for a group of
\* two that finds two free context slots apart.
MaxSubmissions == 4
SubmitBound ==
    submitted[r1] + submitted[r2] + submitted[r3] + submitted[r4] + submitted[r5] <= MaxSubmissions
\* Only r1 is unlike the others.
Alike == Permutations({r2, r3, r4, r5})
=============================================================================
