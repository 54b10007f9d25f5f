--------------------------- MODULE MCTrainPipeline ---------------------------
(* Jobs of up to four batches for TLC.                                     *)
EXTENDS TrainPipeline

Slice(m, n) == [mode |-> m, size |-> n]
MCPlans == {<<Slice("train", 3)>>,
            <<Slice("train", 2), Slice("eval", 1), Slice("train", 1)>>}
=============================================================================
