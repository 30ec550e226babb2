----------------------------- MODULE MCPipeline -----------------------------
(* A search, a preset on it with a pipeline of two processors, and a        *)
(* processor on the result of the preset. Where the back-end is started      *)
(* twice there are keys for a second pipeline and a second last dataset.     *)
EXTENDS Pipeline

CONSTANTS search, preset, first, last, post, first2, last2, queue

MCQueueOf == [d \in Job |-> queue]

MCParent ==
    [d \in Job |-> CASE d = search -> NoDataset
                     [] d \in {preset} -> search
                     [] d \in {first, first2, post} -> preset
                     [] d \in {last, last2} -> first]

MCFollow ==
    [d \in Job |-> CASE d = preset -> {first, first2} \cap Job
                     [] d = first -> {last, last2} \cap Job
                     [] OTHER -> {}]

MCPresetOf ==
    [d \in Job |-> IF d \in {search, preset, post} THEN NoDataset ELSE preset]

\* The preset and the last processor of its pipeline make images.
MCSuffix == [d \in Job |-> IF d \in {preset, last, last2} THEN "svg" ELSE "csv"]
=============================================================================
