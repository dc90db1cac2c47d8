------------------------ MODULE MCDatasetMiddleware ------------------------
(* Triples, batches and turns for model-checking DatasetMiddleware.        *)
EXTENDS DatasetMiddleware

CONSTANTS p, q, bad

\* A batch of two, and one that shares a triple with it and fails at the second.
MCBatches == {<<p, q>>, <<q, bad>>}
=============================================================================
