------------------------------ MODULE MCPipeline ------------------------------
(* Pipeline on two workers: a source list with a repeated URL, pages that     *)
(* share a handle.                                                            *)
EXTENDS Pipeline, TLC

CONSTANTS w1, w2, h1, h2

MCWorkers == {w1, w2}
MCHandles == {h1, h2}
WorkerSymmetry == Permutations(MCWorkers)

ThreeSources == <<"a", "b", "a">>
FourSources  == <<"a", "b", "a", "c">>

OneHandlePages == {<<>>, <<h1>>}
TwoHandlePages == {<<h1>>, <<h1, h2>>}
=============================================================================
