--------------------------- MODULE MCTelegramCache ---------------------------
(* TelegramCache on three workers and two handles. *)
EXTENDS TelegramCache, TLC

CONSTANTS w1, w2, w3, h1, h2

MCWorkers == {w1, w2, w3}
MCHandles == {h1, h2}
Symmetric == Permutations(MCWorkers) \cup Permutations(MCHandles)
=============================================================================
