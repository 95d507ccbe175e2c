---------------------------- MODULE MCMXValidator ----------------------------
(* MXValidator on two workers and two domains: leads without an address, with *)
(* one, and with two that are tried in order.                                 *)
EXTENDS MXValidator, TLC

CONSTANTS w1, w2, d1, d2

MCWorkers    == {w1, w2}
MCDomains    == {d1, d2}
MCEmailLists == {<<>>, <<d1>>, <<d2, d1>>}
Symmetric    == Permutations(MCWorkers)
=============================================================================
