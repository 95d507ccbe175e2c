-------------------------- MODULE MCTelegramClient --------------------------
(* TelegramLookups, client and cache together, on two workers and two         *)
(* handles: two calls at once, or one that both workers wait for.             *)
EXTENDS TelegramLookups

CONSTANTS w1, w2

MCWorkers  == {w1, w2}
MCStatuses == {"VALID", "INVALID", "NOT_FOUND", "SKIPPED", "DELETED"}
=============================================================================
