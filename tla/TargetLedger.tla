----------------------------- MODULE TargetLedger -----------------------------
(***************************************************************************)
(* What Manager.Run promises its caller, with the goroutines, channels,    *)
(* caches and network calls left out: every target ends in exactly one     *)
(* column of a ledger, a key is taken on by one target only, and Run       *)
(* returns a nil error only when nothing went wrong.                       *)
(*                                                                         *)
(* Pipeline is shown to implement this specification.                      *)
(***************************************************************************)
EXTENDS Integers, FiniteSets

CONSTANTS
    Targets,    \* the positions of the source list
    KeyOf,      \* target -> its key for the deduplicator
    PoolSize    \* how many targets can be in hand at once

VARIABLES
    ledger,     \* target -> column
    cancelled,  \* the caller's context is done
    verdict     \* "none" until Run returns, then what its error is

ledgerVars == <<ledger, cancelled, verdict>>

\* queued    not taken on, or received but not yet past the deduplicator
\* admitted  owns its key; being scraped, validated, saved or handed over
\* lead      its lead is in Run's result        failed   its error is
\* repeated  another target owns its key
\* skipped   received after the context ended   dropped  saved, but the lead
\*           was given up because the context ended
Columns == {"queued", "admitted", "lead", "failed", "repeated", "skipped", "dropped"}

In(column) == {t \in Targets : ledger[t] = column}

Owners == In("admitted") \cup In("lead") \cup In("failed") \cup In("dropped")

Lost == In("skipped") \cup In("dropped")

KeyTaken(t) == \E u \in Owners : KeyOf[u] = KeyOf[t]

\* a worker that met the end of the context is gone, so it counts for ever
Room == Cardinality(In("admitted") \cup Lost) < PoolSize

Move(t, from, to) ==
    /\ verdict = "none"
    /\ ledger[t] = from
    /\ ledger' = [ledger EXCEPT ![t] = to]
    /\ UNCHANGED <<cancelled, verdict>>

Admit(t)   == ~KeyTaken(t) /\ Room /\ Move(t, "queued", "admitted")
Repeat(t)  == KeyTaken(t) /\ Move(t, "queued", "repeated")
Succeed(t) == Move(t, "admitted", "lead")
Fail(t)    == Move(t, "admitted", "failed")
Skip(t)    == cancelled /\ Room /\ Move(t, "queued", "skipped")
Drop(t)    == cancelled /\ Move(t, "admitted", "dropped")

Cancel ==
    /\ ~cancelled
    /\ cancelled' = TRUE
    /\ UNCHANGED <<ledger, verdict>>

Return ==
    /\ verdict = "none"
    /\ In("admitted") = {}
    /\ cancelled \/ In("queued") = {}
    /\ verdict' = IF cancelled THEN "cancelled"
                  ELSE IF In("failed") # {} THEN "failed" ELSE "nil"
    /\ UNCHANGED <<ledger, cancelled>>

LedgerInit ==
    /\ ledger = [t \in Targets |-> "queued"]
    /\ cancelled = FALSE
    /\ verdict = "none"

LedgerNext ==
    \/ \E t \in Targets :
        Admit(t) \/ Repeat(t) \/ Succeed(t) \/ Fail(t) \/ Skip(t) \/ Drop(t)
    \/ Return
    \/ Cancel

LedgerSpec == LedgerInit /\ [][LedgerNext]_ledgerVars

=============================================================================
