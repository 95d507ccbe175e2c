----------------------------- MODULE Application -----------------------------
(***************************************************************************)
(* cmd/app over several launches of the program: each one collects its     *)
(* source URLs, runs the pipeline over them, and writes the output file.   *)
(* The store and the output file outlive a launch; the deduplicator, the   *)
(* leads in memory and the context do not.  The process may also be killed *)
(* between any two steps.                                                  *)
(*                                                                         *)
(* Of the pipeline only what touches the store and the result is kept: a   *)
(* URL is taken once in a launch, its lead is saved and then either        *)
(* collected or, the context being done, dropped (Pipeline, TargetLedger). *)
(***************************************************************************)
EXTENDS LeadStore, Integers

CONSTANT Launches   \* bound: how often the program is started

ASSUME LaunchesAssumption == Launches \in Nat
ASSUME URLsAssumption == IsFiniteSet(URLs)

VARIABLES
    launched,       \* how many launches there have been
    phase,          \* where the program is
    format,         \* the exporter chosen by the output file's extension
    interrupted,    \* its context is done
    pending,        \* source URLs no worker has taken yet
    emitting,       \* URLs saved whose worker is about to hand its lead over
    leads,          \* URL -> the lead in Run's result or on its way there, or NoRow
    snapshot,       \* the URLs of the leads the exporter was given
    table,          \* the URLs in the output file
    complete,       \* the output file ends where an export ended
    former,         \* history: the output file when the launch began
    logged          \* the count of the log's last line "exported %d leads"

runVars  == <<launched, format, interrupted, former>>
fileVars == <<table, complete>>
memVars  == <<pending, emitting, leads>>
appVars  == <<storeVars, runVars, phase, memVars, snapshot, fileVars, logged>>

Formats == {"csv", "json", "xlsx", "other"}

AppTypeOK ==
    /\ StoreTypeOK
    /\ launched \in 0..Launches
    /\ phase \in {"off", "running", "exporting", "writing", "exported", "failed"}
    /\ format \in Formats /\ interrupted \in BOOLEAN
    /\ pending \subseteq URLs /\ emitting \subseteq URLs /\ snapshot \subseteq URLs
    /\ leads \in [URLs -> Leads \cup {NoRow}]
    /\ table \subseteq URLs /\ complete \in BOOLEAN
    /\ former \in (SUBSET URLs) \X BOOLEAN
    /\ logged \in Nat

AppInit ==
    /\ StoreInit
    /\ launched = 0 /\ phase = "off" /\ format = "csv" /\ interrupted = FALSE
    /\ pending = {} /\ emitting = {} /\ snapshot = {}
    /\ leads = [u \in URLs |-> NoRow]
    /\ table = {} /\ complete = TRUE /\ former = <<{}, TRUE>>
    /\ logged = 0

Collected == {u \in URLs : leads[u] # NoRow}

-----------------------------------------------------------------------------
\* flags, sources, InitDB (CREATE TABLE IF NOT EXISTS), Telegram: a fresh process,
\* which ends at once if one of them fails
Launch ==
    /\ phase \in {"off", "exported", "failed"} /\ launched < Launches
    /\ launched' = launched + 1
    /\ phase' \in {"running", "failed"}
    /\ format' \in Formats
    /\ pending' \in SUBSET URLs
    /\ interrupted' = FALSE
    /\ former' = <<table, complete>>
    /\ emitting' = {} /\ snapshot' = {}
    /\ leads' = [u \in URLs |-> NoRow]
    /\ UNCHANGED <<storeVars, fileVars, logged>>

\* a careless variant: nobody remembers that the URL was taken
SaveAgain(u, l) ==
    /\ phase = "running" /\ ~interrupted /\ u \in pending
    /\ SaveLead(u, l)
    /\ emitting' = emitting \cup {u}
    /\ leads' = [leads EXCEPT ![u] = IF @ = NoRow THEN l ELSE @]
    /\ UNCHANGED <<runVars, phase, pending, snapshot, fileVars, logged>>

\* a worker saves the lead of a source; the store refuses a done context
Save(u, l) ==
    /\ phase = "running" /\ ~interrupted /\ u \in pending
    /\ SaveLead(u, l)
    /\ pending' = pending \ {u}
    /\ emitting' = emitting \cup {u}
    /\ leads' = [leads EXCEPT ![u] = l]
    /\ UNCHANGED <<runVars, phase, snapshot, fileVars, logged>>

\* the source fails, repeats another one, or is skipped
GiveUp(u) ==
    /\ phase = "running" /\ u \in pending
    /\ pending' = pending \ {u}
    /\ UNCHANGED <<storeVars, runVars, phase, emitting, leads, snapshot, fileVars, logged>>

\* the saved lead goes into Run's result
Collect(u) ==
    /\ phase = "running" /\ u \in emitting
    /\ emitting' = emitting \ {u}
    /\ UNCHANGED <<storeVars, runVars, phase, pending, leads, snapshot, fileVars, logged>>

\* the worker's select takes ctx.Done(): the row stays, the lead is lost
DropSaved(u) ==
    /\ phase = "running" /\ u \in emitting /\ interrupted
    /\ emitting' = emitting \ {u}
    /\ leads' = [leads EXCEPT ![u] = NoRow]
    /\ UNCHANGED <<storeVars, runVars, phase, pending, snapshot, fileVars, logged>>

\* Run returns; its error is only logged
RunReturns ==
    /\ phase = "running" /\ emitting = {} /\ (pending = {} \/ interrupted)
    /\ phase' = "exporting"
    /\ pending' = {}
    /\ UNCHANGED <<storeVars, runVars, emitting, leads, snapshot, fileVars, logged>>

-----------------------------------------------------------------------------
\* a careless variant: the file is created before the rows are looked at
ReadIntoFile ==
    /\ phase = "exporting" /\ format = "xlsx" /\ ~interrupted
    /\ snapshot' = SavedURLs
    /\ table' = {} /\ complete' = FALSE
    /\ phase' = "writing"
    /\ UNCHANGED <<storeVars, runVars, memVars, logged>>

\* ExportFromDB reads the whole table; a done context is refused
ReadRows ==
    /\ phase = "exporting" /\ format = "xlsx" /\ ~interrupted
    /\ snapshot' = SavedURLs
    /\ phase' = "writing"
    /\ UNCHANGED <<storeVars, runVars, memVars, fileVars, logged>>

\* os.Create: CSV at once, JSON after a look at the context
CreateFile ==
    /\ phase = "exporting" /\ format \in {"csv", "json"}
    /\ format = "json" => ~interrupted
    /\ snapshot' = Collected
    /\ table' = {} /\ complete' = FALSE
    /\ phase' = "writing"
    /\ UNCHANGED <<storeVars, runVars, memVars, logged>>

\* no exporter knows the file's extension, the context is done, the rows cannot
\* be read or the file not be created: the old file stays
RefuseExport ==
    /\ phase = "exporting"
    /\ phase' = "failed"
    /\ UNCHANGED <<storeVars, runVars, memVars, snapshot, fileVars, logged>>

\* a careless variant: the loop over the rows is left without an error
StopSilently ==
    /\ phase = "writing" /\ format = "csv" /\ interrupted /\ snapshot # {}
    /\ phase' = "exported"
    /\ table' \in (SUBSET snapshot) \ {snapshot}
    /\ UNCHANGED <<storeVars, runVars, memVars, snapshot, complete, logged>>

\* the look at the context before each row: the file holds what the buffer has
\* let through
StopCSV ==
    /\ phase = "writing" /\ format = "csv" /\ interrupted /\ snapshot # {}
    /\ phase' = "failed"
    /\ table' \in (SUBSET snapshot) \ {snapshot}
    /\ UNCHANGED <<storeVars, runVars, memVars, snapshot, complete, logged>>

\* the context is done before a row, or SaveAs cannot create the file; the sheet
\* was only in memory
StopXLSX ==
    /\ phase = "writing" /\ format = "xlsx"
    /\ phase' = "failed"
    /\ UNCHANGED <<storeVars, runVars, memVars, snapshot, fileVars, logged>>

\* a careless variant: the header is taken off the number of leads
HeaderDiscounted ==
    /\ phase = "writing"
    /\ table' = snapshot
    /\ complete' = TRUE
    /\ logged' = Cardinality(Collected) - 1
    /\ phase' = "exported"
    /\ UNCHANGED <<storeVars, runVars, memVars, snapshot>>

\* the file is written to its end; the log counts the leads of Run
WriteFile ==
    /\ phase = "writing"
    /\ table' = snapshot
    /\ complete' = TRUE
    /\ logged' = Cardinality(Collected)
    /\ phase' = "exported"
    /\ UNCHANGED <<storeVars, runVars, memVars, snapshot>>

Interrupt ==
    /\ phase \in {"running", "exporting", "writing"} /\ ~interrupted
    /\ interrupted' = TRUE
    /\ UNCHANGED <<storeVars, launched, format, former, phase, memVars, snapshot,
                   fileVars, logged>>

\* the process dies; what it had not yet written it never will.  An XLSX file
\* is being written only in the step that completes it, and may be cut off there
Kill ==
    /\ phase \in {"running", "exporting", "writing"}
    /\ phase' = "off"
    /\ \/ UNCHANGED fileVars
       \/ phase = "writing" /\ complete' = FALSE /\ table' \in SUBSET snapshot
    /\ UNCHANGED <<storeVars, runVars, memVars, snapshot, logged>>

AppNext ==
    \/ Launch
    \/ \E u \in URLs :
        \/ \E l \in Leads : Save(u, l)
        \/ GiveUp(u) \/ Collect(u) \/ DropSaved(u)
    \/ RunReturns
    \/ ReadRows \/ CreateFile \/ RefuseExport \/ StopCSV \/ StopXLSX \/ WriteFile
    \/ Interrupt \/ Kill

AppSpec == AppInit /\ [][AppNext]_appVars

-----------------------------------------------------------------------------
(* What a launch reports can be read back from the store: for every lead   *)
(* in memory its row shows the lead's own text, handles, CIS verdict and   *)
(* mark, whatever former launches have left in the row.                    *)
LeadsMatchRows ==
    \A u \in Collected :
        /\ u \in SavedURLs
        /\ leads[u].text # Blank => rows[u].text = leads[u].text
        /\ leads[u].accepted # {} => rows[u].handles = leads[u].accepted
        /\ rows[u].isCIS = IsCIS(leads[u]) /\ rows[u].mx = leads[u].mx

(* No launch, interrupt or crash takes a row or its text out of the store. *)
RowsSurvive ==
    [][\A u \in SavedURLs :
        /\ rows'[u] # NoRow
        /\ rows[u].text # Blank => rows'[u].text # Blank
        /\ rows[u].handles # {} => rows'[u].handles # {}]_appVars

(* A launch that reports success has exported every lead of its result, to *)
(* a file that is complete, and logs as many as a CSV or JSON file holds.  *)
(* An XLSX file holds the rows of former launches too, which the log does  *)
(* not count.                                                              *)
SuccessExportsAll ==
    phase = "exported" =>
        /\ complete /\ Collected \subseteq table
        /\ format # "xlsx" => logged = Cardinality(table)

(* A launch that ends in an error without being killed leaves the output   *)
(* file as it found it, unless it was writing CSV.                         *)
FailureKeepsFile ==
    phase = "failed" /\ format # "csv" => former = <<table, complete>>
=============================================================================
