------------------------------- MODULE Pipeline -------------------------------
(***************************************************************************)
(* Manager.Run and Manager.processTarget, wired the way cmd/app does it:   *)
(* with a deduplicator, a Telegram validator and a store.                  *)
(*                                                                         *)
(* A pool of workers drains a closed channel of jobs.  Leads go through a  *)
(* bounded channel that Run drains first; errors go through a channel with *)
(* room for every job, which Run drains only after every lead: a worker    *)
(* that found that channel full would stop for ever.  Each worker looks    *)
(* handles up through the actions of TelegramCache.                        *)
(*                                                                         *)
(* A job is its position in the source list.  The two channels and the two *)
(* slices Run fills from them are sets of jobs: nothing depends on order.  *)
(***************************************************************************)
EXTENDS TelegramCache, Sequences, Functions

CONSTANTS
    Keys,           \* the deduplicator's keys: "url:" and the URL, normalised
    Sources,        \* the source list, each URL by its key
    ContactLists    \* the handle lists a scraped page may carry

ASSUME SourcesAssumption  == Sources \in Seq(Keys)
ASSUME ContactsAssumption == ContactLists \subseteq Seq(Handles)
ASSUME PoolAssumption     == IsFiniteSet(Workers) /\ Workers # {}

Jobs == 1..Len(Sources)
NoJob == 0

VARIABLES
    taken,          \* how many jobs have been received
    pc,             \* worker -> where it is in its loop
    job,            \* worker -> the job in hand
    listed,         \* worker -> handles of the scraped lead
    todo,           \* worker -> those still to be validated, in order
    kept,           \* worker -> those accepted so far (validHandles)
    seen,           \* keys the deduplicator has recorded
    results,        \* leads in the results channel
    leads,          \* leads Run has collected
    jobErrors,      \* errors in the jobErrors channel
    runErrors,      \* errors Run has collected
    resultsClosed, errorsClosed,
    main,           \* where Run's own goroutine is
    verdict,        \* Run's error: "none" until it returns
    saved,          \* jobs whose lead is in the store
    rowListed,      \* job -> handles its lead was scraped with
    rowKept,        \* job -> handles its row holds
    scraped, repeated, skipped, dropped     \* history: jobs by what was done to them

poolVars    == <<taken, pc, job>>
leadVars    == <<listed, todo, kept>>
channelVars == <<results, leads, jobErrors, runErrors, resultsClosed, errorsClosed>>
runVars     == <<main, verdict>>
storeVars   == <<saved, rowListed, rowKept>>
historyVars == <<scraped, repeated, skipped, dropped>>

ownVars == <<poolVars, leadVars, seen, channelVars, runVars, storeVars, historyVars>>
vars    == <<cacheVars, ownVars>>

PcSteps == {"idle", "dedup", "scraping", "validating", "emitting", "failing", "done"}

ResultCapacity == Cardinality(Workers)

\* a careless variant: room for one error per worker, as for results
ErrorCapacityOfPool == Cardinality(Workers)

ErrorCapacity == Len(Sources)

PoolTypeOK ==
    /\ taken \in 0..Len(Sources)
    /\ pc \in [Workers -> PcSteps]
    /\ job \in [Workers -> Jobs \cup {NoJob}]
    /\ seen \subseteq Keys

LeadTypeOK ==
    /\ listed \in [Workers -> SUBSET Handles]
    /\ todo \in [Workers -> Seq(Handles)]
    /\ kept \in [Workers -> SUBSET Handles]

RunTypeOK ==
    /\ results \subseteq Jobs /\ leads \subseteq Jobs
    /\ jobErrors \subseteq Jobs /\ runErrors \subseteq Jobs
    /\ resultsClosed \in BOOLEAN /\ errorsClosed \in BOOLEAN
    /\ main \in {"collecting", "draining", "returned"}
    /\ verdict \in {"none", "nil", "failed", "cancelled"}

StoreTypeOK ==
    /\ saved \subseteq Jobs
    /\ rowListed \in [Jobs -> SUBSET Handles]
    /\ rowKept \in [Jobs -> SUBSET Handles]

HistoryTypeOK ==
    /\ scraped \subseteq Jobs /\ repeated \subseteq Jobs
    /\ skipped \subseteq Jobs /\ dropped \subseteq Jobs

PipelineTypeOK ==
    CacheTypeOK /\ PoolTypeOK /\ LeadTypeOK /\ RunTypeOK /\ StoreTypeOK /\ HistoryTypeOK

PipelineInit ==
    /\ CacheInit
    /\ taken = 0
    /\ pc = [w \in Workers |-> "idle"]
    /\ job = [w \in Workers |-> NoJob]
    /\ listed = [w \in Workers |-> {}]
    /\ todo = [w \in Workers |-> <<>>]
    /\ kept = [w \in Workers |-> {}]
    /\ seen = {}
    /\ results = {} /\ leads = {} /\ jobErrors = {} /\ runErrors = {}
    /\ resultsClosed = FALSE /\ errorsClosed = FALSE
    /\ main = "collecting"
    /\ verdict = "none"
    /\ saved = {}
    /\ rowListed = [j \in Jobs |-> {}]
    /\ rowKept = [j \in Jobs |-> {}]
    /\ scraped = {} /\ repeated = {} /\ skipped = {} /\ dropped = {}

-----------------------------------------------------------------------------
(* The worker's loop. *)

\* the worker's next step, its job in hand
Goto(w, step) ==
    /\ pc' = [pc EXCEPT ![w] = step]
    /\ UNCHANGED <<taken, job>>

\* the worker is through with its job
Release(w, step) ==
    /\ pc' = [pc EXCEPT ![w] = step]
    /\ job' = [job EXCEPT ![w] = NoJob]
    /\ UNCHANGED taken

\* a careless variant: one receive too many
ReceivePastEnd(w) ==
    /\ pc[w] = "idle" /\ taken <= Len(Sources) /\ ~cancelled
    /\ taken' = taken + 1
    /\ pc' = [pc EXCEPT ![w] = "dedup"]
    /\ job' = [job EXCEPT ![w] = taken + 1]
    /\ UNCHANGED <<cacheVars, leadVars, seen, channelVars, runVars, storeVars, historyVars>>

\* range jobs, with the context still open
Receive(w) ==
    /\ pc[w] = "idle" /\ taken < Len(Sources) /\ ~cancelled
    /\ taken' = taken + 1
    /\ pc' = [pc EXCEPT ![w] = "dedup"]
    /\ job' = [job EXCEPT ![w] = taken + 1]
    /\ UNCHANGED <<cacheVars, leadVars, seen, channelVars, runVars, storeVars, historyVars>>

\* a careless variant: the worker gives the job up and takes the next one
ReceiveAndSkip(w) ==
    /\ pc[w] = "idle" /\ taken < Len(Sources) /\ cancelled
    /\ taken' = taken + 1
    /\ skipped' = skipped \cup {taken + 1}
    /\ UNCHANGED <<cacheVars, pc, job, leadVars, seen, channelVars, runVars, storeVars,
                   scraped, repeated, dropped>>

\* range jobs, with the context done: the job is received and the worker ends
ReceiveAndQuit(w) ==
    /\ pc[w] = "idle" /\ taken < Len(Sources) /\ cancelled
    /\ taken' = taken + 1
    /\ pc' = [pc EXCEPT ![w] = "done"]
    /\ skipped' = skipped \cup {taken + 1}
    /\ UNCHANGED <<cacheVars, job, leadVars, seen, channelVars, runVars, storeVars,
                   scraped, repeated, dropped>>

\* jobs is closed and empty
Leave(w) ==
    /\ pc[w] = "idle" /\ taken = Len(Sources)
    /\ Goto(w, "done")
    /\ UNCHANGED <<cacheVars, leadVars, seen, channelVars, runVars, storeVars, historyVars>>

\* a careless variant: the key is looked up and left to be recorded later
DedupUnrecorded(w) ==
    /\ pc[w] = "dedup" /\ Sources[job[w]] \notin seen
    /\ scraped' = scraped \cup {job[w]}
    /\ Goto(w, "scraping")
    /\ UNCHANGED <<cacheVars, leadVars, seen, channelVars, runVars, storeVars,
                   repeated, skipped, dropped>>

\* IsDuplicate("url:..."): the key is new, and is recorded in the same step
DedupFresh(w) ==
    /\ pc[w] = "dedup" /\ Sources[job[w]] \notin seen
    /\ seen' = seen \cup {Sources[job[w]]}
    /\ scraped' = scraped \cup {job[w]}
    /\ Goto(w, "scraping")
    /\ UNCHANGED <<cacheVars, leadVars, channelVars, runVars, storeVars,
                   repeated, skipped, dropped>>

\* IsDuplicate("url:..."): processTarget returns nil, nil
DedupRepeated(w) ==
    /\ pc[w] = "dedup" /\ Sources[job[w]] \in seen
    /\ repeated' = repeated \cup {job[w]}
    /\ Release(w, "idle")
    /\ UNCHANGED <<cacheVars, leadVars, seen, channelVars, runVars, storeVars,
                   scraped, skipped, dropped>>

\* the scraper fails, or returns no lead
ScrapeFails(w) ==
    /\ pc[w] = "scraping"
    /\ Goto(w, "failing")
    /\ UNCHANGED <<cacheVars, leadVars, seen, channelVars, runVars, storeVars, historyVars>>

\* every scraper looks at the context once the page is in
ScrapeSucceeds(w, contacts) ==
    /\ pc[w] = "scraping" /\ ~cancelled
    /\ listed' = [listed EXCEPT ![w] = Range(contacts)]
    /\ todo' = [todo EXCEPT ![w] = contacts]
    /\ kept' = [kept EXCEPT ![w] = {}]
    /\ Goto(w, "validating")
    /\ UNCHANGED <<cacheVars, seen, channelVars, runVars, storeVars, historyVars>>

\* the next handle of the lead enters validateTelegram
AskHandle(w) ==
    /\ pc[w] = "validating" /\ todo[w] # <<>>
    /\ CacheHit(w, Head(todo[w])) \/ CacheMiss(w, Head(todo[w]))
    /\ UNCHANGED ownVars

ValidateHandle(w) ==
    /\ FlightStep(w)
    /\ UNCHANGED ownVars

KeptStatus(status) == status \in {"VALID", "SKIPPED"}

\* validateTelegram returned a verdict
TakeVerdict(w) ==
    /\ pc[w] = "validating"
    /\ ReturnVerdict(w)
    /\ vReply[w] # Failed
    /\ kept' = [kept EXCEPT ![w] = IF KeptStatus(vReply[w]) THEN @ \cup {vHandle[w]} ELSE @]
    /\ todo' = [todo EXCEPT ![w] = Tail(@)]
    /\ UNCHANGED <<poolVars, listed, seen, channelVars, runVars, storeVars, historyVars>>

\* validateTelegram returned an error, and so does processTarget
ValidationFails(w) ==
    /\ pc[w] = "validating"
    /\ ReturnVerdict(w)
    /\ vReply[w] = Failed
    /\ Goto(w, "failing")
    /\ UNCHANGED <<leadVars, seen, channelVars, runVars, storeVars, historyVars>>

Validated(w) == pc[w] = "validating" /\ todo[w] = <<>> /\ vStep[w] = "idle"

\* a careless variant: the row is given every handle the page listed
SaveListed(w) ==
    /\ Validated(w) /\ ~cancelled
    /\ saved' = saved \cup {job[w]}
    /\ rowListed' = [rowListed EXCEPT ![job[w]] = listed[w]]
    /\ rowKept' = [rowKept EXCEPT ![job[w]] = listed[w]]
    /\ Goto(w, "emitting")
    /\ UNCHANGED <<cacheVars, leadVars, seen, channelVars, runVars, historyVars>>

\* SaveLead; database/sql refuses a context that is done
SaveSucceeds(w) ==
    /\ Validated(w) /\ ~cancelled
    /\ saved' = saved \cup {job[w]}
    /\ rowListed' = [rowListed EXCEPT ![job[w]] = listed[w]]
    /\ rowKept' = [rowKept EXCEPT ![job[w]] = kept[w]]
    /\ Goto(w, "emitting")
    /\ UNCHANGED <<cacheVars, leadVars, seen, channelVars, runVars, historyVars>>

\* a careless variant: the store's error is ignored
SaveErrorIgnored(w) ==
    /\ Validated(w)
    /\ Goto(w, "emitting")
    /\ UNCHANGED <<cacheVars, leadVars, seen, channelVars, runVars, storeVars, historyVars>>

SaveFails(w) ==
    /\ Validated(w)
    /\ Goto(w, "failing")
    /\ UNCHANGED <<cacheVars, leadVars, seen, channelVars, runVars, storeVars, historyVars>>

\* select: results <- lead
EmitLead(w) ==
    /\ pc[w] = "emitting" /\ Cardinality(results) < ResultCapacity
    /\ results' = results \cup {job[w]}
    /\ Release(w, "idle")
    /\ UNCHANGED <<cacheVars, leadVars, seen, leads, jobErrors, runErrors,
                   resultsClosed, errorsClosed, runVars, storeVars, historyVars>>

\* select: ctx.Done(), which may win although results has room
DropLead(w) ==
    /\ pc[w] = "emitting" /\ cancelled
    /\ dropped' = dropped \cup {job[w]}
    /\ Release(w, "done")
    /\ UNCHANGED <<cacheVars, leadVars, seen, channelVars, runVars, storeVars,
                   scraped, repeated, skipped>>

\* jobErrors <- wrapped, outside any select
ReportError(w) ==
    /\ pc[w] = "failing" /\ Cardinality(jobErrors) < ErrorCapacity
    /\ jobErrors' = jobErrors \cup {job[w]}
    /\ Release(w, "idle")
    /\ UNCHANGED <<cacheVars, leadVars, seen, results, leads, runErrors,
                   resultsClosed, errorsClosed, runVars, storeVars, historyVars>>

-----------------------------------------------------------------------------
(* The goroutine that closes the channels, and Run's own. *)

\* a careless variant: the channel is closed once every job is received
CloseWhenTaken ==
    /\ taken = Len(Sources)
    /\ ~resultsClosed
    /\ resultsClosed' = TRUE
    /\ UNCHANGED <<cacheVars, poolVars, leadVars, seen, results, leads, jobErrors,
                   runErrors, errorsClosed, runVars, storeVars, historyVars>>

CloseResults ==
    /\ \A w \in Workers : pc[w] = "done"
    /\ ~resultsClosed
    /\ resultsClosed' = TRUE
    /\ UNCHANGED <<cacheVars, poolVars, leadVars, seen, results, leads, jobErrors,
                   runErrors, errorsClosed, runVars, storeVars, historyVars>>

CloseErrors ==
    /\ resultsClosed /\ ~errorsClosed
    /\ errorsClosed' = TRUE
    /\ UNCHANGED <<cacheVars, poolVars, leadVars, seen, results, leads, jobErrors,
                   runErrors, resultsClosed, runVars, storeVars, historyVars>>

CollectLead ==
    /\ main = "collecting"
    /\ \E j \in results :
        /\ results' = results \ {j}
        /\ leads' = leads \cup {j}
    /\ UNCHANGED <<cacheVars, poolVars, leadVars, seen, jobErrors, runErrors,
                   resultsClosed, errorsClosed, runVars, storeVars, historyVars>>

\* a careless variant: Run stops collecting as soon as there is nothing to collect
StopWhenEmpty ==
    /\ main = "collecting" /\ results = {}
    /\ main' = "draining"
    /\ UNCHANGED <<cacheVars, poolVars, leadVars, seen, channelVars, verdict,
                   storeVars, historyVars>>

\* results is closed and empty
LeadsCollected ==
    /\ main = "collecting" /\ resultsClosed /\ results = {}
    /\ main' = "draining"
    /\ UNCHANGED <<cacheVars, poolVars, leadVars, seen, channelVars, verdict,
                   storeVars, historyVars>>

CollectError ==
    /\ main = "draining"
    /\ \E j \in jobErrors :
        /\ jobErrors' = jobErrors \ {j}
        /\ runErrors' = runErrors \cup {j}
    /\ UNCHANGED <<cacheVars, poolVars, leadVars, seen, results, leads,
                   resultsClosed, errorsClosed, runVars, storeVars, historyVars>>

\* jobErrors is closed and empty: the context's error, or the jobs', or nil
ReturnLeads ==
    /\ main = "draining" /\ errorsClosed /\ jobErrors = {}
    /\ main' = "returned"
    /\ verdict' = IF cancelled THEN "cancelled"
                  ELSE IF runErrors # {} THEN "failed" ELSE "nil"
    /\ UNCHANGED <<cacheVars, poolVars, leadVars, seen, channelVars, storeVars, historyVars>>

\* the context may end at any time, also after Run has returned
Interrupt ==
    /\ CancelContext
    /\ UNCHANGED ownVars

Terminated ==
    /\ main = "returned"
    /\ UNCHANGED vars

-----------------------------------------------------------------------------
WorkerStep(w) ==
    \/ Receive(w) \/ ReceiveAndQuit(w) \/ Leave(w)
    \/ DedupFresh(w) \/ DedupRepeated(w)
    \/ ScrapeFails(w)
    \/ \E contacts \in ContactLists : ScrapeSucceeds(w, contacts)
    \/ AskHandle(w) \/ ValidateHandle(w)
    \/ TakeVerdict(w) \/ ValidationFails(w)
    \/ SaveSucceeds(w) \/ SaveFails(w)
    \/ EmitLead(w) \/ DropLead(w) \/ ReportError(w)

CloserStep == CloseResults \/ CloseErrors

RunStep == CollectLead \/ LeadsCollected \/ CollectError \/ ReturnLeads

PipelineNext ==
    \/ \E w \in Workers : WorkerStep(w)
    \/ CloserStep \/ RunStep
    \/ Interrupt
    \/ Terminated

PipelineSpec == PipelineInit /\ [][PipelineNext]_vars

\* Go runs every goroutine that can run; the scrapers' requests, the Telegram
\* calls and the database calls all come back.  Nothing makes Interrupt happen.
PipelineFairSpec ==
    /\ PipelineSpec
    /\ \A w \in Workers : WF_vars(WorkerStep(w))
    /\ WF_vars(CloserStep) /\ WF_vars(RunStep)

-----------------------------------------------------------------------------
(* A worker with an error to report always finds room in jobErrors,        *)
(* although Run does not touch that channel before every lead is in.       *)
ErrorsNeverBlock ==
    \A w \in Workers : pc[w] = "failing" => Cardinality(jobErrors) < ErrorCapacity

(* However workers interleave, a key is scraped for one target only.       *)
ScrapedOnce ==
    \A i, j \in scraped : Sources[i] = Sources[j] => i = j

(* When Run returns and nobody interrupted it, every key of the source     *)
(* list has either its lead among the leads or its error among the errors, *)
(* and a nil error means that every key has its lead.                      *)
ReturnAccountsForAll ==
    verdict \in {"nil", "failed"} =>
        /\ \A i \in Jobs : \E j \in leads \cup runErrors : Sources[i] = Sources[j]
        /\ leads \cap runErrors = {}
        /\ verdict = "nil" <=> runErrors = {}

(* Run reports a lead only if its row is in the store, and a store row     *)
(* without a reported lead is one the end of the context took away.        *)
StoreMatchesReport ==
    /\ leads \cup results \subseteq saved
    /\ main = "returned" => saved = leads \cup dropped

(* A row holds a handle only if some verdict given for that handle accepts *)
(* it, and lacks a handle its page listed only if some verdict rejects it. *)
RowHandlesJudged ==
    \A j \in saved :
        /\ \A h \in rowKept[j] : \E s \in verdicts[h] : KeptStatus(s)
        /\ \A h \in rowListed[j] \ rowKept[j] : \E s \in verdicts[h] : ~KeptStatus(s)

(* No goroutine of the pool outlives Run.                                  *)
NoWorkAfterReturn ==
    [][main = "returned" => UNCHANGED <<ownVars, tgCache, tgFlight>>]_vars

(* Run returns.                                                            *)
RunReturns == <>(main = "returned")

-----------------------------------------------------------------------------
(* The refinement: where each job stands in the ledger of TargetLedger.    *)
InHand(j) ==
    \E w \in Workers :
        job[w] = j /\ pc[w] \in {"scraping", "validating", "emitting", "failing"}

Column(j) ==
    CASE j \in leads \cup results       -> "lead"
      [] j \in runErrors \cup jobErrors -> "failed"
      [] j \in repeated                 -> "repeated"
      [] j \in skipped                  -> "skipped"
      [] j \in dropped                  -> "dropped"
      [] InHand(j)                      -> "admitted"
      [] OTHER                          -> "queued"

Ledger == INSTANCE TargetLedger WITH
    Targets  <- Jobs,
    KeyOf    <- Sources,
    PoolSize <- Cardinality(Workers),
    ledger   <- [j \in Jobs |-> Column(j)]

(* Manager.Run implements the ledger: whatever the workers do, a target     *)
(* moves between columns only the way TargetLedger allows, at most as many  *)
(* targets are lost to the end of the context as there are workers, and the *)
(* error Run returns is the one the columns call for.                       *)
KeepsLedger == Ledger!LedgerSpec
=============================================================================
