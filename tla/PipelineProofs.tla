---------------------------- MODULE PipelineProofs ----------------------------
(***************************************************************************)
(* Proofs about Pipeline, for any pool, any source list, any pages: its    *)
(* invariants first, and then that it implements TargetLedger.             *)
(***************************************************************************)
EXTENDS Pipeline, TelegramCacheProofs, FiniteSetTheorems

(* There are as many jobs as entries in the source list. *)
LEMMA JobsAreFinite ==
    /\ Len(Sources) \in Nat
    /\ Jobs \subseteq Nat
    /\ IsFiniteSet(Jobs)
    /\ Cardinality(Jobs) = Len(Sources)
    /\ NoJob \notin Jobs
<1>1. Len(Sources) \in Nat
    BY SourcesAssumption
<1>2. /\ IsFiniteSet(1..Len(Sources))
      /\ Cardinality(1..Len(Sources)) = IF 1 > Len(Sources) THEN 0 ELSE Len(Sources) - 1 + 1
    <2>1. 1 \in Int /\ Len(Sources) \in Int
        BY <1>1
    <2> QED
        BY <2>1, FS_Interval, Zenon
<1> QED
    BY <1>1, <1>2 DEF Jobs, NoJob

(* The initial state is typed. *)
LEMMA PipelineInitTyped == PipelineInit => PipelineTypeOK
<1> SUFFICES ASSUME PipelineInit PROVE PipelineTypeOK
    OBVIOUS
<1>1. CacheTypeOK
    BY CacheInitInv DEF PipelineInit, CacheInv, CacheTyped
<1>2. PoolTypeOK
    BY JobsAreFinite DEF PipelineInit, PoolTypeOK, PcSteps
<1>3. LeadTypeOK
    BY DEF PipelineInit, LeadTypeOK
<1>4. RunTypeOK /\ StoreTypeOK /\ HistoryTypeOK
    BY DEF PipelineInit, RunTypeOK, StoreTypeOK, HistoryTypeOK
<1> QED
    BY <1>1, <1>2, <1>3, <1>4 DEF PipelineTypeOK

(* A step of the pipeline is a step of the lookup path, or leaves it alone. *)
LEMMA PipelineStepIsCacheStep ==
    ASSUME LeadTypeOK, [PipelineNext]_vars
    PROVE  [CacheNext]_cacheVars
<1>1. ASSUME NEW w \in Workers, AskHandle(w)
      PROVE  CacheNext
    <2>1. Head(todo[w]) \in Handles
        BY <1>1 DEF AskHandle, LeadTypeOK
    <2> QED
        BY <1>1, <2>1 DEF AskHandle, CacheNext
<1>2. ASSUME NEW w \in Workers, ValidateHandle(w)
      PROVE  CacheNext
    BY <1>2 DEF ValidateHandle, CacheNext
<1>3. ASSUME NEW w \in Workers, TakeVerdict(w) \/ ValidationFails(w)
      PROVE  CacheNext
    BY <1>3 DEF TakeVerdict, ValidationFails, CacheNext
<1>4. CASE Interrupt
    BY <1>4 DEF Interrupt, CacheNext
<1>5. ASSUME NEW w \in Workers,
             \/ Receive(w) \/ ReceiveAndQuit(w) \/ Leave(w)
             \/ DedupFresh(w) \/ DedupRepeated(w) \/ ScrapeFails(w)
             \/ \E contacts \in ContactLists : ScrapeSucceeds(w, contacts)
             \/ SaveSucceeds(w) \/ SaveFails(w)
             \/ EmitLead(w) \/ DropLead(w) \/ ReportError(w)
      PROVE  UNCHANGED cacheVars
    BY <1>5 DEF Receive, ReceiveAndQuit, Leave, DedupFresh, DedupRepeated, ScrapeFails,
                ScrapeSucceeds, SaveSucceeds, SaveFails, EmitLead, DropLead, ReportError
<1>6. CASE CloserStep \/ RunStep \/ Terminated \/ UNCHANGED vars
    BY <1>6 DEF CloserStep, RunStep, CloseResults, CloseErrors, CollectLead,
                LeadsCollected, CollectError, ReturnLeads, Terminated, vars
<1> QED
    BY <1>1, <1>2, <1>3, <1>4, <1>5, <1>6 DEF PipelineNext, WorkerStep

-----------------------------------------------------------------------------
(* The bookkeeping of jobs.  A worker with a job in hand holds one that no *)
(* other worker holds and that has not been settled.                       *)

Busy(w) == pc[w] \notin {"idle", "done"}

Settled == results \cup leads \cup jobErrors \cup runErrors \cup repeated \cup skipped \cup dropped

HandsApart ==
    /\ \A w \in Workers : Busy(w) => job[w] \in 1..taken /\ job[w] \notin Settled
    /\ \A w \in Workers : ~Busy(w) => job[w] = NoJob
    /\ \A v, w \in Workers : Busy(v) /\ Busy(w) /\ job[v] = job[w] => v = w
    /\ Settled \subseteq 1..taken

PoolInv == PoolTypeOK /\ RunTypeOK /\ HistoryTypeOK /\ HandsApart

(* A worker that is busy has a job of the source list in hand. *)
LEMMA BusyHasJob ==
    ASSUME PoolInv, NEW w \in Workers, Busy(w)
    PROVE  job[w] \in Jobs /\ job[w] \in 1..taken /\ job[w] \notin Settled
BY JobsAreFinite DEF PoolInv, PoolTypeOK, HandsApart, Jobs

(* A step keeps the types of the pool's own variables. *)
LEMMA PoolTypeStep ==
    ASSUME PoolInv, [PipelineNext]_vars
    PROVE  PoolTypeOK'
<1>a. PoolTypeOK
    BY DEF PoolInv
<1> USE <1>a, JobsAreFinite, SourcesAssumption DEF PoolTypeOK, PcSteps, poolVars
<1>1. ASSUME NEW w \in Workers, Receive(w)
      PROVE  PoolTypeOK'
    BY <1>1 DEF Receive, Jobs
<1>2. ASSUME NEW w \in Workers, ReceiveAndQuit(w)
      PROVE  PoolTypeOK'
    BY <1>2 DEF ReceiveAndQuit
<1>3. ASSUME NEW w \in Workers, DedupFresh(w)
      PROVE  PoolTypeOK'
    <2>1. Busy(w)
        BY <1>3 DEF DedupFresh, Busy
    <2>2. Sources[job[w]] \in Keys
        BY <2>1, BusyHasJob DEF Jobs
    <2> QED
        BY <1>3, <2>2 DEF DedupFresh, Goto
<1>4. ASSUME NEW w \in Workers,
             \/ ScrapeFails(w) \/ ValidationFails(w) \/ SaveFails(w) \/ SaveSucceeds(w)
             \/ Leave(w)
             \/ \E contacts \in ContactLists : ScrapeSucceeds(w, contacts)
      PROVE  PoolTypeOK'
    BY <1>4 DEF Leave, ScrapeFails, ValidationFails, SaveFails, SaveSucceeds,
                ScrapeSucceeds, Goto
<1>5. ASSUME NEW w \in Workers,
             DedupRepeated(w) \/ EmitLead(w) \/ DropLead(w) \/ ReportError(w)
      PROVE  PoolTypeOK'
    BY <1>5 DEF DedupRepeated, EmitLead, DropLead, ReportError, Release
<1>6. ASSUME NEW w \in Workers, AskHandle(w) \/ ValidateHandle(w) \/ TakeVerdict(w)
      PROVE  PoolTypeOK'
    BY <1>6 DEF AskHandle, ValidateHandle, TakeVerdict, ownVars
<1>7. CASE CloserStep \/ RunStep
    BY <1>7 DEF CloserStep, RunStep, CloseResults, CloseErrors, CollectLead,
                LeadsCollected, CollectError, ReturnLeads
<1>8. CASE Interrupt \/ Terminated \/ UNCHANGED vars
    BY <1>8 DEF Interrupt, Terminated, vars, ownVars
<1> QED
    BY <1>1, <1>2, <1>3, <1>4, <1>5, <1>6, <1>7, <1>8 DEF PipelineNext, WorkerStep

(* A step keeps the types of the channels, of Run and of the history. *)
LEMMA RunTypeStep ==
    ASSUME PoolInv, [PipelineNext]_vars
    PROVE  RunTypeOK' /\ HistoryTypeOK'
<1> DEFINE Goal == RunTypeOK' /\ HistoryTypeOK'
<1>a. RunTypeOK /\ HistoryTypeOK
    BY DEF PoolInv
<1> USE <1>a DEF RunTypeOK, HistoryTypeOK, channelVars, runVars, historyVars
<1>1. ASSUME NEW w \in Workers,
             \/ ScrapeFails(w) \/ ValidationFails(w) \/ SaveFails(w) \/ SaveSucceeds(w)
             \/ Leave(w) \/ Receive(w)
             \/ \E contacts \in ContactLists : ScrapeSucceeds(w, contacts)
      PROVE  Goal
    BY <1>1 DEF Leave, ScrapeFails, ValidationFails, SaveFails, SaveSucceeds,
                ScrapeSucceeds, Receive
<1>2. ASSUME NEW w \in Workers, ReceiveAndQuit(w)
      PROVE  Goal
    <2>1. taken + 1 \in Jobs
        BY <1>2, JobsAreFinite DEF ReceiveAndQuit, PoolInv, PoolTypeOK, Jobs
    <2> QED
        BY <1>2, <2>1 DEF ReceiveAndQuit
<1>3. ASSUME NEW w \in Workers,
             \/ DedupFresh(w) \/ DedupRepeated(w)
             \/ EmitLead(w) \/ DropLead(w) \/ ReportError(w)
      PROVE  Goal
    <2>1. job[w] \in Jobs
        BY <1>3, BusyHasJob
           DEF DedupFresh, DedupRepeated, EmitLead, DropLead, ReportError, Busy
    <2> QED
        BY <1>3, <2>1 DEF DedupFresh, DedupRepeated, EmitLead, DropLead, ReportError
<1>4. ASSUME NEW w \in Workers, AskHandle(w) \/ ValidateHandle(w) \/ TakeVerdict(w)
      PROVE  Goal
    BY <1>4 DEF AskHandle, ValidateHandle, TakeVerdict, ownVars
<1>5. CASE CloserStep
    BY <1>5 DEF CloserStep, CloseResults, CloseErrors
<1>6. CASE RunStep
    BY <1>6 DEF RunStep, CollectLead, LeadsCollected, CollectError, ReturnLeads
<1>7. CASE Interrupt \/ Terminated \/ UNCHANGED vars
    BY <1>7 DEF Interrupt, Terminated, vars, ownVars
<1> QED
    BY <1>1, <1>2, <1>3, <1>4, <1>5, <1>6, <1>7 DEF PipelineNext, WorkerStep

-----------------------------------------------------------------------------
(* HandsApart, by what a step does to the pool. *)

(* A worker moves on with its job, or moves between two idle places. *)
LEMMA HandsMove ==
    ASSUME PoolTypeOK, HandsApart, NEW w \in Workers, NEW step \in PcSteps,
           Goto(w, step), Busy(w) <=> step \notin {"idle", "done"},
           Settled' = Settled
    PROVE  HandsApart'
BY DEF PoolTypeOK, HandsApart, Goto, Busy

(* A worker settles its job. *)
LEMMA HandsSettle ==
    ASSUME PoolTypeOK, HandsApart, NEW w \in Workers, NEW step \in {"idle", "done"},
           Busy(w), Release(w, step), Settled' = Settled \cup {job[w]}
    PROVE  HandsApart'
BY DEF PoolTypeOK, HandsApart, Release, Busy

(* A step that is none of the pool's business. *)
LEMMA HandsSame ==
    ASSUME HandsApart, UNCHANGED <<taken, pc, job>>, Settled' = Settled
    PROVE  HandsApart'
BY DEF HandsApart, Busy

(* A step keeps the jobs in hand apart from each other and from the settled ones. *)
LEMMA HandsApartStep ==
    ASSUME PoolInv, [PipelineNext]_vars
    PROVE  HandsApart'
<1>a. PoolTypeOK /\ HandsApart
    BY DEF PoolInv
<1>1. ASSUME NEW w \in Workers, Receive(w)
      PROVE  HandsApart'
    <2>1. Settled' = Settled
        BY <1>1 DEF Receive, Settled, channelVars, historyVars
    <2> QED
        BY <1>1, <1>a, <2>1, JobsAreFinite
           DEF Receive, HandsApart, PoolTypeOK, Busy, NoJob
<1>2. ASSUME NEW w \in Workers, ReceiveAndQuit(w)
      PROVE  HandsApart'
    <2>1. Settled' = Settled \cup {taken + 1}
        BY <1>2 DEF ReceiveAndQuit, Settled, channelVars
    <2> QED
        BY <1>2, <1>a, <2>1, JobsAreFinite
           DEF ReceiveAndQuit, HandsApart, PoolTypeOK, Busy
<1>3. ASSUME NEW w \in Workers, DedupFresh(w)
      PROVE  HandsApart'
    <2>1. Settled' = Settled /\ Goto(w, "scraping") /\ Busy(w)
        BY <1>3 DEF DedupFresh, Settled, channelVars, Busy
    <2> QED
        BY <1>a, <2>1, HandsMove DEF PcSteps
<1>4. ASSUME NEW w \in Workers, Leave(w)
      PROVE  HandsApart'
    <2>1. Settled' = Settled /\ Goto(w, "done") /\ ~Busy(w)
        BY <1>4 DEF Leave, Settled, channelVars, historyVars, Busy
    <2> QED
        BY <1>a, <2>1, HandsMove DEF PcSteps
<1>5. ASSUME NEW w \in Workers, ScrapeFails(w) \/ ValidationFails(w) \/ SaveFails(w)
      PROVE  HandsApart'
    <2>1. Settled' = Settled /\ Goto(w, "failing") /\ Busy(w)
        BY <1>5 DEF ScrapeFails, ValidationFails, SaveFails, Validated, Settled,
                    channelVars, historyVars, Busy
    <2> QED
        BY <1>a, <2>1, HandsMove DEF PcSteps
<1>6. ASSUME NEW w \in Workers, NEW contacts \in ContactLists, ScrapeSucceeds(w, contacts)
      PROVE  HandsApart'
    <2>1. Settled' = Settled /\ Goto(w, "validating") /\ Busy(w)
        BY <1>6 DEF ScrapeSucceeds, Settled, channelVars, historyVars, Busy
    <2> QED
        BY <1>a, <2>1, HandsMove DEF PcSteps
<1>7. ASSUME NEW w \in Workers, SaveSucceeds(w)
      PROVE  HandsApart'
    <2>1. Settled' = Settled /\ Goto(w, "emitting") /\ Busy(w)
        BY <1>7 DEF SaveSucceeds, Validated, Settled, channelVars, historyVars, Busy
    <2> QED
        BY <1>a, <2>1, HandsMove DEF PcSteps
<1>8. ASSUME NEW w \in Workers, DedupRepeated(w) \/ EmitLead(w) \/ ReportError(w)
      PROVE  HandsApart'
    <2>1. Settled' = Settled \cup {job[w]} /\ Release(w, "idle") /\ Busy(w)
        BY <1>8 DEF DedupRepeated, EmitLead, ReportError, Settled, channelVars,
                    historyVars, Busy
    <2> QED
        BY <1>a, <2>1, HandsSettle
<1>9. ASSUME NEW w \in Workers, DropLead(w)
      PROVE  HandsApart'
    <2>1. Settled' = Settled \cup {job[w]} /\ Release(w, "done") /\ Busy(w)
        BY <1>9 DEF DropLead, Settled, channelVars, Busy
    <2> QED
        BY <1>a, <2>1, HandsSettle
<1>10. ASSUME NEW w \in Workers, AskHandle(w) \/ ValidateHandle(w) \/ TakeVerdict(w)
       PROVE  HandsApart'
    <2>1. UNCHANGED <<taken, pc, job>> /\ Settled' = Settled
        BY <1>10 DEF AskHandle, ValidateHandle, TakeVerdict, ownVars, poolVars,
                     channelVars, historyVars, Settled
    <2> QED
        BY <1>a, <2>1, HandsSame
<1>11. CASE CloserStep \/ RunStep
    <2>1. UNCHANGED <<taken, pc, job>>
        BY <1>11 DEF CloserStep, CloseResults, CloseErrors, RunStep, CollectLead,
                     LeadsCollected, CollectError, ReturnLeads, poolVars
    <2>2. Settled' = Settled
        BY <1>11 DEF CloserStep, CloseResults, CloseErrors, RunStep, CollectLead,
                     LeadsCollected, CollectError, ReturnLeads, channelVars,
                     historyVars, Settled
    <2> QED
        BY <1>a, <2>1, <2>2, HandsSame
<1>12. CASE Interrupt \/ Terminated \/ UNCHANGED vars
    <2>1. UNCHANGED <<taken, pc, job>> /\ Settled' = Settled
        BY <1>12 DEF Interrupt, Terminated, vars, ownVars, poolVars, channelVars,
                     historyVars, Settled
    <2> QED
        BY <1>a, <2>1, HandsSame
<1> QED
    BY <1>1, <1>2, <1>3, <1>4, <1>5, <1>6, <1>7, <1>8, <1>9, <1>10, <1>11, <1>12
       DEF PipelineNext, WorkerStep

(* Initially nobody has a job in hand. *)
LEMMA PoolInitInv == PipelineInit => PoolInv
<1> SUFFICES ASSUME PipelineInit PROVE PoolInv
    OBVIOUS
<1>1. PoolTypeOK /\ RunTypeOK /\ HistoryTypeOK
    BY PipelineInitTyped DEF PipelineTypeOK
<1>2. HandsApart
    BY DEF PipelineInit, HandsApart, Busy, Settled
<1> QED
    BY <1>1, <1>2 DEF PoolInv

(* No job is in two hands, or in hand and settled, however workers interleave. *)
THEOREM PoolInvHolds == PipelineSpec => []PoolInv
<1>1. PoolInv /\ [PipelineNext]_vars => PoolInv'
    <2> SUFFICES ASSUME PoolInv, [PipelineNext]_vars PROVE PoolInv'
        OBVIOUS
    <2>1. PoolTypeOK'
        BY PoolTypeStep
    <2>2. RunTypeOK' /\ HistoryTypeOK'
        BY RunTypeStep
    <2>3. HandsApart'
        BY HandsApartStep
    <2> QED
        BY <2>1, <2>2, <2>3 DEF PoolInv
<1> QED
    BY <1>1, PoolInitInv, PTL DEF PipelineSpec

(* Manager.Run: jobErrors has room for the error of every job, so a worker  *)
(* never waits to report one although Run reads leads first.  The job in    *)
(* hand is the one job whose error cannot be in the channel yet.            *)
THEOREM ErrorsNeverBlockHolds == PipelineSpec => []ErrorsNeverBlock
<1>1. PoolInv => ErrorsNeverBlock
    <2> SUFFICES ASSUME PoolInv, NEW w \in Workers, pc[w] = "failing"
                 PROVE  Cardinality(jobErrors) < ErrorCapacity
        BY DEF ErrorsNeverBlock
    <2>1. job[w] \in Jobs /\ job[w] \notin jobErrors
        BY BusyHasJob DEF Busy, Settled
    <2>2. jobErrors \in SUBSET Jobs
        BY DEF PoolInv, RunTypeOK
    <2>3. /\ IsFiniteSet(jobErrors)
          /\ Cardinality(jobErrors) <= Cardinality(Jobs)
          /\ Cardinality(Jobs) = Cardinality(jobErrors) => Jobs = jobErrors
        BY <2>2, JobsAreFinite, FS_Subset
    <2>4. Cardinality(jobErrors) \in Nat
        BY <2>3, FS_CardinalityType
    <2> QED
        BY <2>1, <2>3, <2>4, JobsAreFinite DEF ErrorCapacity
<1> QED
    BY <1>1, PoolInvHolds, PTL

-----------------------------------------------------------------------------
(* The deduplicator.  A key is recorded with the first job that presents   *)
(* it, and that job is scraped; every later one is set aside.              *)

InScraping(w) == pc[w] \in {"scraping", "validating", "emitting", "failing"}

KeysOwned ==
    /\ \A j \in scraped : Sources[j] \in seen
    /\ \A k \in seen : \E j \in scraped : Sources[j] = k
    /\ \A j \in repeated : Sources[j] \in seen
    /\ \A w \in Workers : InScraping(w) => job[w] \in scraped
    /\ \A w \in Workers : pc[w] = "dedup" => job[w] \notin scraped
    /\ scraped \subseteq 1..taken

KeysInv == KeysOwned /\ ScrapedOnce

(* A step keeps the recorded keys and the scraped jobs in correspondence. *)
LEMMA KeysInvStep ==
    ASSUME PoolInv, KeysInv, [PipelineNext]_vars
    PROVE  KeysInv'
<1>a. PoolTypeOK /\ HandsApart
    BY DEF PoolInv
<1> USE DEF KeysInv, KeysOwned, ScrapedOnce, InScraping
<1>1. ASSUME NEW w \in Workers, Receive(w)
      PROVE  KeysInv'
    <2>1. taken \in Nat /\ taken + 1 \notin scraped
        BY <1>a, JobsAreFinite DEF PoolTypeOK
    <2> QED
        BY <1>1, <1>a, <2>1 DEF Receive, PoolTypeOK, historyVars
<1>2. ASSUME NEW w \in Workers, ReceiveAndQuit(w)
      PROVE  KeysInv'
    <2>1. taken \in Nat
        BY <1>a, JobsAreFinite DEF PoolTypeOK
    <2> QED
        BY <1>2, <1>a, <2>1 DEF ReceiveAndQuit, PoolTypeOK
<1>3. ASSUME NEW w \in Workers, DedupFresh(w)
      PROVE  KeysInv'
    <2>1. job[w] \in 1..taken
        BY <1>3, BusyHasJob DEF DedupFresh, Busy
    <2>2. \A x \in Workers : x # w /\ pc[x] = "dedup" => job[x] # job[w]
        BY <1>3, <1>a DEF DedupFresh, HandsApart, Busy
    <2> QED
        BY <1>3, <1>a, <2>1, <2>2 DEF DedupFresh, Goto, PoolTypeOK
<1>4. ASSUME NEW w \in Workers, DedupRepeated(w)
      PROVE  KeysInv'
    BY <1>4, <1>a DEF DedupRepeated, Release, PoolTypeOK
<1>5. ASSUME NEW w \in Workers,
             \/ ScrapeFails(w) \/ ValidationFails(w) \/ SaveFails(w) \/ SaveSucceeds(w)
             \/ Leave(w)
             \/ \E contacts \in ContactLists : ScrapeSucceeds(w, contacts)
      PROVE  KeysInv'
    BY <1>5, <1>a DEF ScrapeFails, ValidationFails, SaveFails, SaveSucceeds, Leave,
                      ScrapeSucceeds, Goto, Validated, PoolTypeOK, historyVars
<1>6. ASSUME NEW w \in Workers, EmitLead(w) \/ ReportError(w)
      PROVE  KeysInv'
    BY <1>6, <1>a DEF EmitLead, ReportError, Release, PoolTypeOK, historyVars
<1>7. ASSUME NEW w \in Workers, DropLead(w)
      PROVE  KeysInv'
    BY <1>7, <1>a DEF DropLead, Release, PoolTypeOK
<1>8. ASSUME NEW w \in Workers, AskHandle(w) \/ ValidateHandle(w) \/ TakeVerdict(w)
      PROVE  KeysInv'
    BY <1>8 DEF AskHandle, ValidateHandle, TakeVerdict, ownVars, poolVars, historyVars
<1>9. CASE CloserStep \/ RunStep
    BY <1>9 DEF CloserStep, CloseResults, CloseErrors, RunStep, CollectLead,
                LeadsCollected, CollectError, ReturnLeads, poolVars, historyVars
<1>10. CASE Interrupt \/ Terminated \/ UNCHANGED vars
    BY <1>10 DEF Interrupt, Terminated, vars, ownVars, poolVars, historyVars
<1> QED
    BY <1>1, <1>2, <1>3, <1>4, <1>5, <1>6, <1>7, <1>8, <1>9, <1>10
       DEF PipelineNext, WorkerStep

(* Every recorded key is owned by exactly one scraped job. *)
LEMMA KeysInvHolds == PipelineSpec => []KeysInv
<1>1. PipelineInit => KeysInv
    BY DEF PipelineInit, KeysInv, KeysOwned, ScrapedOnce, InScraping
<1>2. PoolInv /\ KeysInv /\ [PipelineNext]_vars => KeysInv'
    BY KeysInvStep
<1> QED
    BY <1>1, <1>2, PoolInvHolds, PTL DEF PipelineSpec

(* processTarget and Deduplicator.IsDuplicate: a URL is looked up and       *)
(* recorded in one critical section, so it is scraped at most once in a run *)
(* however many times the list has it and whoever takes it.                 *)
THEOREM ScrapedOnceHolds == PipelineSpec => []ScrapedOnce
<1>1. KeysInv => ScrapedOnce
    BY DEF KeysInv
<1> QED
    BY <1>1, KeysInvHolds, PTL

-----------------------------------------------------------------------------
(* The lead in hand.  A worker inside validateTelegram is there for the    *)
(* next handle of its lead, and the handles already dealt with were kept   *)
(* or dropped on a verdict given for them.                                 *)

AskingNext ==
    \A w \in Workers :
        vStep[w] # "idle" =>
            pc[w] = "validating" /\ todo[w] # <<>> /\ vHandle[w] = Head(todo[w])

Accepted(h) == \E s \in verdicts[h] : KeptStatus(s)

Rejected(h) == \E s \in verdicts[h] : ~KeptStatus(s)

LeadJudged ==
    \A w \in Workers :
        /\ \A h \in kept[w] : Accepted(h)
        /\ \A h \in listed[w] : h \in kept[w] \/ h \in Range(todo[w]) \/ Rejected(h)

LeadInv == CacheInv /\ LeadTypeOK /\ AskingNext /\ LeadJudged

(* What a list of handles holds is its head and what its tail holds. *)
LEMMA RangeOfTail ==
    ASSUME NEW S, NEW s \in Seq(S), s # <<>>, NEW x \in Range(s)
    PROVE  x = Head(s) \/ x \in Range(Tail(s))
<1>1. PICK i \in 1..Len(s) : x = s[i]
    BY DEF Range
<1>2. CASE i = 1
    BY <1>1, <1>2
<1>3. CASE i # 1
    <2>1. i - 1 \in 1..Len(Tail(s)) /\ Tail(s)[i - 1] = s[i]
        BY <1>1, <1>3
    <2>2. DOMAIN Tail(s) = 1..Len(Tail(s))
        OBVIOUS
    <2> QED
        BY <1>1, <2>1, <2>2 DEF Range
<1> QED
    BY <1>2, <1>3

(* A contact list holds handles only. *)
LEMMA RangeOfContacts ==
    ASSUME NEW contacts \in ContactLists
    PROVE  Range(contacts) \subseteq Handles
BY ContactsAssumption DEF Range

(* What has been judged stays judged. *)
LEMMA VerdictsGrow ==
    ASSUME CacheTypeOK, [CacheNext]_cacheVars, NEW h \in Handles
    PROVE  verdicts[h] \subseteq verdicts'[h]
<1>1. ASSUME NEW w \in Workers, NEW s \in Statuses, ValidatorAnswers(w, s)
      PROVE  verdicts[h] \subseteq verdicts'[h]
    BY <1>1 DEF ValidatorAnswers, CacheTypeOK
<1>2. ASSUME UNCHANGED verdicts
      PROVE  verdicts[h] \subseteq verdicts'[h]
    BY <1>2
<1> QED
    BY <1>1, <1>2
       DEF CacheNext, FlightStep, CancelContext, CacheHit, CacheMiss, LeadFlight,
           JoinFlight, ValidatorFails, FinishFlight, ReturnVerdict, cacheVars

(* A step keeps the types of the leads in hand. *)
LEMMA LeadTypeStep ==
    ASSUME LeadInv, [PipelineNext]_vars
    PROVE  LeadTypeOK'
<1>a. LeadTypeOK
    BY DEF LeadInv
<1> USE <1>a DEF LeadTypeOK, leadVars
<1>1. ASSUME NEW w \in Workers, NEW contacts \in ContactLists, ScrapeSucceeds(w, contacts)
      PROVE  LeadTypeOK'
    BY <1>1, RangeOfContacts, ContactsAssumption DEF ScrapeSucceeds
<1>2. ASSUME NEW w \in Workers, TakeVerdict(w)
      PROVE  LeadTypeOK'
    <2>1. vHandle[w] \in Handles /\ todo[w] # <<>>
        BY <1>2 DEF TakeVerdict, ReturnVerdict, LeadInv, AskingNext, CacheInv,
                    CacheTyped, AskingHandle
    <2>2. Tail(todo[w]) \in Seq(Handles)
        BY <2>1
    <2> QED
        BY <1>2, <2>1, <2>2 DEF TakeVerdict
<1>3. ASSUME UNCHANGED leadVars
      PROVE  LeadTypeOK'
    BY <1>3
<1>4. ASSUME NEW w \in Workers,
             \/ Receive(w) \/ ReceiveAndQuit(w) \/ Leave(w)
             \/ DedupFresh(w) \/ DedupRepeated(w) \/ ScrapeFails(w)
             \/ AskHandle(w) \/ ValidateHandle(w) \/ ValidationFails(w)
             \/ SaveSucceeds(w) \/ SaveFails(w)
             \/ EmitLead(w) \/ DropLead(w) \/ ReportError(w)
      PROVE  UNCHANGED leadVars
    BY <1>4 DEF Receive, ReceiveAndQuit, Leave, DedupFresh, DedupRepeated, ScrapeFails,
                AskHandle, ValidateHandle, ValidationFails, SaveSucceeds, SaveFails,
                EmitLead, DropLead, ReportError, ownVars
<1>5. CASE CloserStep \/ RunStep \/ Interrupt \/ Terminated \/ UNCHANGED vars
    BY <1>5, <1>3 DEF CloserStep, RunStep, CloseResults, CloseErrors, CollectLead,
                LeadsCollected, CollectError, ReturnLeads, Interrupt, Terminated,
                vars, ownVars
<1> QED
    BY <1>1, <1>2, <1>3, <1>4, <1>5 DEF PipelineNext, WorkerStep

(* The steps that leave alone what the lead in hand is made of. *)
LEMMA LeadVarsSame ==
    ASSUME PipelineNext,
           \A w \in Workers :
              ~TakeVerdict(w) /\ \A contacts \in ContactLists : ~ScrapeSucceeds(w, contacts)
    PROVE  UNCHANGED leadVars
BY DEF PipelineNext, WorkerStep, Receive, ReceiveAndQuit, Leave, DedupFresh,
       DedupRepeated, ScrapeFails, AskHandle, ValidateHandle, ValidationFails,
       SaveSucceeds, SaveFails, EmitLead, DropLead, ReportError, CloserStep, RunStep,
       CloseResults, CloseErrors, CollectLead, LeadsCollected, CollectError,
       ReturnLeads, Interrupt, Terminated, vars, ownVars

(* A step keeps a worker's lookup at the next handle of its lead. *)
LEMMA AskingNextStep ==
    ASSUME LeadInv, PoolTypeOK, [PipelineNext]_vars
    PROVE  AskingNext'
<1>a. AskingNext /\ CacheTypeOK /\ pc \in [Workers -> PcSteps]
    BY DEF LeadInv, CacheInv, CacheTyped, PoolTypeOK
<1> USE <1>a DEF AskingNext, leadVars
<1>1. ASSUME NEW w \in Workers, AskHandle(w)
      PROVE  AskingNext'
    BY <1>1 DEF AskHandle, CacheHit, CacheMiss, CacheTypeOK, ownVars, poolVars
<1>2. ASSUME NEW w \in Workers, ValidateHandle(w)
      PROVE  AskingNext'
    <2>1. UNCHANGED <<pc, todo, vHandle>>
        BY <1>2 DEF ValidateHandle, ownVars, poolVars, FlightStep, LeadFlight, JoinFlight,
                    ValidatorAnswers, ValidatorFails, FinishFlight
    <2>2. \A x \in Workers : vStep'[x] # "idle" => vStep[x] # "idle"
        BY <1>2 DEF ValidateHandle, FlightStep, LeadFlight, JoinFlight, CacheTypeOK,
                    ValidatorAnswers, ValidatorFails, FinishFlight, Party
    <2> QED
        BY <2>1, <2>2
<1>3. ASSUME NEW w \in Workers, TakeVerdict(w)
      PROVE  AskingNext'
    BY <1>3 DEF TakeVerdict, ReturnVerdict, CacheTypeOK, poolVars, LeadInv, LeadTypeOK
<1>4. ASSUME NEW w \in Workers, ValidationFails(w)
      PROVE  AskingNext'
    BY <1>4 DEF ValidationFails, ReturnVerdict, CacheTypeOK, Goto
<1>5. ASSUME NEW w \in Workers, NEW contacts \in ContactLists, ScrapeSucceeds(w, contacts)
      PROVE  AskingNext'
    BY <1>5 DEF ScrapeSucceeds, Goto, cacheVars, LeadInv, LeadTypeOK
<1>6. ASSUME NEW w \in Workers,
             Receive(w) \/ ReceiveAndQuit(w) \/ Leave(w) \/ DedupFresh(w) \/ ScrapeFails(w)
      PROVE  AskingNext'
    BY <1>6 DEF Receive, ReceiveAndQuit, Leave, DedupFresh, ScrapeFails, Goto, cacheVars
<1>7. ASSUME NEW w \in Workers, SaveSucceeds(w) \/ SaveFails(w)
      PROVE  AskingNext'
    BY <1>7 DEF SaveSucceeds, SaveFails, Validated, Goto, cacheVars
<1>8. ASSUME NEW w \in Workers,
             DedupRepeated(w) \/ EmitLead(w) \/ DropLead(w) \/ ReportError(w)
      PROVE  AskingNext'
    BY <1>8 DEF DedupRepeated, EmitLead, DropLead, ReportError, Release, cacheVars
<1>9. CASE CloserStep \/ RunStep
    BY <1>9 DEF CloserStep, RunStep, CloseResults, CloseErrors, CollectLead,
                LeadsCollected, CollectError, ReturnLeads, cacheVars, poolVars
<1>10. CASE Interrupt \/ Terminated \/ UNCHANGED vars
    BY <1>10 DEF Interrupt, CancelContext, Terminated, vars, ownVars, cacheVars, poolVars
<1> QED
    BY <1>1, <1>2, <1>3, <1>4, <1>5, <1>6, <1>7, <1>8, <1>9, <1>10
       DEF PipelineNext, WorkerStep

(* What a step leaves of the leads in hand stays judged. *)
LEMMA JudgedSame ==
    ASSUME LeadInv, [CacheNext]_cacheVars, NEW w \in Workers,
           kept'[w] = kept[w], listed'[w] = listed[w], todo'[w] = todo[w]
    PROVE  /\ \A h \in kept'[w] : Accepted(h)'
           /\ \A h \in listed'[w] :
                 h \in kept'[w] \/ h \in Range(todo'[w]) \/ Rejected(h)'
<1>1. \A h \in Handles : verdicts[h] \subseteq verdicts'[h]
    BY VerdictsGrow DEF LeadInv, CacheInv, CacheTyped
<1>2. kept[w] \subseteq Handles /\ listed[w] \subseteq Handles
    BY DEF LeadInv, LeadTypeOK
<1> QED
    BY <1>1, <1>2 DEF LeadInv, LeadJudged, Accepted, Rejected

(* A step keeps or drops a handle only on a verdict given for it. *)
LEMMA LeadJudgedStep ==
    ASSUME LeadInv, [PipelineNext]_vars
    PROVE  LeadJudged'
<1>a. [CacheNext]_cacheVars
    BY PipelineStepIsCacheStep DEF LeadInv
<1>b. LeadTypeOK
    BY DEF LeadInv
<1> USE <1>a, <1>b
<1>1. ASSUME NEW w \in Workers, NEW contacts \in ContactLists, ScrapeSucceeds(w, contacts)
      PROVE  LeadJudged'
    <2>1. kept'[w] = {} /\ listed'[w] = Range(contacts) /\ todo'[w] = contacts
        BY <1>1 DEF ScrapeSucceeds, LeadTypeOK
    <2>2. \A x \in Workers \ {w} :
            kept'[x] = kept[x] /\ listed'[x] = listed[x] /\ todo'[x] = todo[x]
        BY <1>1 DEF ScrapeSucceeds, LeadTypeOK
    <2> QED
        BY <2>1, <2>2, JudgedSame DEF LeadJudged
<1>2. ASSUME NEW w \in Workers, TakeVerdict(w)
      PROVE  LeadJudged'
    <2>1. /\ vHandle[w] \in Handles /\ vHandle[w] = Head(todo[w]) /\ todo[w] # <<>>
          /\ vReply[w] \in Statuses => vReply[w] \in verdicts[vHandle[w]]
        BY <1>2 DEF TakeVerdict, ReturnVerdict, LeadInv, AskingNext, CacheInv,
                    CacheTyped, AskingHandle, ReplyIsForHandle
    <2>2. vReply[w] \in Statuses \/ vReply[w] = Absent
        BY <1>2 DEF TakeVerdict, LeadInv, CacheInv, CacheTyped, CacheTypeOK
    <2>3. UNCHANGED verdicts
        BY <1>2 DEF TakeVerdict, ReturnVerdict
    <2>4. /\ listed'[w] = listed[w] /\ todo'[w] = Tail(todo[w])
          /\ kept'[w] = IF KeptStatus(vReply[w]) THEN kept[w] \cup {vHandle[w]} ELSE kept[w]
        BY <1>2 DEF TakeVerdict, LeadTypeOK
    <2>5. \A x \in Workers \ {w} :
            kept'[x] = kept[x] /\ listed'[x] = listed[x] /\ todo'[x] = todo[x]
        BY <1>2 DEF TakeVerdict, LeadTypeOK
    <2>6. vReply[w] \in verdicts[vHandle[w]]
        <3>1. vReply[w] # Absent
            BY <1>2 DEF TakeVerdict, ReturnVerdict, LeadInv, CacheInv, ReplyWhenAnswered
        <3> QED
            BY <2>1, <2>2, <3>1
    <2>7. \A h \in kept'[w] : Accepted(h)'
        BY <2>3, <2>4, <2>6 DEF Accepted, LeadInv, LeadJudged
    <2>8. \A h \in listed'[w] :
            h \in kept'[w] \/ h \in Range(todo'[w]) \/ Rejected(h)'
        <3> TAKE h \in listed'[w]
        <3>1. h \in kept[w] \/ h \in Range(todo[w]) \/ Rejected(h)
            BY <2>4 DEF LeadInv, LeadJudged
        <3>2. CASE h \in kept[w]
            BY <3>2, <2>4
        <3>3. CASE Rejected(h)
            BY <3>3, <2>3 DEF Rejected
        <3>4. CASE h \in Range(todo[w])
            <4>1. h = vHandle[w] \/ h \in Range(todo'[w])
                BY <3>4, <2>1, <2>4, RangeOfTail DEF LeadTypeOK
            <4>2. h = vHandle[w] => h \in kept'[w] \/ Rejected(h)'
                BY <2>3, <2>4, <2>6 DEF Rejected
            <4> QED
                BY <4>1, <4>2
        <3> QED
            BY <3>1, <3>2, <3>3, <3>4
    <2>9. \A x \in Workers \ {w} :
            /\ \A h \in kept'[x] : Accepted(h)'
            /\ \A h \in listed'[x] :
                  h \in kept'[x] \/ h \in Range(todo'[x]) \/ Rejected(h)'
        BY <2>5, JudgedSame
    <2> QED
        BY <2>7, <2>8, <2>9 DEF LeadJudged
<1>3. ASSUME UNCHANGED leadVars
      PROVE  LeadJudged'
    BY <1>3, JudgedSame DEF leadVars, LeadJudged
<1>4. CASE PipelineNext
    BY <1>1, <1>2, <1>3, <1>4, LeadVarsSame
<1>5. CASE UNCHANGED vars
    BY <1>3, <1>5 DEF vars, ownVars
<1> QED
    BY <1>4, <1>5

(* A step keeps what is known of the leads in hand. *)
LEMMA LeadInvStep ==
    ASSUME LeadInv, PoolTypeOK, [PipelineNext]_vars
    PROVE  LeadInv'
<1>1. CacheInv'
    BY PipelineStepIsCacheStep, CacheInvStep DEF LeadInv
<1> QED
    BY <1>1, LeadTypeStep, AskingNextStep, LeadJudgedStep DEF LeadInv

(* The handles of the leads in hand are judged by verdicts of their own. *)
LEMMA LeadInvHolds == PipelineSpec => []LeadInv
<1>1. PipelineInit => LeadInv
    <2> SUFFICES ASSUME PipelineInit PROVE LeadInv
        OBVIOUS
    <2>1. CacheInv /\ LeadTypeOK
        BY CacheInitInv, PipelineInitTyped DEF PipelineInit, PipelineTypeOK
    <2>2. AskingNext /\ LeadJudged
        BY DEF PipelineInit, CacheInit, AskingNext, LeadJudged
    <2> QED
        BY <2>1, <2>2 DEF LeadInv
<1>2. PoolInv /\ LeadInv /\ [PipelineNext]_vars => LeadInv'
    BY LeadInvStep DEF PoolInv
<1> QED
    BY <1>1, <1>2, PoolInvHolds, PTL DEF PipelineSpec

(* Run uses the lookup path as TelegramCache has it: a run of the pipeline  *)
(* is a run of TelegramCache, so what is proved of lookups holds in it.     *)
THEOREM PipelineKeepsCache == PipelineSpec => CacheSpec
<1>1. PipelineInit => CacheInit
    BY DEF PipelineInit
<1>2. LeadInv /\ [PipelineNext]_vars => [CacheNext]_cacheVars
    BY PipelineStepIsCacheStep DEF LeadInv
<1> QED
    BY <1>1, <1>2, LeadInvHolds, PTL DEF PipelineSpec, CacheSpec

-----------------------------------------------------------------------------
(* The store. *)

StoreInv == StoreTypeOK /\ RowHandlesJudged

(* Only SaveSucceeds touches the store. *)
LEMMA StoreVarsSame ==
    ASSUME PipelineNext, \A w \in Workers : ~SaveSucceeds(w)
    PROVE  UNCHANGED storeVars
BY DEF PipelineNext, WorkerStep, Receive, ReceiveAndQuit, Leave, DedupFresh,
       DedupRepeated, ScrapeFails, ScrapeSucceeds, AskHandle, ValidateHandle,
       TakeVerdict, ValidationFails, SaveFails, EmitLead, DropLead, ReportError,
       CloserStep, RunStep, CloseResults, CloseErrors, CollectLead, LeadsCollected,
       CollectError, ReturnLeads, Interrupt, Terminated, vars, ownVars

(* What has been accepted or rejected once stays so. *)
LEMMA JudgementsStay ==
    ASSUME LeadInv, [PipelineNext]_vars, NEW h \in Handles
    PROVE  (Accepted(h) => Accepted(h)') /\ (Rejected(h) => Rejected(h)')
<1>1. verdicts[h] \subseteq verdicts'[h]
    BY PipelineStepIsCacheStep, VerdictsGrow DEF LeadInv, CacheInv, CacheTyped
<1> QED
    BY <1>1 DEF Accepted, Rejected

(* RowHandlesJudged, with acceptance and rejection named. *)
LEMMA RowHandlesJudgedAlt ==
    RowHandlesJudged <=>
        \A j \in saved :
            /\ \A h \in rowKept[j] : Accepted(h)
            /\ \A h \in rowListed[j] \ rowKept[j] : Rejected(h)
BY DEF RowHandlesJudged, Accepted, Rejected

(* A step keeps the rows typed and their handles judged. *)
LEMMA StoreInvStep ==
    ASSUME PoolInv, LeadInv, StoreInv, [PipelineNext]_vars
    PROVE  StoreInv'
<1>a. StoreTypeOK /\ LeadTypeOK
    BY DEF StoreInv, LeadInv
<1>b. \A j \in saved :
         /\ \A h \in rowKept[j] : Accepted(h)
         /\ \A h \in rowListed[j] \ rowKept[j] : Rejected(h)
    BY RowHandlesJudgedAlt DEF StoreInv
<1>c. \A h \in Handles : (Accepted(h) => Accepted(h)') /\ (Rejected(h) => Rejected(h)')
    BY JudgementsStay
<1>d. \A j \in saved : rowKept[j] \subseteq Handles /\ rowListed[j] \subseteq Handles
    BY <1>a DEF StoreTypeOK
<1>e. \A j \in saved :
         /\ \A h \in rowKept[j] : Accepted(h)'
         /\ \A h \in rowListed[j] \ rowKept[j] : Rejected(h)'
    BY <1>b, <1>c, <1>d
<1>f. RowHandlesJudged' <=>
        \A j \in saved' :
            /\ \A h \in rowKept'[j] : Accepted(h)'
            /\ \A h \in rowListed'[j] \ rowKept'[j] : Rejected(h)'
    BY DEF RowHandlesJudged, Accepted, Rejected
<1>1. ASSUME NEW w \in Workers, SaveSucceeds(w)
      PROVE  StoreInv'
    <2>1. job[w] \in Jobs
        BY <1>1, BusyHasJob DEF SaveSucceeds, Validated, Busy
    <2>2. StoreTypeOK'
        BY <1>1, <1>a, <2>1 DEF SaveSucceeds, StoreTypeOK, LeadTypeOK
    <2>3. Range(todo[w]) = {}
        BY <1>1 DEF SaveSucceeds, Validated, Range
    <2>4. /\ \A h \in kept[w] : Accepted(h)
          /\ \A h \in listed[w] \ kept[w] : Rejected(h)
        BY <2>3 DEF LeadInv, LeadJudged
    <2>5. kept[w] \subseteq Handles /\ listed[w] \subseteq Handles
        BY <1>a DEF LeadTypeOK
    <2>6. /\ saved' = saved \cup {job[w]}
          /\ rowKept'[job[w]] = kept[w] /\ rowListed'[job[w]] = listed[w]
          /\ \A j \in saved \ {job[w]} :
                rowKept'[j] = rowKept[j] /\ rowListed'[j] = rowListed[j]
        BY <1>1, <1>a, <2>1 DEF SaveSucceeds, StoreTypeOK
    <2>7. RowHandlesJudged'
        BY <1>c, <1>e, <1>f, <2>4, <2>5, <2>6
    <2> QED
        BY <2>2, <2>7 DEF StoreInv
<1>2. ASSUME UNCHANGED storeVars
      PROVE  StoreInv'
    <2>1. saved' = saved /\ rowKept' = rowKept /\ rowListed' = rowListed
        BY <1>2 DEF storeVars
    <2>2. RowHandlesJudged'
        BY <1>e, <1>f, <2>1
    <2> QED
        BY <1>a, <2>1, <2>2 DEF StoreInv, StoreTypeOK
<1>3. CASE PipelineNext
    BY <1>1, <1>2, <1>3, StoreVarsSame
<1>4. CASE UNCHANGED vars
    BY <1>2, <1>4 DEF vars, ownVars
<1> QED
    BY <1>3, <1>4

(* The rows are typed and their handles judged. *)
LEMMA StoreInvHolds == PipelineSpec => []StoreInv
<1>1. PipelineInit => StoreInv
    BY PipelineInitTyped DEF PipelineInit, StoreInv, PipelineTypeOK, RowHandlesJudged
<1>2. PoolInv /\ LeadInv /\ StoreInv /\ [PipelineNext]_vars => StoreInv'
    BY StoreInvStep
<1> QED
    BY <1>1, <1>2, PoolInvHolds, LeadInvHolds, PTL DEF PipelineSpec

(* processTarget: a row that reaches the store holds exactly handles the    *)
(* validator accepted, whichever worker asked and whether the verdict came  *)
(* from the cache, from the worker's own call or from another's flight.     *)
THEOREM RowHandlesJudgedHolds == PipelineSpec => []RowHandlesJudged
<1>1. StoreInv => RowHandlesJudged
    BY DEF StoreInv
<1> QED
    BY <1>1, StoreInvHolds, PTL

(* The variables of Run keep their sets. *)
THEOREM PipelineTypeCorrect == PipelineSpec => []PipelineTypeOK
<1>1. PoolInv /\ LeadInv /\ StoreInv => PipelineTypeOK
    BY DEF PoolInv, LeadInv, StoreInv, CacheInv, CacheTyped, PipelineTypeOK
<1> QED
    BY <1>1, PoolInvHolds, LeadInvHolds, StoreInvHolds, PTL

-----------------------------------------------------------------------------
(***************************************************************************)
(* What Run's result and the store say once Run has returned, and why Run  *)
(* implements TargetLedger.                                                *)
(*                                                                         *)
(* ShutdownInv orders the end of a run: every worker is done before the    *)
(* channels are closed, results is empty before errors are drained, and so *)
(* on.  AccountInv says that each received job is settled in one way or in *)
(* hand, and ReportInv relates the settled jobs to the store.              *)
(***************************************************************************)
ShutdownInv ==
    /\ \A w \in Workers : pc[w] = "done" => taken = Len(Sources) \/ cancelled
    /\ skipped \cup dropped # {} => cancelled
    /\ resultsClosed => \A w \in Workers : pc[w] = "done"
    /\ errorsClosed => resultsClosed
    /\ main # "collecting" => resultsClosed /\ results = {}
    /\ main = "returned" => errorsClosed /\ jobErrors = {}
    /\ verdict = "none" <=> main # "returned"

(* The workers' steps that neither end a worker nor touch the end of a run. *)
LEMMA ShutdownWorkerStep ==
    ASSUME PoolTypeOK, ShutdownInv, NEW w \in Workers, WorkerStep(w)
    PROVE  ShutdownInv'
<1>a. pc \in [Workers -> PcSteps] /\ taken \in 0..Len(Sources)
    BY DEF PoolTypeOK
<1> USE <1>a DEF ShutdownInv, cacheVars, channelVars, runVars, historyVars, poolVars
<1>1. ASSUME Receive(w)
      PROVE  ShutdownInv'
    BY <1>1, JobsAreFinite DEF Receive
<1>2. ASSUME ReceiveAndQuit(w)
      PROVE  ShutdownInv'
    BY <1>2 DEF ReceiveAndQuit
<1>3. ASSUME Leave(w)
      PROVE  ShutdownInv'
    BY <1>3 DEF Leave, Goto
<1>4. ASSUME DedupFresh(w) \/ ScrapeFails(w) \/ SaveFails(w) \/ SaveSucceeds(w)
             \/ \E contacts \in ContactLists : ScrapeSucceeds(w, contacts)
      PROVE  ShutdownInv'
    BY <1>4 DEF DedupFresh, ScrapeFails, SaveFails, SaveSucceeds, ScrapeSucceeds,
                Validated, Goto
<1>5. ASSUME DedupRepeated(w)
      PROVE  ShutdownInv'
    BY <1>5 DEF DedupRepeated, Release
<1>6. ASSUME EmitLead(w)
      PROVE  ShutdownInv'
    BY <1>6 DEF EmitLead, Release
<1>7. ASSUME ReportError(w)
      PROVE  ShutdownInv'
    BY <1>7 DEF ReportError, Release
<1>8. ASSUME DropLead(w)
      PROVE  ShutdownInv'
    BY <1>8 DEF DropLead, Release
<1>9. ASSUME ValidationFails(w)
      PROVE  ShutdownInv'
    BY <1>9 DEF ValidationFails, ReturnVerdict, Goto
<1>10. ASSUME AskHandle(w) \/ ValidateHandle(w) \/ TakeVerdict(w)
       PROVE  ShutdownInv'
    <2>1. UNCHANGED cancelled
        BY <1>10 DEF AskHandle, ValidateHandle, TakeVerdict, CacheHit, CacheMiss,
                     FlightStep, LeadFlight, JoinFlight, ValidatorAnswers,
                     ValidatorFails, FinishFlight, ReturnVerdict
    <2> QED
        BY <1>10, <2>1 DEF AskHandle, ValidateHandle, TakeVerdict, ownVars
<1> QED
    BY <1>1, <1>2, <1>3, <1>4, <1>5, <1>6, <1>7, <1>8, <1>9, <1>10 DEF WorkerStep

(* A step keeps the order in which a run ends. *)
LEMMA ShutdownInvStep ==
    ASSUME PoolInv, ShutdownInv, [PipelineNext]_vars
    PROVE  ShutdownInv'
<1>a. RunTypeOK /\ PoolTypeOK
    BY DEF PoolInv
<1>1. ASSUME NEW w \in Workers, WorkerStep(w)
      PROVE  ShutdownInv'
    BY <1>1, <1>a, ShutdownWorkerStep
<1> USE DEF ShutdownInv, cacheVars, channelVars, runVars, historyVars, poolVars
<1>2. CASE CloserStep
    BY <1>2 DEF CloserStep, CloseResults, CloseErrors
<1>3. CASE CollectLead \/ CollectError
    BY <1>3 DEF CollectLead, CollectError
<1>4. CASE LeadsCollected
    BY <1>4 DEF LeadsCollected
<1>5. CASE ReturnLeads
    BY <1>5 DEF ReturnLeads
<1>6. CASE Interrupt
    BY <1>6, <1>a DEF Interrupt, CancelContext, ownVars, PoolTypeOK
<1>7. CASE Terminated \/ UNCHANGED vars
    BY <1>7 DEF Terminated, vars, ownVars
<1> QED
    BY <1>1, <1>2, <1>3, <1>4, <1>5, <1>6, <1>7 DEF PipelineNext, RunStep

(* A run ends in order: workers, channels, leads, errors, Run. *)
LEMMA ShutdownInvHolds == PipelineSpec => []ShutdownInv
<1>1. PipelineInit => ShutdownInv
    BY DEF PipelineInit, ShutdownInv
<1>2. PoolInv /\ ShutdownInv /\ [PipelineNext]_vars => ShutdownInv'
    BY ShutdownInvStep
<1> QED
    BY <1>1, <1>2, PoolInvHolds, PTL DEF PipelineSpec

(* Once Run has returned, every worker is done and no step of the pool, of  *)
(* the closer or of Run is left.                                            *)
LEMMA NothingAfterReturn ==
    ASSUME LeadInv, ShutdownInv, [PipelineNext]_vars, main = "returned"
    PROVE  UNCHANGED <<ownVars, tgCache, tgFlight>>
<1>1. \A w \in Workers : pc[w] = "done"
    BY DEF ShutdownInv
<1>2. \A w \in Workers : vStep[w] = "idle"
    BY <1>1 DEF LeadInv, AskingNext
<1>3. ASSUME NEW w \in Workers, WorkerStep(w)
      PROVE  FALSE
    BY <1>1, <1>2, <1>3
       DEF WorkerStep, Receive, ReceiveAndQuit, Leave, DedupFresh, DedupRepeated,
           ScrapeFails, ScrapeSucceeds, AskHandle, ValidateHandle, FlightStep,
           LeadFlight, JoinFlight, ValidatorAnswers, ValidatorFails, FinishFlight,
           TakeVerdict, ValidationFails, SaveSucceeds, SaveFails, Validated,
           EmitLead, DropLead, ReportError
<1>4. ~CloserStep /\ ~RunStep
    BY DEF ShutdownInv, CloserStep, CloseResults, CloseErrors, RunStep,
           CollectLead, LeadsCollected, CollectError, ReturnLeads
<1>5. CASE Interrupt
    BY <1>5 DEF Interrupt, CancelContext
<1>6. CASE Terminated \/ UNCHANGED vars
    BY <1>6 DEF Terminated, vars, cacheVars
<1> QED
    BY <1>3, <1>4, <1>5, <1>6 DEF PipelineNext

(* Manager.Run: nothing of the pool moves once Run has returned.            *)
THEOREM NoWorkAfterReturnHolds == PipelineSpec => NoWorkAfterReturn
<1>1. LeadInv /\ ShutdownInv /\ [PipelineNext]_vars =>
        [main = "returned" => UNCHANGED <<ownVars, tgCache, tgFlight>>]_vars
    BY NothingAfterReturn
<1> QED
    BY <1>1, LeadInvHolds, ShutdownInvHolds, PTL DEF PipelineSpec, NoWorkAfterReturn

-----------------------------------------------------------------------------
(* Every received job is settled or in some worker's hand, in one column.  *)

HasLead  == results \cup leads
HasError == jobErrors \cup runErrors

Received ==
    \A j \in 1..taken : j \in Settled \/ \E w \in Workers : Busy(w) /\ job[w] = j

ColumnsApart ==
    /\ HasLead \cap HasError = {}
    /\ dropped \cap (HasLead \cup HasError) = {}
    /\ repeated \cap skipped = {}
    /\ HasLead \cup HasError \cup dropped \subseteq scraped
    /\ (repeated \cup skipped) \cap scraped = {}

(* Every saved lead is reported, taken away by the end of the context, or   *)
(* on its way; nothing is reported that is not saved.                       *)
Reported ==
    /\ HasLead \cup dropped \subseteq saved
    /\ \A w \in Workers : pc[w] = "emitting" => job[w] \in saved
    /\ \A j \in saved :
          j \in HasLead \cup dropped \/ \E w \in Workers : pc[w] = "emitting" /\ job[w] = j

(* A step neither loses a received job nor invents one. *)
LEMMA ReceivedStep ==
    ASSUME PoolInv, Received, [PipelineNext]_vars
    PROVE  Received'
<1>a. PoolTypeOK /\ HandsApart
    BY DEF PoolInv
<1>1. ASSUME NEW w \in Workers, Receive(w)
      PROVE  Received'
    <2>1. Settled' = Settled /\ taken' = taken + 1 /\ taken \in Nat
        BY <1>1, <1>a, JobsAreFinite
           DEF Receive, Settled, channelVars, historyVars, PoolTypeOK
    <2>2. job'[w] = taken + 1 /\ pc'[w] = "dedup" /\ pc[w] = "idle"
        BY <1>1, <1>a DEF Receive, PoolTypeOK
    <2>3. \A x \in Workers \ {w} : pc'[x] = pc[x] /\ job'[x] = job[x]
        BY <1>1, <1>a DEF Receive, PoolTypeOK
    <2> QED
        BY <2>1, <2>2, <2>3 DEF Received, Busy
<1>2. ASSUME NEW w \in Workers, ReceiveAndQuit(w)
      PROVE  Received'
    <2>1. Settled' = Settled \cup {taken + 1} /\ taken' = taken + 1 /\ taken \in Nat
        BY <1>2, <1>a, JobsAreFinite DEF ReceiveAndQuit, Settled, channelVars, PoolTypeOK
    <2>2. pc[w] = "idle" /\ job' = job /\ \A x \in Workers \ {w} : pc'[x] = pc[x]
        BY <1>2, <1>a DEF ReceiveAndQuit, PoolTypeOK
    <2> QED
        BY <2>1, <2>2 DEF Received, Busy
<1>3. ASSUME NEW w \in Workers, NEW step \in PcSteps, Goto(w, step),
             Busy(w) <=> step \notin {"idle", "done"}, Settled' = Settled
      PROVE  Received'
    <2>1. UNCHANGED <<taken, job>> /\ \A x \in Workers : Busy(x)' <=> Busy(x)
        BY <1>3, <1>a DEF Goto, PoolTypeOK, Busy
    <2> QED
        BY <1>3, <2>1 DEF Received
<1>4. ASSUME NEW w \in Workers, NEW step \in {"idle", "done"}, Release(w, step),
             Settled' = Settled \cup {job[w]}
      PROVE  Received'
    <2>1. UNCHANGED taken
        BY <1>4 DEF Release
    <2>2. \A x \in Workers \ {w} : pc'[x] = pc[x] /\ job'[x] = job[x]
        BY <1>4, <1>a DEF Release, PoolTypeOK
    <2> QED
        BY <1>4, <2>1, <2>2 DEF Received, Busy
<1>5. ASSUME UNCHANGED <<taken, pc, job>>, Settled' = Settled
      PROVE  Received'
    BY <1>5 DEF Received, Busy
<1>6. ASSUME NEW w \in Workers, DedupFresh(w)
      PROVE  Received'
    <2>1. Settled' = Settled /\ Goto(w, "scraping") /\ Busy(w)
        BY <1>6 DEF DedupFresh, Settled, channelVars, Busy
    <2> QED
        BY <2>1, <1>3 DEF PcSteps
<1>7. ASSUME NEW w \in Workers, Leave(w)
      PROVE  Received'
    <2>1. Settled' = Settled /\ Goto(w, "done") /\ ~Busy(w)
        BY <1>7 DEF Leave, Settled, channelVars, historyVars, Busy
    <2> QED
        BY <2>1, <1>3 DEF PcSteps
<1>8. ASSUME NEW w \in Workers,
             \/ ScrapeFails(w) \/ ValidationFails(w) \/ SaveFails(w) \/ SaveSucceeds(w)
             \/ \E contacts \in ContactLists : ScrapeSucceeds(w, contacts)
      PROVE  Received'
    <2>1. PICK step \in {"failing", "emitting", "validating"} : Goto(w, step)
        BY <1>8 DEF ScrapeFails, ValidationFails, SaveFails, SaveSucceeds, ScrapeSucceeds
    <2>2. Settled' = Settled /\ Busy(w)
        BY <1>8 DEF ScrapeFails, ValidationFails, SaveFails, SaveSucceeds, ScrapeSucceeds,
                    Validated, Settled, channelVars, historyVars, Busy
    <2> QED
        BY <2>1, <2>2, <1>3 DEF PcSteps
<1>9. ASSUME NEW w \in Workers,
             DedupRepeated(w) \/ EmitLead(w) \/ ReportError(w) \/ DropLead(w)
      PROVE  Received'
    <2>1. PICK step \in {"idle", "done"} : Release(w, step)
        BY <1>9 DEF DedupRepeated, EmitLead, ReportError, DropLead
    <2>2. Settled' = Settled \cup {job[w]}
        BY <1>9 DEF DedupRepeated, EmitLead, ReportError, DropLead, Settled, channelVars,
                    historyVars
    <2> QED
        BY <2>1, <2>2, <1>4
<1>10. ASSUME NEW w \in Workers, AskHandle(w) \/ ValidateHandle(w) \/ TakeVerdict(w)
       PROVE  Received'
    BY <1>10, <1>5 DEF AskHandle, ValidateHandle, TakeVerdict, ownVars, poolVars,
                       channelVars, historyVars, Settled
<1>11. CASE CloserStep \/ RunStep
    <2>1. UNCHANGED <<taken, pc, job>>
        BY <1>11 DEF CloserStep, CloseResults, CloseErrors, RunStep, CollectLead,
                     LeadsCollected, CollectError, ReturnLeads, poolVars
    <2>2. Settled' = Settled
        BY <1>11 DEF CloserStep, CloseResults, CloseErrors, RunStep, CollectLead,
                     LeadsCollected, CollectError, ReturnLeads, channelVars,
                     historyVars, Settled
    <2> QED
        BY <1>5, <2>1, <2>2
<1>12. CASE Interrupt \/ Terminated \/ UNCHANGED vars
    BY <1>12, <1>5 DEF Interrupt, Terminated, vars, ownVars, poolVars, channelVars,
                       historyVars, Settled
<1> QED
    BY <1>1, <1>2, <1>6, <1>7, <1>8, <1>9, <1>10, <1>11, <1>12 DEF PipelineNext, WorkerStep

(* A step keeps the columns of settled jobs apart. *)
LEMMA ColumnsApartStep ==
    ASSUME PoolInv, KeysInv, ColumnsApart, [PipelineNext]_vars
    PROVE  ColumnsApart'
<1>a. /\ scraped \subseteq 1..taken /\ taken \in Nat
      /\ \A w \in Workers : InScraping(w) => job[w] \in scraped
      /\ \A w \in Workers : pc[w] = "dedup" => job[w] \notin scraped
    BY JobsAreFinite DEF KeysInv, KeysOwned, PoolInv, PoolTypeOK
<1>b. /\ \A w \in Workers : Busy(w) => job[w] \in 1..taken /\ job[w] \notin Settled
      /\ Settled \subseteq 1..taken
    BY DEF PoolInv, HandsApart
<1> USE DEF ColumnsApart, HasLead, HasError
<1>1. ASSUME NEW w \in Workers, ReceiveAndQuit(w)
      PROVE  ColumnsApart'
    <2>1. taken + 1 \notin scraped /\ taken + 1 \notin repeated
        BY <1>a, <1>b DEF Settled
    <2> QED
        BY <1>1, <2>1 DEF ReceiveAndQuit, channelVars
<1>2. ASSUME NEW w \in Workers, DedupFresh(w)
      PROVE  ColumnsApart'
    <2>1. job[w] \notin Settled
        BY <1>2, <1>b DEF DedupFresh, Busy
    <2> QED
        BY <1>2, <2>1 DEF DedupFresh, channelVars, Settled
<1>3. ASSUME NEW w \in Workers, DedupRepeated(w)
      PROVE  ColumnsApart'
    <2>1. job[w] \notin Settled /\ job[w] \notin scraped
        BY <1>3, <1>a, <1>b DEF DedupRepeated, Busy
    <2> QED
        BY <1>3, <2>1 DEF DedupRepeated, channelVars, Settled
<1>4. ASSUME NEW w \in Workers, EmitLead(w) \/ ReportError(w) \/ DropLead(w)
      PROVE  ColumnsApart'
    <2>1. job[w] \notin Settled /\ job[w] \in scraped
        BY <1>4, <1>a, <1>b DEF EmitLead, ReportError, DropLead, Busy, InScraping
    <2> QED
        BY <1>4, <2>1 DEF EmitLead, ReportError, DropLead, channelVars, historyVars, Settled
<1>5. ASSUME NEW w \in Workers,
             \/ Receive(w) \/ Leave(w)
             \/ ScrapeFails(w) \/ ValidationFails(w) \/ SaveFails(w) \/ SaveSucceeds(w)
             \/ \E contacts \in ContactLists : ScrapeSucceeds(w, contacts)
             \/ AskHandle(w) \/ ValidateHandle(w) \/ TakeVerdict(w)
      PROVE  ColumnsApart'
    BY <1>5 DEF Receive, Leave, ScrapeFails, ValidationFails, SaveFails, SaveSucceeds,
                ScrapeSucceeds, AskHandle, ValidateHandle, TakeVerdict, ownVars,
                channelVars, historyVars
<1>6. CASE CloserStep \/ RunStep
    BY <1>6 DEF CloserStep, CloseResults, CloseErrors, RunStep, CollectLead,
                LeadsCollected, CollectError, ReturnLeads, channelVars, historyVars
<1>7. CASE Interrupt \/ Terminated \/ UNCHANGED vars
    BY <1>7 DEF Interrupt, Terminated, vars, ownVars, channelVars, historyVars
<1> QED
    BY <1>1, <1>2, <1>3, <1>4, <1>5, <1>6, <1>7 DEF PipelineNext, WorkerStep

AccountInv == Received /\ ColumnsApart

(* Every received job is settled in one way or in hand. *)
LEMMA AccountInvHolds == PipelineSpec => []AccountInv
<1>1. PipelineInit => AccountInv
    BY DEF PipelineInit, AccountInv, Received, ColumnsApart, HasLead, HasError
<1>2. PoolInv /\ KeysInv /\ AccountInv /\ [PipelineNext]_vars => AccountInv'
    BY ReceivedStep, ColumnsApartStep DEF AccountInv
<1> QED
    BY <1>1, <1>2, PoolInvHolds, KeysInvHolds, PTL DEF PipelineSpec

(* A step keeps reports and rows in correspondence. *)
LEMMA ReportedStep ==
    ASSUME PoolInv, Reported, [PipelineNext]_vars
    PROVE  Reported'
<1>a. PoolTypeOK /\ HandsApart
    BY DEF PoolInv
<1> USE DEF Reported, HasLead
<1>1. ASSUME NEW w \in Workers, SaveSucceeds(w)
      PROVE  Reported'
    <2>1. /\ saved' = saved \cup {job[w]} /\ UNCHANGED <<job, results, leads, dropped>>
          /\ pc[w] = "validating" /\ pc'[w] = "emitting"
          /\ \A x \in Workers \ {w} : pc'[x] = pc[x]
        BY <1>1, <1>a DEF SaveSucceeds, Validated, Goto, PoolTypeOK, channelVars, historyVars
    <2> QED
        BY <2>1
<1>2. ASSUME NEW w \in Workers, EmitLead(w) \/ DropLead(w)
      PROVE  Reported'
    <2>1. /\ HasLead' \cup dropped' = HasLead \cup dropped \cup {job[w]}
          /\ UNCHANGED saved
        BY <1>2 DEF EmitLead, DropLead, channelVars, historyVars, storeVars
    <2>2. /\ pc[w] = "emitting" /\ pc'[w] # "emitting"
          /\ \A x \in Workers \ {w} : pc'[x] = pc[x] /\ job'[x] = job[x]
        BY <1>2, <1>a DEF EmitLead, DropLead, Release, PoolTypeOK
    <2> QED
        BY <2>1, <2>2
<1>3. ASSUME NEW w \in Workers,
             \/ Receive(w) \/ ReceiveAndQuit(w) \/ Leave(w)
             \/ DedupFresh(w) \/ DedupRepeated(w) \/ ReportError(w)
             \/ ScrapeFails(w) \/ ValidationFails(w) \/ SaveFails(w)
             \/ \E contacts \in ContactLists : ScrapeSucceeds(w, contacts)
      PROVE  Reported'
    <2>1. UNCHANGED <<saved, results, leads, dropped>>
        BY <1>3 DEF Receive, ReceiveAndQuit, Leave, DedupFresh, DedupRepeated, ReportError,
                    ScrapeFails, ValidationFails, SaveFails, ScrapeSucceeds,
                    channelVars, historyVars, storeVars
    <2>2. /\ pc[w] # "emitting" /\ pc'[w] # "emitting"
          /\ \A x \in Workers \ {w} : pc'[x] = pc[x] /\ job'[x] = job[x]
        BY <1>3, <1>a DEF Receive, ReceiveAndQuit, Leave, DedupFresh, DedupRepeated,
                    ReportError, ScrapeFails, ValidationFails, SaveFails, Validated,
                    ScrapeSucceeds, Goto, Release, PoolTypeOK
    <2> QED
        BY <2>1, <2>2
<1>4. ASSUME UNCHANGED <<pc, job, saved, dropped>>, HasLead' = HasLead
      PROVE  Reported'
    BY <1>4
<1>5. ASSUME NEW w \in Workers, AskHandle(w) \/ ValidateHandle(w) \/ TakeVerdict(w)
      PROVE  Reported'
    BY <1>4, <1>5 DEF AskHandle, ValidateHandle, TakeVerdict, ownVars, poolVars,
                      channelVars, historyVars, storeVars
<1>6. CASE CloserStep \/ RunStep
    <2>1. UNCHANGED <<pc, job, saved, dropped>>
        BY <1>6 DEF CloserStep, CloseResults, CloseErrors, RunStep, CollectLead,
                    LeadsCollected, CollectError, ReturnLeads, poolVars, historyVars, storeVars
    <2>2. HasLead' = HasLead
        BY <1>6 DEF CloserStep, CloseResults, CloseErrors, RunStep, CollectLead,
                    LeadsCollected, CollectError, ReturnLeads, channelVars
    <2> QED
        BY <1>4, <2>1, <2>2
<1>7. CASE Interrupt \/ Terminated \/ UNCHANGED vars
    BY <1>4, <1>7 DEF Interrupt, Terminated, vars, ownVars, poolVars, channelVars,
                      historyVars, storeVars
<1> QED
    BY <1>1, <1>2, <1>3, <1>5, <1>6, <1>7 DEF PipelineNext, WorkerStep

(* Reported leads are saved; saved ones are reported, dropped or in hand. *)
LEMMA ReportedHolds == PipelineSpec => []Reported
<1>1. PipelineInit => Reported
    BY DEF PipelineInit, Reported, HasLead
<1>2. PoolInv /\ Reported /\ [PipelineNext]_vars => Reported'
    BY ReportedStep
<1> QED
    BY <1>1, <1>2, PoolInvHolds, PTL DEF PipelineSpec

(* Manager.Run and SaveLead: no lead is reported that is not in the store,  *)
(* and once Run has returned the store has, beyond the reported leads, only *)
(* those the end of the context took away.                                  *)
THEOREM StoreMatchesReportHolds == PipelineSpec => []StoreMatchesReport
<1>1. ShutdownInv /\ Reported => StoreMatchesReport
    <2> SUFFICES ASSUME ShutdownInv, Reported PROVE StoreMatchesReport
        OBVIOUS
    <2>1. leads \cup results \subseteq saved
        BY DEF Reported, HasLead
    <2>2. ASSUME main = "returned"
          PROVE  saved = leads \cup dropped
        <3>1. results = {} /\ \A w \in Workers : pc[w] = "done"
            BY <2>2 DEF ShutdownInv
        <3> QED
            BY <3>1 DEF Reported, HasLead
    <2> QED
        BY <2>1, <2>2 DEF StoreMatchesReport
<1> QED
    BY <1>1, ShutdownInvHolds, ReportedHolds, PTL

-----------------------------------------------------------------------------
(* What Run's error says. *)

(* Once the pool is done without an interrupt, every key has a lead or an error. *)
LEMMA AllAccounted ==
    ASSUME PoolInv, KeysInv, ShutdownInv, AccountInv, ReturnLeads, ~cancelled
    PROVE  \A i \in Jobs : \E j \in leads \cup runErrors : Sources[i] = Sources[j]
<1>1. /\ \A w \in Workers : pc[w] = "done"
      /\ results = {} /\ jobErrors = {} /\ skipped = {} /\ dropped = {}
    BY DEF ReturnLeads, ShutdownInv
<1>2. taken = Len(Sources)
    BY <1>1, PoolAssumption DEF ShutdownInv
<1>3. \A j \in Jobs : j \in leads \cup runErrors \cup repeated
    BY <1>1, <1>2 DEF AccountInv, Received, Settled, Busy, Jobs
<1>4. ASSUME NEW i \in repeated
      PROVE  \E j \in leads \cup runErrors : Sources[i] = Sources[j]
    <2>1. PICK j \in scraped : Sources[j] = Sources[i]
        BY DEF KeysInv, KeysOwned
    <2>2. j \in Jobs /\ j \notin repeated
        BY DEF PoolInv, HistoryTypeOK, AccountInv, ColumnsApart
    <2> QED
        BY <1>3, <2>1, <2>2
<1> QED
    BY <1>3, <1>4

(* The step on which Run returns finds every key accounted for. *)
LEMMA ReturnAccountsStep ==
    ASSUME PoolInv, KeysInv, LeadInv, ShutdownInv, AccountInv, ReturnAccountsForAll,
           [PipelineNext]_vars
    PROVE  ReturnAccountsForAll'
<1>1. CASE main = "returned"
    BY <1>1, NothingAfterReturn DEF ReturnAccountsForAll, ownVars, channelVars, runVars
<1>2. CASE ReturnLeads
    <2>1. UNCHANGED <<leads, runErrors>>
        BY <1>2 DEF ReturnLeads, channelVars
    <2>2. verdict' = IF cancelled THEN "cancelled"
                     ELSE IF runErrors # {} THEN "failed" ELSE "nil"
        BY <1>2 DEF ReturnLeads
    <2>3. leads \cap runErrors = {}
        BY DEF AccountInv, ColumnsApart, HasLead, HasError
    <2> QED
        BY <1>2, <2>1, <2>2, <2>3, AllAccounted DEF ReturnAccountsForAll
<1>3. CASE main # "returned" /\ ~ReturnLeads
    <2>1. verdict = "none"
        BY <1>3 DEF ShutdownInv
    <2>2. UNCHANGED verdict
        BY <1>3 DEF PipelineNext, WorkerStep, Receive, ReceiveAndQuit, Leave, DedupFresh,
               DedupRepeated, ScrapeFails, ScrapeSucceeds, AskHandle, ValidateHandle,
               TakeVerdict, ValidationFails, SaveSucceeds, SaveFails, EmitLead, DropLead,
               ReportError, CloserStep, RunStep, CloseResults, CloseErrors, CollectLead,
               LeadsCollected, CollectError, Interrupt, Terminated, vars, ownVars, runVars
    <2> QED
        BY <2>1, <2>2 DEF ReturnAccountsForAll
<1> QED
    BY <1>1, <1>2, <1>3

(* Manager.Run: a run nobody interrupted accounts for every source, and a   *)
(* nil error means a lead for every distinct one.                           *)
THEOREM ReturnAccountsForAllHolds == PipelineSpec => []ReturnAccountsForAll
<1>1. PipelineInit => ReturnAccountsForAll
    BY DEF PipelineInit, ReturnAccountsForAll
<1>2. /\ PoolInv /\ KeysInv /\ LeadInv /\ ShutdownInv /\ AccountInv
      /\ ReturnAccountsForAll /\ [PipelineNext]_vars
      => ReturnAccountsForAll'
    BY ReturnAccountsStep
<1> QED
    BY <1>1, <1>2, PoolInvHolds, KeysInvHolds, LeadInvHolds, ShutdownInvHolds,
       AccountInvHolds, PTL DEF PipelineSpec

-----------------------------------------------------------------------------
(*****************************************************************************)
(* Pipeline implements TargetLedger: each step of the workers, the closer    *)
(* or Run either moves one target between two columns the way the ledger     *)
(* allows, or leaves every column as it was.                                 *)
(*                                                                           *)
(* The ledger's bound on targets in hand and lost needs one more invariant   *)
(* of the pool: a lost target is one whose worker has ended, so there are    *)
(* at most as many of them as ended workers.                                 *)
(*****************************************************************************)
Done == {w \in Workers : pc[w] = "done"}

LostJobs == skipped \cup dropped

LostBounded ==
    IsFiniteSet(LostJobs) /\ Cardinality(LostJobs) <= Cardinality(Done)

(* A job is lost together with its worker. *)
LEMMA LoseOne ==
    ASSUME LostBounded, NEW w \in Workers, w \notin Done, NEW j,
           LostJobs' = LostJobs \cup {j}, Done' = Done \cup {w}
    PROVE  LostBounded'
<1>1. IsFiniteSet(Done)
    BY PoolAssumption, FS_Subset DEF Done
<1>2. IsFiniteSet(Done \cup {w}) /\ Cardinality(Done \cup {w}) = Cardinality(Done) + 1
    BY <1>1, FS_AddElement
<1>3. /\ IsFiniteSet(LostJobs \cup {j})
      /\ Cardinality(LostJobs \cup {j}) =
            IF j \in LostJobs THEN Cardinality(LostJobs) ELSE Cardinality(LostJobs) + 1
    BY FS_AddElement DEF LostBounded
<1>4. Cardinality(Done) \in Nat /\ Cardinality(LostJobs) \in Nat
    BY <1>1, FS_CardinalityType DEF LostBounded
<1> QED
    BY <1>2, <1>3, <1>4 DEF LostBounded

(* A worker may end without losing a job; none comes back. *)
LEMMA LoseNone ==
    ASSUME LostBounded, LostJobs' = LostJobs, Done \subseteq Done'
    PROVE  LostBounded'
<1>1. IsFiniteSet(Done') /\ IsFiniteSet(Done)
    BY PoolAssumption, FS_Subset DEF Done
<1>2. Cardinality(Done) <= Cardinality(Done')
    BY <1>1, FS_Subset
<1>3. Cardinality(Done) \in Nat /\ Cardinality(Done') \in Nat /\ Cardinality(LostJobs) \in Nat
    BY <1>1, FS_CardinalityType DEF LostBounded
<1> QED
    BY <1>2, <1>3 DEF LostBounded

(* A worker that ends loses at most the job it had or received. *)
LEMMA LostBoundedStep ==
    ASSUME PoolTypeOK, LostBounded, [PipelineNext]_vars
    PROVE  LostBounded'
<1>a. pc \in [Workers -> PcSteps]
    BY DEF PoolTypeOK
<1>1. ASSUME NEW w \in Workers, ReceiveAndQuit(w)
      PROVE  LostBounded'
    <2>1. LostJobs' = LostJobs \cup {taken + 1}
        BY <1>1 DEF ReceiveAndQuit, LostJobs
    <2>2. Done' = Done \cup {w} /\ w \notin Done
        BY <1>1, <1>a DEF ReceiveAndQuit, Done
    <2> QED
        BY <2>1, <2>2, LoseOne
<1>2. ASSUME NEW w \in Workers, DropLead(w)
      PROVE  LostBounded'
    <2>1. LostJobs' = LostJobs \cup {job[w]}
        BY <1>2 DEF DropLead, LostJobs
    <2>2. Done' = Done \cup {w} /\ w \notin Done
        BY <1>2, <1>a DEF DropLead, Release, Done
    <2> QED
        BY <2>1, <2>2, LoseOne
<1>3. ASSUME NEW w \in Workers,
             \/ Receive(w) \/ Leave(w) \/ DedupFresh(w) \/ DedupRepeated(w)
             \/ EmitLead(w) \/ ReportError(w)
             \/ ScrapeFails(w) \/ ValidationFails(w) \/ SaveFails(w) \/ SaveSucceeds(w)
             \/ \E contacts \in ContactLists : ScrapeSucceeds(w, contacts)
      PROVE  LostBounded'
    <2>1. LostJobs' = LostJobs
        BY <1>3 DEF Receive, Leave, DedupFresh, DedupRepeated, EmitLead, ReportError,
                    ScrapeFails, ValidationFails, SaveFails, SaveSucceeds,
                    ScrapeSucceeds, historyVars, LostJobs
    <2>2. Done \subseteq Done'
        BY <1>3, <1>a
           DEF Receive, Leave, DedupFresh, DedupRepeated, EmitLead, ReportError,
               ScrapeFails, ValidationFails, SaveFails, SaveSucceeds, Validated,
               ScrapeSucceeds, Goto, Release, Done
    <2> QED
        BY <2>1, <2>2, LoseNone
<1>4. ASSUME UNCHANGED <<pc, skipped, dropped>>
      PROVE  LostBounded'
    BY <1>4, LoseNone DEF LostJobs, Done
<1>5. ASSUME NEW w \in Workers, AskHandle(w) \/ ValidateHandle(w) \/ TakeVerdict(w)
      PROVE  LostBounded'
    BY <1>4, <1>5 DEF AskHandle, ValidateHandle, TakeVerdict, ownVars, poolVars, historyVars
<1>6. CASE CloserStep \/ RunStep \/ Interrupt \/ Terminated \/ UNCHANGED vars
    BY <1>4, <1>6 DEF CloserStep, CloseResults, CloseErrors, RunStep, CollectLead,
                      LeadsCollected, CollectError, ReturnLeads, Interrupt, Terminated,
                      vars, ownVars, poolVars, historyVars
<1> QED
    BY <1>1, <1>2, <1>3, <1>5, <1>6 DEF PipelineNext, WorkerStep

(* At most as many jobs are lost as workers have ended. *)
LEMMA LostBoundedHolds == PipelineSpec => []LostBounded
<1>1. PipelineInit => LostBounded
    <2> SUFFICES ASSUME PipelineInit PROVE LostBounded
        OBVIOUS
    <2>1. LostJobs = {}
        BY DEF PipelineInit, LostJobs
    <2>2. IsFiniteSet(Done)
        BY PoolAssumption, FS_Subset DEF Done
    <2> QED
        BY <2>1, <2>2, FS_EmptySet, FS_CardinalityType DEF LostBounded
<1>2. PoolInv /\ LostBounded /\ [PipelineNext]_vars => LostBounded'
    BY LostBoundedStep DEF PoolInv
<1> QED
    BY <1>1, <1>2, PoolInvHolds, PTL DEF PipelineSpec

-----------------------------------------------------------------------------
(* Where a job stands. *)

(* The column of a job, told by the sets it is in. *)
LEMMA ColumnMeaning ==
    ASSUME PoolInv, AccountInv, NEW j \in Jobs
    PROVE  /\ Column(j) = "lead" <=> j \in HasLead
           /\ Column(j) = "failed" <=> j \in HasError
           /\ Column(j) = "repeated" <=> j \in repeated
           /\ Column(j) = "skipped" <=> j \in skipped
           /\ Column(j) = "dropped" <=> j \in dropped
           /\ Column(j) = "admitted" <=> InHand(j)
           /\ Column(j) = "queued" <=> j \notin Settled /\ ~InHand(j)
<1>1. InHand(j) => j \notin Settled
    BY DEF InHand, PoolInv, HandsApart, Busy
<1>2. ColumnsApart
    BY DEF AccountInv
<1>3. CASE j \in HasLead
    BY <1>1, <1>2, <1>3 DEF Column, ColumnsApart, HasLead, HasError, Settled
<1>4. CASE j \in HasError
    BY <1>1, <1>2, <1>4 DEF Column, ColumnsApart, HasLead, HasError, Settled
<1>5. CASE j \in repeated
    BY <1>1, <1>2, <1>5 DEF Column, ColumnsApart, HasLead, HasError, Settled
<1>6. CASE j \in skipped
    BY <1>1, <1>2, <1>6 DEF Column, ColumnsApart, HasLead, HasError, Settled
<1>7. CASE j \in dropped
    BY <1>1, <1>2, <1>7 DEF Column, ColumnsApart, HasLead, HasError, Settled
<1>8. CASE j \notin Settled
    BY <1>1, <1>8 DEF Column, HasLead, HasError, Settled
<1> QED
    BY <1>3, <1>4, <1>5, <1>6, <1>7, <1>8 DEF Settled, HasLead, HasError

(* The same after a step. *)
LEMMA ColumnMeaningNext ==
    ASSUME PoolInv', AccountInv', NEW j \in Jobs
    PROVE  /\ Column(j)' = "lead" <=> j \in HasLead'
           /\ Column(j)' = "failed" <=> j \in HasError'
           /\ Column(j)' = "repeated" <=> j \in repeated'
           /\ Column(j)' = "skipped" <=> j \in skipped'
           /\ Column(j)' = "dropped" <=> j \in dropped'
           /\ Column(j)' = "admitted" <=> InHand(j)'
           /\ Column(j)' = "queued" <=> j \notin Settled' /\ ~InHand(j)'
<1>1. InHand(j)' => j \notin Settled'
    BY DEF InHand, PoolInv, HandsApart, Busy
<1>2. ColumnsApart'
    BY DEF AccountInv
<1>3. CASE j \in HasLead'
    BY <1>1, <1>2, <1>3 DEF Column, ColumnsApart, HasLead, HasError, Settled
<1>4. CASE j \in HasError'
    BY <1>1, <1>2, <1>4 DEF Column, ColumnsApart, HasLead, HasError, Settled
<1>5. CASE j \in repeated'
    BY <1>1, <1>2, <1>5 DEF Column, ColumnsApart, HasLead, HasError, Settled
<1>6. CASE j \in skipped'
    BY <1>1, <1>2, <1>6 DEF Column, ColumnsApart, HasLead, HasError, Settled
<1>7. CASE j \in dropped'
    BY <1>1, <1>2, <1>7 DEF Column, ColumnsApart, HasLead, HasError, Settled
<1>8. CASE j \notin Settled'
    BY <1>1, <1>8 DEF Column, HasLead, HasError, Settled
<1> QED
    BY <1>3, <1>4, <1>5, <1>6, <1>7, <1>8 DEF Settled, HasLead, HasError

(* The jobs that own a key in the ledger are those that were scraped. *)
LEMMA OwnersAreScraped ==
    ASSUME PoolInv, KeysInv, AccountInv
    PROVE  Ledger!Owners = scraped
<1>1. ASSUME NEW j \in Jobs
      PROVE  j \in Ledger!Owners <=>
                InHand(j) \/ j \in HasLead \/ j \in HasError \/ j \in dropped
    BY ColumnMeaning DEF Ledger!Owners, Ledger!In
<1>2. Ledger!Owners \subseteq Jobs
    BY DEF Ledger!Owners, Ledger!In
<1>3. scraped \subseteq Jobs
    BY DEF PoolInv, HistoryTypeOK
<1>4. ASSUME NEW j \in scraped
      PROVE  InHand(j) \/ j \in HasLead \/ j \in HasError \/ j \in dropped
    <2>1. j \in Settled \/ \E w \in Workers : Busy(w) /\ job[w] = j
        BY DEF KeysInv, KeysOwned, AccountInv, Received
    <2>2. CASE j \in Settled
        BY <2>2 DEF Settled, AccountInv, ColumnsApart, HasLead, HasError
    <2>3. CASE \E w \in Workers : Busy(w) /\ job[w] = j
        BY <2>3 DEF KeysInv, KeysOwned, InHand, Busy, PoolInv, PoolTypeOK, PcSteps
    <2> QED
        BY <2>1, <2>2, <2>3
<1>5. ASSUME NEW j \in Jobs, InHand(j) \/ j \in HasLead \/ j \in HasError \/ j \in dropped
      PROVE  j \in scraped
    BY <1>5 DEF InHand, KeysInv, KeysOwned, InScraping, AccountInv, ColumnsApart
<1> QED
    BY <1>1, <1>2, <1>3, <1>4, <1>5

(* While a worker is neither done nor holds an admitted job, there is room. *)
LEMMA RoomForOne ==
    ASSUME PoolInv, AccountInv, LostBounded,
           NEW w \in Workers, pc[w] \in {"idle", "dedup"}
    PROVE  Ledger!Room
<1> DEFINE S == {x \in Workers : InScraping(x)}
           A == {j \in Jobs : InHand(j)}
           f == [x \in S |-> job[x]]
<1>1. IsFiniteSet(S) /\ IsFiniteSet(Done) /\ IsFiniteSet(Workers)
    BY PoolAssumption, FS_Subset DEF Done
<1>2. IsFiniteSet(A) /\ Cardinality(A) <= Cardinality(S)
    <2>1. f \in Surjection(S, A)
        <3>1. \A x \in S : job[x] \in A
            BY BusyHasJob DEF InHand, InScraping, Busy
        <3>2. \A j \in A : \E x \in S : job[x] = j
            BY DEF InHand, InScraping
        <3> QED
            BY <3>1, <3>2 DEF Surjection
    <2> QED
        BY <1>1, <2>1, FS_Surjection
<1>3. S \cup Done \subseteq Workers \ {w} /\ S \cap Done = {}
    BY DEF Done, InScraping
<1>4. /\ IsFiniteSet(S \cup Done)
      /\ Cardinality(S \cup Done) = Cardinality(S) + Cardinality(Done) - Cardinality({})
    BY <1>1, <1>3, FS_Union
<1>5. Cardinality({}) = 0
    BY FS_EmptySet
<1>6. /\ IsFiniteSet(Workers \ {w})
      /\ Cardinality(Workers \ {w}) = Cardinality(Workers) - 1
    BY <1>1, FS_RemoveElement
<1>7. Cardinality(S \cup Done) <= Cardinality(Workers \ {w})
    BY <1>3, <1>6, FS_Subset
<1>8. /\ IsFiniteSet(A \cup LostJobs)
      /\ Cardinality(A \cup LostJobs) =
            Cardinality(A) + Cardinality(LostJobs) - Cardinality(A \cap LostJobs)
    BY <1>2, FS_Union DEF LostBounded
<1>9. Cardinality(A \cap LostJobs) \in Nat
    <2>1. IsFiniteSet(A \cap LostJobs)
        BY <1>2, FS_Subset
    <2> QED
        BY <2>1, FS_CardinalityType
<1>10. /\ Cardinality(S) \in Nat /\ Cardinality(Done) \in Nat /\ Cardinality(Workers) \in Nat
       /\ Cardinality(A) \in Nat /\ Cardinality(LostJobs) \in Nat
    BY <1>1, <1>2, FS_CardinalityType DEF LostBounded
<1>11. Ledger!In("admitted") \cup Ledger!Lost = A \cup LostJobs
    <2>1. Ledger!In("admitted") = A
        BY ColumnMeaning DEF Ledger!In
    <2>2. LostJobs \subseteq Jobs
        BY DEF LostJobs, PoolInv, HistoryTypeOK
    <2>3. Ledger!Lost = LostJobs
        BY <2>2, ColumnMeaning DEF Ledger!Lost, Ledger!In, LostJobs
    <2> QED
        BY <2>1, <2>3
<1>12. Cardinality(A \cup LostJobs) < Cardinality(Workers)
    BY <1>2, <1>4, <1>5, <1>6, <1>7, <1>8, <1>9, <1>10 DEF LostBounded
<1>13. Ledger!Cardinality(A \cup LostJobs) = Cardinality(A \cup LostJobs)
    BY DEF Ledger!Cardinality, Cardinality
<1> QED
    BY <1>11, <1>12, <1>13 DEF Ledger!Room

-----------------------------------------------------------------------------
(* What a step does to the columns. *)

(* A job whose memberships stay the same stays in its column. *)
LEMMA ColumnUnmoved ==
    ASSUME NEW j \in Jobs,
           j \in HasLead' <=> j \in HasLead,
           j \in HasError' <=> j \in HasError,
           j \in repeated' <=> j \in repeated,
           j \in skipped' <=> j \in skipped,
           j \in dropped' <=> j \in dropped,
           InHand(j)' <=> InHand(j)
    PROVE  Column(j)' = Column(j)
BY DEF Column, HasLead, HasError

AllInv ==
    PoolInv /\ KeysInv /\ LeadInv /\ ShutdownInv /\ AccountInv /\ LostBounded

(* One job changes column: the shape of every Move of the ledger. *)
LEMMA OneMove ==
    ASSUME NEW t \in Jobs, NEW from, NEW to,
           verdict = "none", Column(t) = from, Column(t)' = to,
           \A j \in Jobs \ {t} : Column(j)' = Column(j),
           UNCHANGED <<cancelled, verdict>>
    PROVE  Ledger!Move(t, from, to)
<1>1. [j \in Jobs |-> Column(j)]' = [[j \in Jobs |-> Column(j)] EXCEPT ![t] = to]
    OBVIOUS
<1> QED
    BY <1>1 DEF Ledger!Move

(* A step that keeps the columns is no step of the ledger. *)
LEMMA NoMove ==
    ASSUME \A j \in Jobs : Column(j)' = Column(j), UNCHANGED <<cancelled, verdict>>
    PROVE  UNCHANGED Ledger!ledgerVars
BY DEF Ledger!ledgerVars

(* Before Run returns; a worker that is not done is a witness. *)
LEMMA NotReturned ==
    ASSUME ShutdownInv, NEW w \in Workers, pc[w] # "done"
    PROVE  verdict = "none"
BY DEF ShutdownInv

(* DedupFresh is the ledger's Admit. *)
LEMMA AdmitStep ==
    ASSUME AllInv, AllInv', NEW w \in Workers, NEW t \in Jobs, t = job[w],
           DedupFresh(w)
    PROVE  Ledger!Admit(t)
<1>1. /\ t \in Jobs /\ t \notin Settled /\ pc[w] = "dedup"
      /\ pc' = [pc EXCEPT ![w] = "scraping"] /\ job' = job
      /\ UNCHANGED <<cancelled, verdict>>
      /\ UNCHANGED <<results, leads, jobErrors, runErrors, repeated, skipped, dropped>>
    BY BusyHasJob DEF AllInv, DedupFresh, Goto, Busy, cacheVars, runVars, channelVars
<1>2. pc \in [Workers -> PcSteps] /\ HandsApart
    BY DEF AllInv, PoolInv, PoolTypeOK
<1>3. ~InHand(t) /\ InHand(t)'
    BY <1>1, <1>2 DEF InHand, HandsApart, Busy
<1>4. Column(t) = "queued" /\ Column(t)' = "admitted"
    BY <1>1, <1>3, ColumnMeaning, ColumnMeaningNext DEF AllInv
<1>5. ASSUME NEW j \in Jobs \ {t}
      PROVE  Column(j)' = Column(j)
    <2>1. InHand(j)' <=> InHand(j)
        BY <1>1, <1>2 DEF InHand
    <2> QED
        BY <1>1, <2>1, ColumnUnmoved DEF HasLead, HasError
<1>6. ~Ledger!KeyTaken(t)
    BY OwnersAreScraped DEF AllInv, DedupFresh, Ledger!KeyTaken, KeysInv, KeysOwned
<1>7. Ledger!Room
    BY <1>1, RoomForOne DEF AllInv
<1>8. verdict = "none"
    BY <1>1, NotReturned DEF AllInv
<1> QED
    BY <1>1, <1>4, <1>5, <1>6, <1>7, <1>8, OneMove DEF Ledger!Admit

(* DedupRepeated is the ledger's Repeat. *)
LEMMA RepeatStep ==
    ASSUME AllInv, AllInv', NEW w \in Workers, NEW t \in Jobs, t = job[w],
           DedupRepeated(w)
    PROVE  Ledger!Repeat(t)
<1>1. /\ t \in Jobs /\ t \notin Settled /\ pc[w] = "dedup"
      /\ pc' = [pc EXCEPT ![w] = "idle"] /\ job' = [job EXCEPT ![w] = NoJob]
      /\ repeated' = repeated \cup {t}
      /\ UNCHANGED <<cancelled, verdict>>
      /\ UNCHANGED <<results, leads, jobErrors, runErrors, skipped, dropped>>
    BY BusyHasJob DEF AllInv, DedupRepeated, Release, Busy, cacheVars, runVars, channelVars
<1>2. pc \in [Workers -> PcSteps] /\ job \in [Workers -> Jobs \cup {NoJob}] /\ HandsApart
    BY DEF AllInv, PoolInv, PoolTypeOK
<1>3. ~InHand(t)
    BY <1>1, <1>2 DEF InHand, HandsApart, Busy
<1>4. Column(t) = "queued" /\ Column(t)' = "repeated"
    BY <1>1, <1>3, ColumnMeaning, ColumnMeaningNext DEF AllInv
<1>5. ASSUME NEW j \in Jobs \ {t}
      PROVE  Column(j)' = Column(j)
    <2>1. InHand(j)' <=> InHand(j)
        BY <1>1, <1>2 DEF InHand
    <2> QED
        BY <1>1, <2>1, ColumnUnmoved DEF HasLead, HasError
<1>6. Ledger!KeyTaken(t)
    BY OwnersAreScraped DEF AllInv, DedupRepeated, Ledger!KeyTaken, KeysInv, KeysOwned
<1>7. verdict = "none"
    BY <1>1, NotReturned DEF AllInv
<1> QED
    BY <1>1, <1>4, <1>5, <1>6, <1>7, OneMove DEF Ledger!Repeat

(* A worker with an admitted job settles it: as a lead, an error or a loss. *)
LEMMA SettleStep ==
    ASSUME AllInv, AllInv', NEW w \in Workers, NEW t \in Jobs, t = job[w],
           EmitLead(w) \/ ReportError(w) \/ DropLead(w)
    PROVE  Ledger!Succeed(t) \/ Ledger!Fail(t) \/ Ledger!Drop(t)
<1>1. /\ t \in Jobs /\ pc[w] \in {"emitting", "failing"}
      /\ pc'[w] \in {"idle", "done"} /\ job' = [job EXCEPT ![w] = NoJob]
      /\ \A x \in Workers \ {w} : pc'[x] = pc[x]
      /\ UNCHANGED <<cancelled, verdict, repeated, skipped>>
    BY BusyHasJob
       DEF AllInv, PoolInv, PoolTypeOK, EmitLead, ReportError, DropLead, Release, Busy,
           cacheVars, runVars, historyVars
<1>2. job \in [Workers -> Jobs \cup {NoJob}] /\ HandsApart
    BY DEF AllInv, PoolInv, PoolTypeOK
<1>3. Column(t) = "admitted"
    BY <1>1, ColumnMeaning DEF AllInv, InHand
<1>4. \A j \in Jobs \ {t} : InHand(j)' <=> InHand(j)
    BY <1>1, <1>2, JobsAreFinite DEF InHand
<1>5. verdict = "none"
    BY <1>1, NotReturned DEF AllInv
<1>6. CASE EmitLead(w)
    <2>1. HasLead' = HasLead \cup {t} /\ UNCHANGED <<jobErrors, runErrors, dropped>>
        BY <1>6 DEF EmitLead, HasLead, historyVars
    <2>2. Column(t)' = "lead"
        BY <1>1, <2>1, ColumnMeaning, ColumnMeaningNext DEF AllInv
    <2>3. \A j \in Jobs \ {t} : Column(j)' = Column(j)
        BY <1>1, <1>4, <2>1, ColumnUnmoved DEF HasError
    <2> QED
        BY <1>1, <1>3, <1>5, <2>2, <2>3, OneMove DEF Ledger!Succeed
<1>7. CASE ReportError(w)
    <2>1. HasError' = HasError \cup {t} /\ UNCHANGED <<results, leads, dropped>>
        BY <1>7 DEF ReportError, HasError, historyVars
    <2>2. Column(t)' = "failed"
        BY <1>1, <2>1, ColumnMeaning, ColumnMeaningNext DEF AllInv
    <2>3. \A j \in Jobs \ {t} : Column(j)' = Column(j)
        BY <1>1, <1>4, <2>1, ColumnUnmoved DEF HasLead
    <2> QED
        BY <1>1, <1>3, <1>5, <2>2, <2>3, OneMove DEF Ledger!Fail
<1>8. CASE DropLead(w)
    <2>1. /\ dropped' = dropped \cup {t} /\ cancelled
          /\ UNCHANGED <<results, leads, jobErrors, runErrors>>
        BY <1>8 DEF DropLead, channelVars
    <2>2. Column(t)' = "dropped"
        BY <1>1, <2>1, ColumnMeaning, ColumnMeaningNext DEF AllInv
    <2>3. \A j \in Jobs \ {t} : Column(j)' = Column(j)
        BY <1>1, <1>4, <2>1, ColumnUnmoved DEF HasLead, HasError
    <2> QED
        BY <1>1, <1>3, <1>5, <2>1, <2>2, <2>3, OneMove DEF Ledger!Drop
<1> QED
    BY <1>6, <1>7, <1>8

(* ReceiveAndQuit is the ledger's Skip. *)
LEMMA SkipStep ==
    ASSUME AllInv, AllInv', NEW w \in Workers, NEW t \in Jobs, t = taken + 1,
           ReceiveAndQuit(w)
    PROVE  Ledger!Skip(t)
<1>1. /\ pc[w] = "idle" /\ cancelled /\ pc' = [pc EXCEPT ![w] = "done"] /\ job' = job
      /\ skipped' = skipped \cup {t}
      /\ UNCHANGED <<cancelled, verdict>>
      /\ UNCHANGED <<results, leads, jobErrors, runErrors, repeated, dropped>>
    BY DEF ReceiveAndQuit, cacheVars, runVars, channelVars
<1>2. pc \in [Workers -> PcSteps] /\ HandsApart
    BY DEF AllInv, PoolInv, PoolTypeOK
<1>3. t \in Jobs /\ t \notin 1..taken
    BY JobsAreFinite DEF ReceiveAndQuit, AllInv, PoolInv, PoolTypeOK, Jobs
<1>4. t \notin Settled /\ ~InHand(t)
    BY <1>2, <1>3 DEF HandsApart, InHand, Busy
<1>5. Column(t) = "queued" /\ Column(t)' = "skipped"
    BY <1>1, <1>3, <1>4, ColumnMeaning, ColumnMeaningNext DEF AllInv
<1>6. ASSUME NEW j \in Jobs \ {t}
      PROVE  Column(j)' = Column(j)
    <2>1. InHand(j)' <=> InHand(j)
        BY <1>1, <1>2 DEF InHand
    <2> QED
        BY <1>1, <2>1, ColumnUnmoved DEF HasLead, HasError
<1>7. Ledger!Room
    BY <1>1, RoomForOne DEF AllInv
<1>8. verdict = "none"
    BY <1>1, NotReturned DEF AllInv
<1> QED
    BY <1>1, <1>3, <1>5, <1>6, <1>7, <1>8, OneMove DEF Ledger!Skip

(* The steps between admission and settlement, and those of the closer and  *)
(* of Run but for the last, keep every column.                              *)
LEMMA SilentStep ==
    ASSUME AllInv, NEW w \in Workers,
           \/ Receive(w) \/ Leave(w)
           \/ ScrapeFails(w) \/ ValidationFails(w) \/ SaveFails(w) \/ SaveSucceeds(w)
           \/ \E contacts \in ContactLists : ScrapeSucceeds(w, contacts)
    PROVE  UNCHANGED Ledger!ledgerVars
<1>1. /\ UNCHANGED <<cancelled, verdict>>
      /\ UNCHANGED <<results, leads, jobErrors, runErrors, repeated, skipped, dropped>>
    BY DEF Receive, Leave, ScrapeFails, ValidationFails, ReturnVerdict, SaveFails,
           SaveSucceeds, ScrapeSucceeds, cacheVars, runVars, channelVars, historyVars
<1>2. \A x \in Workers : InScraping(x)' <=> InScraping(x)
    BY DEF AllInv, PoolInv, PoolTypeOK, Receive, Leave, ScrapeFails, ValidationFails,
           SaveFails, SaveSucceeds, Validated, ScrapeSucceeds, Goto, InScraping
<1>3. \A x \in Workers : InScraping(x) => job'[x] = job[x]
    BY DEF AllInv, PoolInv, PoolTypeOK, Receive, Leave, ScrapeFails, ValidationFails,
           SaveFails, SaveSucceeds, Validated, ScrapeSucceeds, Goto, InScraping
<1>4. \A j \in Jobs : InHand(j)' <=> InHand(j)
    BY <1>2, <1>3 DEF InHand, InScraping
<1> QED
    BY <1>1, <1>4, ColumnUnmoved, NoMove DEF HasLead, HasError

(* A step that touches no bookkeeping is a stutter of the ledger. *)
LEMMA QuietStep ==
    ASSUME UNCHANGED <<pc, job, cancelled, verdict, repeated, skipped, dropped>>,
           HasLead' = HasLead, HasError' = HasError
    PROVE  UNCHANGED Ledger!ledgerVars
<1>1. \A j \in Jobs : InHand(j)' <=> InHand(j)
    BY DEF InHand
<1> QED
    BY <1>1, ColumnUnmoved, NoMove

(* ReturnLeads is the ledger's Return, with the error the columns call for. *)
LEMMA ReturnStep ==
    ASSUME AllInv, ReturnLeads
    PROVE  Ledger!Return
<1>1. /\ \A w \in Workers : pc[w] = "done"
      /\ results = {} /\ jobErrors = {} /\ verdict = "none"
    BY DEF AllInv, ReturnLeads, ShutdownInv
<1>2. /\ UNCHANGED <<pc, job, cancelled, repeated, skipped, dropped,
                     results, leads, jobErrors, runErrors>>
      /\ verdict' = IF cancelled THEN "cancelled"
                    ELSE IF runErrors # {} THEN "failed" ELSE "nil"
    BY DEF ReturnLeads, cacheVars, poolVars, channelVars, historyVars
<1>3. [j \in Jobs |-> Column(j)]' = [j \in Jobs |-> Column(j)]
    <2>1. \A j \in Jobs : InHand(j)' <=> InHand(j)
        BY <1>2 DEF InHand
    <2> QED
        BY <1>2, <2>1, ColumnUnmoved DEF HasLead, HasError
<1>4. Ledger!In("admitted") = {}
    BY <1>1, ColumnMeaning DEF AllInv, Ledger!In, InHand
<1>5. cancelled \/ Ledger!In("queued") = {}
    <2> SUFFICES ASSUME ~cancelled, NEW j \in Jobs PROVE Column(j) # "queued"
        BY DEF Ledger!In
    <2>1. taken = Len(Sources)
        BY <1>1, PoolAssumption DEF AllInv, ShutdownInv
    <2>2. j \in Settled
        BY <1>1, <2>1 DEF AllInv, AccountInv, Received, Busy, Jobs
    <2> QED
        BY <2>2, ColumnMeaning DEF AllInv
<1>6. Ledger!In("failed") # {} <=> runErrors # {}
    <2>1. Ledger!In("failed") = HasError
        BY ColumnMeaning DEF AllInv, PoolInv, RunTypeOK, HasError, Ledger!In
    <2> QED
        BY <1>1, <2>1 DEF HasError
<1> QED
    BY <1>1, <1>2, <1>3, <1>4, <1>5, <1>6 DEF Ledger!Return

(* Every step of the pipeline is a step of the ledger or a stutter. *)
LEMMA LedgerStep ==
    ASSUME AllInv, AllInv', [PipelineNext]_vars
    PROVE  [Ledger!LedgerNext]_(Ledger!ledgerVars)
<1>a. taken + 1 \in Jobs \/ taken = Len(Sources)
    BY JobsAreFinite DEF AllInv, PoolInv, PoolTypeOK, Jobs
<1>b. \A w \in Workers : Busy(w) => job[w] \in Jobs
    BY BusyHasJob DEF AllInv
<1>1. ASSUME NEW w \in Workers, DedupFresh(w)
      PROVE  Ledger!LedgerNext
    BY <1>1, <1>b, AdmitStep DEF DedupFresh, Busy, Ledger!LedgerNext
<1>2. ASSUME NEW w \in Workers, DedupRepeated(w)
      PROVE  Ledger!LedgerNext
    BY <1>2, <1>b, RepeatStep DEF DedupRepeated, Busy, Ledger!LedgerNext
<1>3. ASSUME NEW w \in Workers, EmitLead(w) \/ ReportError(w) \/ DropLead(w)
      PROVE  Ledger!LedgerNext
    BY <1>3, <1>b, SettleStep DEF EmitLead, ReportError, DropLead, Busy, Ledger!LedgerNext
<1>4. ASSUME NEW w \in Workers, ReceiveAndQuit(w)
      PROVE  Ledger!LedgerNext
    <2>1. taken + 1 \in Jobs
        BY <1>4, <1>a, JobsAreFinite DEF ReceiveAndQuit
    <2> QED
        BY <1>4, <2>1, SkipStep DEF Ledger!LedgerNext
<1>5. ASSUME NEW w \in Workers,
             \/ Receive(w) \/ Leave(w)
             \/ ScrapeFails(w) \/ ValidationFails(w) \/ SaveFails(w) \/ SaveSucceeds(w)
             \/ \E contacts \in ContactLists : ScrapeSucceeds(w, contacts)
      PROVE  UNCHANGED Ledger!ledgerVars
    BY <1>5, SilentStep
<1>6. ASSUME NEW w \in Workers, AskHandle(w) \/ ValidateHandle(w) \/ TakeVerdict(w)
      PROVE  UNCHANGED Ledger!ledgerVars
    <2>1. UNCHANGED cancelled
        BY <1>6 DEF AskHandle, ValidateHandle, TakeVerdict, CacheHit, CacheMiss,
                    FlightStep, LeadFlight, JoinFlight, ValidatorAnswers,
                    ValidatorFails, FinishFlight, ReturnVerdict
    <2>2. UNCHANGED <<pc, job, verdict, repeated, skipped, dropped,
                      results, leads, jobErrors, runErrors>>
        BY <1>6 DEF AskHandle, ValidateHandle, TakeVerdict, ownVars, poolVars, runVars,
                    channelVars, historyVars
    <2> QED
        BY <2>1, <2>2, QuietStep DEF HasLead, HasError
<1>7. CASE CloserStep \/ CollectLead \/ LeadsCollected \/ CollectError
    <2>1. UNCHANGED <<pc, job, cancelled, verdict, repeated, skipped, dropped>>
        BY <1>7 DEF CloserStep, CloseResults, CloseErrors, CollectLead, LeadsCollected,
                    CollectError, cacheVars, poolVars, runVars, historyVars
    <2>2. HasLead' = HasLead /\ HasError' = HasError
        BY <1>7 DEF CloserStep, CloseResults, CloseErrors, CollectLead, LeadsCollected,
                    CollectError, channelVars, HasLead, HasError
    <2> QED
        BY <2>1, <2>2, QuietStep
<1>8. CASE ReturnLeads
    BY <1>8, ReturnStep DEF Ledger!LedgerNext
<1>9. CASE Interrupt
    <2>1. UNCHANGED <<pc, job, verdict, repeated, skipped, dropped,
                      results, leads, jobErrors, runErrors>>
        BY <1>9 DEF Interrupt, ownVars, poolVars, runVars, channelVars, historyVars
    <2>2. [j \in Jobs |-> Column(j)]' = [j \in Jobs |-> Column(j)]
        <3>1. \A j \in Jobs : InHand(j)' <=> InHand(j)
            BY <2>1 DEF InHand
        <3> QED
            BY <2>1, <3>1, ColumnUnmoved DEF HasLead, HasError
    <2> QED
        BY <1>9, <2>1, <2>2 DEF Interrupt, CancelContext, Ledger!Cancel, Ledger!LedgerNext
<1>10. CASE Terminated \/ UNCHANGED vars
    BY <1>10, QuietStep
       DEF Terminated, vars, cacheVars, ownVars, poolVars, runVars, channelVars,
           historyVars, HasLead, HasError
<1> QED
    BY <1>1, <1>2, <1>3, <1>4, <1>5, <1>6, <1>7, <1>8, <1>9, <1>10
       DEF PipelineNext, WorkerStep, RunStep

(* Manager.Run implements the ledger of targets, for any pool and any list. *)
THEOREM KeepsLedgerHolds == PipelineSpec => KeepsLedger
<1>1. PipelineInit => Ledger!LedgerInit
    <2> SUFFICES ASSUME PipelineInit PROVE Ledger!LedgerInit
        OBVIOUS
    <2>1. \A j \in Jobs : Column(j) = "queued"
        BY DEF PipelineInit, Column, InHand
    <2> QED
        BY <2>1 DEF PipelineInit, CacheInit, Ledger!LedgerInit
<1>2. AllInv /\ AllInv' /\ [PipelineNext]_vars => [Ledger!LedgerNext]_(Ledger!ledgerVars)
    BY LedgerStep
<1>3. PipelineSpec => []AllInv
    BY PoolInvHolds, KeysInvHolds, LeadInvHolds, ShutdownInvHolds, AccountInvHolds,
       LostBoundedHolds, PTL DEF AllInv
<1> QED
    BY <1>1, <1>2, <1>3, PTL DEF PipelineSpec, KeepsLedger, Ledger!LedgerSpec
=============================================================================
