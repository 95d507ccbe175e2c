---------------------------- MODULE TelegramCache ----------------------------
(***************************************************************************)
(* The lookup path of Manager.validateTelegram: a cache of verdicts read   *)
(* under tgMu, and a singleflight group that lets one worker call the      *)
(* validator for a handle while the others that missed the cache wait.     *)
(*                                                                         *)
(* The cache is read BEFORE the flight is entered and the two are guarded  *)
(* by different locks, so a worker can miss the cache, be overtaken by a   *)
(* whole flight, and then lead a second one.  The steps below keep exactly *)
(* those two critical sections apart.                                      *)
(*                                                                         *)
(* A handle stands for the normalised key: lower case, trimmed.            *)
(***************************************************************************)
EXTENDS Integers, FiniteSets

CONSTANTS
    Workers,    \* the goroutines of the pool
    NoWorker,   \* "no flight is open for this handle"
    Handles,    \* normalised Telegram handles
    NoHandle,   \* "this worker is not validating"
    Statuses    \* the verdicts the validator may give, out of TGStatus

\* domain.TGStatus
TGStatus == {"VALID", "INVALID", "NOT_FOUND", "SKIPPED", "FLOOD_WAIT", "DELETED"}

Absent == "ABSENT"   \* no cache entry; no reply yet
Failed == "ERROR"    \* validateTelegram returned an error

ASSUME WorkersAssumption  == NoWorker \notin Workers
ASSUME HandlesAssumption  == NoHandle \notin Handles
ASSUME StatusesAssumption == Statuses \subseteq TGStatus

VARIABLES
    cancelled,  \* the context of Run is done
    tgCache,    \* handle -> cached verdict, or Absent
    tgFlight,   \* handle -> worker leading the open flight, or NoWorker
    vStep,      \* worker -> where it is inside validateTelegram
    vHandle,    \* worker -> the handle it asked for
    vReply,     \* worker -> what validateTelegram is about to return
    verdicts,   \* history: handle -> verdicts the validator has given
    fills       \* history: handle -> worker -> verdicts it obtained as leader

cacheVars == <<cancelled, tgCache, tgFlight, vStep, vHandle, vReply, verdicts, fills>>

VSteps == {"idle", "missed", "calling", "answered", "joined", "returned"}

CacheTypeOK ==
    /\ cancelled \in BOOLEAN
    /\ tgCache \in [Handles -> Statuses \cup {Absent}]
    /\ tgFlight \in [Handles -> Workers \cup {NoWorker}]
    /\ vStep \in [Workers -> VSteps]
    /\ vHandle \in [Workers -> Handles \cup {NoHandle}]
    /\ vReply \in [Workers -> Statuses \cup {Absent, Failed}]
    /\ verdicts \in [Handles -> SUBSET Statuses]
    /\ fills \in [Handles -> [Workers -> Nat]]

CacheInit ==
    /\ cancelled = FALSE
    /\ tgCache = [h \in Handles |-> Absent]
    /\ tgFlight = [h \in Handles |-> NoWorker]
    /\ vStep = [w \in Workers |-> "idle"]
    /\ vHandle = [w \in Workers |-> NoHandle]
    /\ vReply = [w \in Workers |-> Absent]
    /\ verdicts = [h \in Handles |-> {}]
    /\ fills = [h \in Handles |-> [w \in Workers |-> 0]]

-----------------------------------------------------------------------------
(* The read of tgCache under tgMu.RLock. *)

CacheHit(w, h) ==
    /\ vStep[w] = "idle"
    /\ tgCache[h] # Absent
    /\ vStep' = [vStep EXCEPT ![w] = "returned"]
    /\ vHandle' = [vHandle EXCEPT ![w] = h]
    /\ vReply' = [vReply EXCEPT ![w] = tgCache[h]]
    /\ UNCHANGED <<cancelled, tgCache, tgFlight, verdicts, fills>>

CacheMiss(w, h) ==
    /\ vStep[w] = "idle"
    /\ tgCache[h] = Absent
    /\ vStep' = [vStep EXCEPT ![w] = "missed"]
    /\ vHandle' = [vHandle EXCEPT ![w] = h]
    /\ UNCHANGED <<cancelled, tgCache, tgFlight, vReply, verdicts, fills>>

-----------------------------------------------------------------------------
(* tgFlight.Do: under the group's own mutex a worker either opens the      *)
(* flight for its handle or joins the one that is open.                    *)

\* a careless variant: every worker that missed opens its own flight
LeadFlightAlways(w) ==
    /\ vStep[w] = "missed"
    /\ tgFlight' = [tgFlight EXCEPT ![vHandle[w]] = w]
    /\ vStep' = [vStep EXCEPT ![w] = "calling"]
    /\ UNCHANGED <<cancelled, tgCache, vHandle, vReply, verdicts, fills>>

LeadFlight(w) ==
    /\ vStep[w] = "missed"
    /\ tgFlight[vHandle[w]] = NoWorker
    /\ tgFlight' = [tgFlight EXCEPT ![vHandle[w]] = w]
    /\ vStep' = [vStep EXCEPT ![w] = "calling"]
    /\ UNCHANGED <<cancelled, tgCache, vHandle, vReply, verdicts, fills>>

JoinFlight(w) ==
    /\ vStep[w] = "missed"
    /\ tgFlight[vHandle[w]] # NoWorker
    /\ vStep' = [vStep EXCEPT ![w] = "joined"]
    /\ UNCHANGED <<cancelled, tgCache, tgFlight, vHandle, vReply, verdicts, fills>>

\* a careless variant: the verdict is returned but never cached
AnswerUncached(w, s) ==
    /\ vStep[w] = "calling"
    /\ vStep' = [vStep EXCEPT ![w] = "answered"]
    /\ vReply' = [vReply EXCEPT ![w] = s]
    /\ verdicts' = [verdicts EXCEPT ![vHandle[w]] = @ \cup {s}]
    /\ fills' = [fills EXCEPT ![vHandle[w]][w] = @ + 1]
    /\ UNCHANGED <<cancelled, tgCache, tgFlight, vHandle>>

\* ValidateUsername gives a verdict, which is cached under tgMu.Lock.
ValidatorAnswers(w, s) ==
    /\ vStep[w] = "calling"
    /\ vStep' = [vStep EXCEPT ![w] = "answered"]
    /\ vReply' = [vReply EXCEPT ![w] = s]
    /\ tgCache' = [tgCache EXCEPT ![vHandle[w]] = s]
    /\ verdicts' = [verdicts EXCEPT ![vHandle[w]] = @ \cup {s}]
    /\ fills' = [fills EXCEPT ![vHandle[w]][w] = @ + 1]
    /\ UNCHANGED <<cancelled, tgFlight, vHandle>>

\* a careless variant: the failure is cached like a verdict
FailureCached(w) ==
    /\ vStep[w] = "calling"
    /\ cancelled
    /\ vStep' = [vStep EXCEPT ![w] = "answered"]
    /\ vReply' = [vReply EXCEPT ![w] = Failed]
    /\ tgCache' = [tgCache EXCEPT ![vHandle[w]] = Failed]
    /\ UNCHANGED <<cancelled, tgFlight, vHandle, verdicts, fills>>

\* ValidateUsername's only error is the limiter's, once the context is done.
\* Nothing is cached.
ValidatorFails(w) ==
    /\ vStep[w] = "calling"
    /\ cancelled
    /\ vStep' = [vStep EXCEPT ![w] = "answered"]
    /\ vReply' = [vReply EXCEPT ![w] = Failed]
    /\ UNCHANGED <<cancelled, tgCache, tgFlight, vHandle, verdicts, fills>>

\* a careless variant: only the leader is released
PartyOfOne(w) == {w}

\* a careless variant: whoever waits is released, whatever it asked for
PartyOfAll(w) == {w} \cup {x \in Workers : vStep[x] = "joined"}

\* The workers a flight's result is handed to: its leader and those who joined.
Party(w) ==
    {w} \cup {x \in Workers : vStep[x] = "joined" /\ vHandle[x] = vHandle[w]}

\* The end of singleflight's doCall: the waiters are released and the flight
\* is forgotten, in one critical section of the group.
FinishFlight(w) ==
    /\ vStep[w] = "answered"
    /\ tgFlight' = [tgFlight EXCEPT ![vHandle[w]] = NoWorker]
    /\ vStep' = [x \in Workers |-> IF x \in Party(w) THEN "returned" ELSE vStep[x]]
    /\ vReply' = [x \in Workers |-> IF x \in Party(w) THEN vReply[w] ELSE vReply[x]]
    /\ UNCHANGED <<cancelled, tgCache, vHandle, verdicts, fills>>

\* validateTelegram returns to its caller.
ReturnVerdict(w) ==
    /\ vStep[w] = "returned"
    /\ vStep' = [vStep EXCEPT ![w] = "idle"]
    /\ vHandle' = [vHandle EXCEPT ![w] = NoHandle]
    /\ vReply' = [vReply EXCEPT ![w] = Absent]
    /\ UNCHANGED <<cancelled, tgCache, tgFlight, verdicts, fills>>

\* The caller's context ends (an interrupt in cmd/app).
CancelContext ==
    /\ ~cancelled
    /\ cancelled' = TRUE
    /\ UNCHANGED <<tgCache, tgFlight, vStep, vHandle, vReply, verdicts, fills>>

-----------------------------------------------------------------------------
\* What happens inside a lookup that has missed the cache.
FlightStep(w) ==
    \/ LeadFlight(w)
    \/ JoinFlight(w)
    \/ \E s \in Statuses : ValidatorAnswers(w, s)
    \/ ValidatorFails(w)
    \/ FinishFlight(w)

CacheNext ==
    \/ CancelContext
    \/ \E w \in Workers :
        \/ \E h \in Handles : CacheHit(w, h) \/ CacheMiss(w, h)
        \/ FlightStep(w)
        \/ ReturnVerdict(w)

CacheSpec == CacheInit /\ [][CacheNext]_cacheVars

-----------------------------------------------------------------------------
(* The flight table and the workers agree: a worker is inside the          *)
(* validator exactly when the flight of its handle is its own, and nobody  *)
(* waits for a flight that has been forgotten.                             *)
SingleFlight ==
    /\ \A w \in Workers :
        vStep[w] \in {"calling", "answered"} => tgFlight[vHandle[w]] = w
    /\ \A h \in Handles : \A w \in Workers :
        tgFlight[h] = w => vStep[w] \in {"calling", "answered"} /\ vHandle[w] = h
    /\ \A w \in Workers :
        vStep[w] = "joined" => tgFlight[vHandle[w]] # NoWorker

(* However lookups interleave, one worker obtains a verdict for a handle   *)
(* from Telegram at most once: the calls for a handle are bounded by the   *)
(* size of the pool, not by the number of leads that mention it.           *)
FillsBounded == \A h \in Handles : \A w \in Workers : fills[h][w] <= 1

(* A worker is never handed a verdict given for another handle, neither    *)
(* by the cache nor by a flight it joined.                                 *)
ReplyIsForHandle ==
    \A w \in Workers :
        vReply[w] \in Statuses => vReply[w] \in verdicts[vHandle[w]]

(* What the pipeline's test asserts of a shared handle: however many       *)
(* workers ask at once, the validator is called for it once.               *)
ValidatedOnce ==
    \A h \in Handles : \A v, w \in Workers :
        fills[h][v] > 0 /\ fills[h][w] > 0 => v = w
=============================================================================
