------------------------ MODULE TelegramCacheProofs ------------------------
(***************************************************************************)
(* Proofs about TelegramCache, for any pool, any handles, any verdicts.    *)
(*                                                                         *)
(* None of SingleFlight, FillsBounded and ReplyIsForHandle is inductive on *)
(* its own.  FillsBounded needs to know that a worker which led a flight   *)
(* for a handle left a verdict in the cache (FilledIsCached), so that when *)
(* it misses the cache it has not led one yet (MissedIsUnfilled);          *)
(* ReplyIsForHandle needs the cache to hold only verdicts given for the    *)
(* handle (CachedIsVerdict).                                               *)
(***************************************************************************)
EXTENDS TelegramCache, TLAPS

AskingHandle == \A w \in Workers : vStep[w] # "idle" => vHandle[w] \in Handles

ReplyWhenAnswered ==
    \A w \in Workers :
        vReply[w] = Absent <=> vStep[w] \in {"idle", "missed", "calling", "joined"}

FilledIsCached ==
    \A h \in Handles : \A w \in Workers : fills[h][w] # 0 => tgCache[h] # Absent

MissedIsUnfilled ==
    \A w \in Workers :
        vStep[w] \in {"missed", "calling"} => fills[vHandle[w]][w] = 0

CachedIsVerdict ==
    \A h \in Handles : tgCache[h] # Absent => tgCache[h] \in verdicts[h]

CacheTyped == CacheTypeOK /\ AskingHandle

CacheInv ==
    /\ CacheTyped
    /\ SingleFlight
    /\ FilledIsCached /\ MissedIsUnfilled /\ FillsBounded
    /\ ReplyWhenAnswered /\ CachedIsVerdict /\ ReplyIsForHandle

-----------------------------------------------------------------------------
(* The markers Absent and Failed are two, and no verdicts. *)
LEMMA MarkersAreNoStatus ==
    Absent \notin Statuses /\ Failed \notin Statuses /\ Failed # Absent
BY StatusesAssumption DEF Absent, Failed, TGStatus

(* Initially the invariant holds. *)
LEMMA CacheInitInv == CacheInit => CacheInv
<1> SUFFICES ASSUME CacheInit PROVE CacheInv
    OBVIOUS
<1> USE DEF CacheInit
<1>1. CacheTyped
    BY DEF CacheTyped, CacheTypeOK, AskingHandle, VSteps
<1>2. SingleFlight
    BY WorkersAssumption DEF SingleFlight
<1>3. FilledIsCached /\ MissedIsUnfilled /\ FillsBounded
    BY DEF FilledIsCached, MissedIsUnfilled, FillsBounded
<1>4. ReplyWhenAnswered /\ CachedIsVerdict /\ ReplyIsForHandle
    BY MarkersAreNoStatus DEF ReplyWhenAnswered, CachedIsVerdict, ReplyIsForHandle
<1> QED
    BY <1>1, <1>2, <1>3, <1>4 DEF CacheInv

(* Every step keeps the variables in their sets. *)
LEMMA CacheTypeStep ==
    ASSUME CacheTyped, [CacheNext]_cacheVars
    PROVE  CacheTyped'
<1> USE DEF CacheTyped, CacheTypeOK, AskingHandle, VSteps
<1>1. CASE CancelContext
    BY <1>1 DEF CancelContext
<1>2. ASSUME NEW w \in Workers, NEW h \in Handles, CacheHit(w, h)
      PROVE  CacheTyped'
    BY <1>2 DEF CacheHit
<1>3. ASSUME NEW w \in Workers, NEW h \in Handles, CacheMiss(w, h)
      PROVE  CacheTyped'
    BY <1>3 DEF CacheMiss
<1>4. ASSUME NEW w \in Workers, LeadFlight(w)
      PROVE  CacheTyped'
    BY <1>4 DEF LeadFlight
<1>5. ASSUME NEW w \in Workers, JoinFlight(w)
      PROVE  CacheTyped'
    BY <1>5 DEF JoinFlight
<1>6. ASSUME NEW w \in Workers, NEW s \in Statuses, ValidatorAnswers(w, s)
      PROVE  CacheTyped'
    BY <1>6 DEF ValidatorAnswers
<1>7. ASSUME NEW w \in Workers, ValidatorFails(w)
      PROVE  CacheTyped'
    BY <1>7 DEF ValidatorFails
<1>8. ASSUME NEW w \in Workers, FinishFlight(w)
      PROVE  CacheTyped'
    BY <1>8 DEF FinishFlight, Party
<1>9. ASSUME NEW w \in Workers, ReturnVerdict(w)
      PROVE  CacheTyped'
    BY <1>9 DEF ReturnVerdict
<1>10. CASE UNCHANGED cacheVars
    BY <1>10 DEF cacheVars
<1> QED
    BY <1>1, <1>2, <1>3, <1>4, <1>5, <1>6, <1>7, <1>8, <1>9, <1>10
       DEF CacheNext, FlightStep

(* Every step keeps the flight table in agreement with the workers. *)
LEMMA SingleFlightStep ==
    ASSUME CacheTyped, SingleFlight, [CacheNext]_cacheVars
    PROVE  SingleFlight'
<1> USE WorkersAssumption DEF CacheTyped, CacheTypeOK, AskingHandle, SingleFlight, VSteps
<1>1. CASE CancelContext
    BY <1>1 DEF CancelContext
<1>2. ASSUME NEW w \in Workers, NEW h \in Handles, CacheHit(w, h)
      PROVE  SingleFlight'
    BY <1>2 DEF CacheHit
<1>3. ASSUME NEW w \in Workers, NEW h \in Handles, CacheMiss(w, h)
      PROVE  SingleFlight'
    BY <1>3 DEF CacheMiss
<1>4. ASSUME NEW w \in Workers, LeadFlight(w)
      PROVE  SingleFlight'
    BY <1>4 DEF LeadFlight
<1>5. ASSUME NEW w \in Workers, JoinFlight(w)
      PROVE  SingleFlight'
    BY <1>5 DEF JoinFlight
<1>6. ASSUME NEW w \in Workers, NEW s \in Statuses, ValidatorAnswers(w, s)
      PROVE  SingleFlight'
    BY <1>6 DEF ValidatorAnswers
<1>7. ASSUME NEW w \in Workers, ValidatorFails(w)
      PROVE  SingleFlight'
    BY <1>7 DEF ValidatorFails
<1>8. ASSUME NEW w \in Workers, FinishFlight(w)
      PROVE  SingleFlight'
    BY <1>8 DEF FinishFlight, Party
<1>9. ASSUME NEW w \in Workers, ReturnVerdict(w)
      PROVE  SingleFlight'
    BY <1>9 DEF ReturnVerdict
<1>10. CASE UNCHANGED cacheVars
    BY <1>10 DEF cacheVars
<1> QED
    BY <1>1, <1>2, <1>3, <1>4, <1>5, <1>6, <1>7, <1>8, <1>9, <1>10
       DEF CacheNext, FlightStep

(* Every step keeps the bound on the calls of one worker for one handle. *)
LEMMA FillsStep ==
    ASSUME CacheTyped, SingleFlight,
           FilledIsCached, MissedIsUnfilled, FillsBounded, [CacheNext]_cacheVars
    PROVE  FilledIsCached' /\ MissedIsUnfilled' /\ FillsBounded'
<1> DEFINE Goal == FilledIsCached' /\ MissedIsUnfilled' /\ FillsBounded'
<1> USE DEF CacheTyped, CacheTypeOK, AskingHandle, FilledIsCached, MissedIsUnfilled,
            FillsBounded, VSteps
<1>1. CASE CancelContext
    BY <1>1 DEF CancelContext
<1>2. ASSUME NEW w \in Workers, NEW h \in Handles, CacheHit(w, h)
      PROVE  Goal
    BY <1>2 DEF CacheHit
<1>3. ASSUME NEW w \in Workers, NEW h \in Handles, CacheMiss(w, h)
      PROVE  Goal
    BY <1>3 DEF CacheMiss
<1>4. ASSUME NEW w \in Workers, LeadFlight(w)
      PROVE  Goal
    BY <1>4 DEF LeadFlight
<1>5. ASSUME NEW w \in Workers, JoinFlight(w)
      PROVE  Goal
    BY <1>5 DEF JoinFlight
<1>6. ASSUME NEW w \in Workers, NEW s \in Statuses, ValidatorAnswers(w, s)
      PROVE  Goal
    <2>1. s # Absent
        BY MarkersAreNoStatus
    <2>2. \A h \in Handles : \A x \in Workers :
            fills'[h][x] = IF h = vHandle[w] /\ x = w THEN 1 ELSE fills[h][x]
        BY <1>6 DEF ValidatorAnswers
    <2>3. FilledIsCached'
        BY <1>6, <2>1, <2>2 DEF ValidatorAnswers
    <2>4. MissedIsUnfilled'
        BY <1>6, <2>2 DEF ValidatorAnswers
    <2>5. FillsBounded'
        BY <1>6, <2>2 DEF ValidatorAnswers
    <2> QED
        BY <2>3, <2>4, <2>5
<1>7. ASSUME NEW w \in Workers, ValidatorFails(w)
      PROVE  Goal
    BY <1>7 DEF ValidatorFails
<1>8. ASSUME NEW w \in Workers, FinishFlight(w)
      PROVE  Goal
    BY <1>8 DEF FinishFlight, Party
<1>9. ASSUME NEW w \in Workers, ReturnVerdict(w)
      PROVE  Goal
    BY <1>9 DEF ReturnVerdict
<1>10. CASE UNCHANGED cacheVars
    BY <1>10 DEF cacheVars
<1> QED
    BY <1>1, <1>2, <1>3, <1>4, <1>5, <1>6, <1>7, <1>8, <1>9, <1>10
       DEF CacheNext, FlightStep

(* Every step keeps verdicts with the handle they were given for. *)
LEMMA ReplyStep ==
    ASSUME CacheTyped, ReplyWhenAnswered, CachedIsVerdict, ReplyIsForHandle,
           [CacheNext]_cacheVars
    PROVE  ReplyWhenAnswered' /\ CachedIsVerdict' /\ ReplyIsForHandle'
<1> DEFINE Goal == ReplyWhenAnswered' /\ CachedIsVerdict' /\ ReplyIsForHandle'
<1> USE MarkersAreNoStatus
    DEF CacheTyped, CacheTypeOK, AskingHandle, ReplyWhenAnswered, CachedIsVerdict,
        ReplyIsForHandle, VSteps
<1>1. CASE CancelContext
    BY <1>1 DEF CancelContext
<1>2. ASSUME NEW w \in Workers, NEW h \in Handles, CacheHit(w, h)
      PROVE  Goal
    BY <1>2 DEF CacheHit
<1>3. ASSUME NEW w \in Workers, NEW h \in Handles, CacheMiss(w, h)
      PROVE  Goal
    BY <1>3 DEF CacheMiss
<1>4. ASSUME NEW w \in Workers, LeadFlight(w)
      PROVE  Goal
    BY <1>4 DEF LeadFlight
<1>5. ASSUME NEW w \in Workers, JoinFlight(w)
      PROVE  Goal
    BY <1>5 DEF JoinFlight
<1>6. ASSUME NEW w \in Workers, NEW s \in Statuses, ValidatorAnswers(w, s)
      PROVE  Goal
    BY <1>6 DEF ValidatorAnswers
<1>7. ASSUME NEW w \in Workers, ValidatorFails(w)
      PROVE  Goal
    BY <1>7 DEF ValidatorFails
<1>8. ASSUME NEW w \in Workers, FinishFlight(w)
      PROVE  Goal
    BY <1>8 DEF FinishFlight, Party
<1>9. ASSUME NEW w \in Workers, ReturnVerdict(w)
      PROVE  Goal
    BY <1>9 DEF ReturnVerdict
<1>10. CASE UNCHANGED cacheVars
    BY <1>10 DEF cacheVars
<1> QED
    BY <1>1, <1>2, <1>3, <1>4, <1>5, <1>6, <1>7, <1>8, <1>9, <1>10
       DEF CacheNext, FlightStep

(* The invariant is inductive. *)
LEMMA CacheInvStep == CacheInv /\ [CacheNext]_cacheVars => CacheInv'
BY CacheTypeStep, SingleFlightStep, FillsStep, ReplyStep DEF CacheInv

(* Flights, cache and pending replies agree, however lookups interleave. *)
THEOREM CacheInvHolds == CacheSpec => []CacheInv
BY CacheInitInv, CacheInvStep, PTL DEF CacheSpec

-----------------------------------------------------------------------------
(* The variables of a lookup keep their sets. *)
THEOREM CacheTypeCorrect == CacheSpec => []CacheTypeOK
<1>1. CacheInv => CacheTypeOK
    BY DEF CacheInv, CacheTyped
<1> QED
    BY <1>1, CacheInvHolds, PTL

(* singleflight: one worker at a time asks Telegram about a handle, and no  *)
(* worker waits for a flight that is gone.                                  *)
THEOREM SingleFlightHolds == CacheSpec => []SingleFlight
<1>1. CacheInv => SingleFlight
    BY DEF CacheInv
<1> QED
    BY <1>1, CacheInvHolds, PTL

(* validateTelegram: a worker obtains a handle's verdict from Telegram at   *)
(* most once, so a handle costs at most one call per worker of the pool.    *)
THEOREM FillsBoundedHolds == CacheSpec => []FillsBounded
<1>1. CacheInv => FillsBounded
    BY DEF CacheInv
<1> QED
    BY <1>1, CacheInvHolds, PTL

(* validateTelegram: the verdict returned for a handle is one that was given *)
(* for that handle.                                                          *)
THEOREM ReplyIsForHandleHolds == CacheSpec => []ReplyIsForHandle
<1>1. CacheInv => ReplyIsForHandle
    BY DEF CacheInv
<1> QED
    BY <1>1, CacheInvHolds, PTL
=============================================================================
