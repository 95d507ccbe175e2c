------------------------ MODULE TelegramLookupsProofs ------------------------
(*****************************************************************************)
(* Proofs about TelegramClient and, at the end, about TelegramLookups.       *)
(*                                                                           *)
(* The client for any number of workers and of calls.  rawAPI is there       *)
(* exactly while the goroutine serves or is breaking off; that the channel   *)
(* ready is closed tells Start that this state has been reached, and the     *)
(* program only leaves authentication for the pipeline on a good session.    *)
(*****************************************************************************)
EXTENDS TelegramLookups, TelegramCacheProofs

(* rawAPI follows the goroutine: unset before the connection, unset after. *)
APIFollowsRunner ==
    /\ runner \in {"none", "dialing", "ended"} => ~rawAPI
    /\ runner = "serving" => rawAPI
    /\ ready /\ runner = "stopping" => rawAPI
    /\ ready => runner \in {"serving", "stopping", "ended"}

(* A successful start means ready; work on it means an authorised session. *)
StartMeansReady ==
    /\ started = "ok" => ready
    /\ main \in {"authenticating", "prompting"} => started = "ok"
    /\ started = "ok" /\ main = "working" => authorized
    /\ program = "tgcheck" /\ main = "working" => started = "ok"
    /\ main \in {"new", "starting"} => started = "no"
    /\ main = "new" => runner = "none"
    /\ main \notin {"new", "exited"} => runner # "none"

(* Calls are made by the pipeline only.                                    *)
CallsWhileWorking ==
    \A c \in Callers :
        /\ step[c] # "idle" => main = "working"
        /\ IF step[c] = "returning" THEN reply[c] \in Replies ELSE reply[c] = NoReply

ClientInv ==
    /\ ClientTypeOK /\ APIFollowsRunner /\ StartMeansReady /\ CallsWhileWorking
    /\ SkippedOnlyAfterEnd /\ AsksAuthorised

(* A worker without a reply has not skipped. *)
LEMMA NoReplyIsNoSkip == NoReply[1] # "SKIPPED"
BY DEF NoReply

(* Initially nothing is connected and nobody calls. *)
LEMMA ClientInitInv == ClientInit => ClientInv
<1> SUFFICES ASSUME ClientInit PROVE ClientInv
    OBVIOUS
<1>1. ClientTypeOK
    <2>1. [c \in Callers |-> MaxCalls] \in [Callers -> 0..MaxCalls]
        BY MaxCallsAssumption
    <2>2. [c \in Callers |-> NoReply] \in [Callers -> Replies \cup {NoReply}]
        OBVIOUS
    <2>3. /\ interrupted \in BOOLEAN /\ stopped \in BOOLEAN
          /\ rawAPI \in BOOLEAN /\ ready \in BOOLEAN /\ authorized \in BOOLEAN
        BY Zenon DEF ClientInit
    <2> QED
        BY <2>1, <2>2, <2>3 DEF ClientInit, ClientTypeOK
<1>2. APIFollowsRunner /\ StartMeansReady /\ CallsWhileWorking
    BY DEF ClientInit, APIFollowsRunner, StartMeansReady, CallsWhileWorking
<1>3. SkippedOnlyAfterEnd /\ AsksAuthorised
    BY DEF ClientInit, SkippedOnlyAfterEnd, AsksAuthorised
<1> QED
    BY <1>1, <1>2, <1>3 DEF ClientInv

(* The goroutine's steps keep the invariant. *)
LEMMA RunnerStepInv ==
    ASSUME ClientInv, RunnerStep
    PROVE  ClientInv'
<1> USE DEF ClientInv, ClientTypeOK, APIFollowsRunner, StartMeansReady,
            CallsWhileWorking, SkippedOnlyAfterEnd, AsksAuthorised, mainVars, callVars
<1>1. CASE Connect
    BY <1>1 DEF Connect
<1>2. CASE RunReturned
    BY <1>2 DEF RunReturned
<1>3. CASE EndRunner
    BY <1>3 DEF EndRunner
<1> QED
    BY <1>1, <1>2, <1>3 DEF RunnerStep

(* The steps of Start, EnsureAuthenticated and Close keep the invariant. *)
LEMMA MainStepInv ==
    ASSUME ClientInv, MainStep
    PROVE  ClientInv'
<1> USE DEF ClientInv, ClientTypeOK, APIFollowsRunner, StartMeansReady,
            CallsWhileWorking, SkippedOnlyAfterEnd, AsksAuthorised, connVars, callVars
<1>1. CASE RefuseLaunch \/ LaunchRunner
    BY <1>1 DEF RefuseLaunch, LaunchRunner
<1>2. CASE StartReady
    BY <1>2, NoReplyIsNoSkip DEF StartReady
<1>3. ASSUME NEW why \in {"stopped", "cancelled", "timeout"}, StartFails(why)
      PROVE  ClientInv'
    BY <1>3 DEF StartFails
<1>4. CASE StatusKnown
    BY <1>4 DEF StatusKnown
<1>5. CASE LogIn
    BY <1>5 DEF LogIn
<1>6. CASE AuthFails
    BY <1>6 DEF AuthFails
<1>7. CASE PipelineReturns
    BY <1>7 DEF PipelineReturns, CallsDone
<1>8. CASE Close
    BY <1>8 DEF Close
<1>9. CASE Closed
    BY <1>9 DEF Closed
<1> QED
    BY <1>1, <1>2, <1>3, <1>4, <1>5, <1>6, <1>7, <1>8, <1>9 DEF MainStep

(* A worker that answers without Telegram, or with it, keeps the invariant *)
(* as long as it reports SKIPPED only on a client without an API.          *)
LEMMA AnswerInv ==
    ASSUME ClientInv, NEW c \in Callers, NEW r \in Replies,
           main = "working", Answer(c, r),
           r[1] = "SKIPPED" => ~rawAPI,
           left' \in [Callers -> 0..MaxCalls],
           UNCHANGED <<interrupted, connVars, mainVars>>
    PROVE  ClientInv'
<1>1. /\ step' = [step EXCEPT ![c] = "returning"]
      /\ reply' = [reply EXCEPT ![c] = r]
      /\ UNCHANGED <<interrupted, stopped, runner, rawAPI, ready, authorized, program, main, started>>
    BY DEF Answer, connVars, mainVars
<1>2. ClientTypeOK' /\ APIFollowsRunner' /\ StartMeansReady'
    BY <1>1 DEF ClientInv, ClientTypeOK, APIFollowsRunner, StartMeansReady
<1>3. CallsWhileWorking' /\ AsksAuthorised'
    BY <1>1 DEF ClientInv, ClientTypeOK, CallsWhileWorking, AsksAuthorised, StartMeansReady
<1>4. SkippedOnlyAfterEnd'
    <2> SUFFICES ASSUME started = "ok", NEW x \in Callers, reply'[x][1] = "SKIPPED"
                 PROVE  runner = "ended"
        BY <1>1 DEF SkippedOnlyAfterEnd
    <2>1. CASE x = c
        BY <1>1, <2>1 DEF ClientInv, ClientTypeOK, APIFollowsRunner, StartMeansReady
    <2>2. CASE x # c
        BY <1>1, <2>2 DEF ClientInv, ClientTypeOK, SkippedOnlyAfterEnd
    <2> QED
        BY <2>1, <2>2
<1> QED
    BY <1>2, <1>3, <1>4 DEF ClientInv

(* A worker that goes on without an answer.                                *)
LEMMA AdvanceInv ==
    ASSUME ClientInv, NEW c \in Callers, main = "working",
           NEW to \in {"idle", "waiting", "resolving", "flooded"},
           step' = [step EXCEPT ![c] = to],
           reply' = reply \/ reply' = [reply EXCEPT ![c] = NoReply],
           to # "idle" => step[c] # "returning",
           to = "idle" => reply' = [reply EXCEPT ![c] = NoReply],
           left' \in [Callers -> 0..MaxCalls],
           UNCHANGED <<interrupted, connVars, mainVars>>
    PROVE  ClientInv'
<1>1. UNCHANGED <<interrupted, stopped, runner, rawAPI, ready, authorized, program, main, started>>
    BY DEF connVars, mainVars
<1>2. \A x \in Callers : reply'[x] = reply[x] \/ reply'[x] = NoReply
    BY DEF ClientInv, ClientTypeOK
<1>3. ClientTypeOK' /\ APIFollowsRunner' /\ StartMeansReady'
    <2>1. reply' \in [Callers -> Replies \cup {NoReply}]
        BY DEF ClientInv, ClientTypeOK
    <2>2. step' \in [Callers -> {"idle", "waiting", "resolving", "flooded", "returning"}]
        BY DEF ClientInv, ClientTypeOK
    <2>3. ClientTypeOK'
        BY <1>1, <2>1, <2>2 DEF ClientInv, ClientTypeOK
    <2>4. APIFollowsRunner' /\ StartMeansReady'
        BY <1>1 DEF ClientInv, APIFollowsRunner, StartMeansReady
    <2> QED
        BY <2>3, <2>4
<1>4. CallsWhileWorking'
    <2>1. step'[c] # "returning" /\ reply'[c] = NoReply
        <3>1. CASE to = "idle"
            BY <3>1 DEF ClientInv, ClientTypeOK
        <3>2. CASE to # "idle"
            BY <1>2, <3>2 DEF ClientInv, ClientTypeOK, CallsWhileWorking
        <3> QED
            BY <3>1, <3>2
    <2>2. ASSUME NEW x \in Callers \ {c}
          PROVE  step'[x] = step[x] /\ reply'[x] = reply[x]
        BY DEF ClientInv, ClientTypeOK
    <2> QED
        BY <1>1, <2>1, <2>2 DEF ClientInv, CallsWhileWorking
<1>5. AsksAuthorised'
    BY <1>1 DEF ClientInv, ClientTypeOK, AsksAuthorised, StartMeansReady
<1>6. SkippedOnlyAfterEnd'
    BY <1>1, <1>2 DEF ClientInv, SkippedOnlyAfterEnd, NoReply
<1> QED
    BY <1>3, <1>4, <1>5, <1>6 DEF ClientInv

(* The steps of ValidateUsername keep the invariant. *)
LEMMA CallStepInv ==
    ASSUME ClientInv, NEW c \in Callers, CallStep(c)
    PROVE  ClientInv'
<1>1. main = "working" /\ left \in [Callers -> 0..MaxCalls]
    BY DEF ClientInv, ClientTypeOK, CallsWhileWorking, CallStep, CallAnswered, CallBegins,
           WaitOver, WaitInterrupted, Resolved, ResolveFails, FloodBegins, FloodOver,
           FloodInterrupted, CallReturns, Advance, CallGoesOn, MayCall
<1>2. left[c] > 0 /\ left' = [left EXCEPT ![c] = @ - 1] => left' \in [Callers -> 0..MaxCalls]
    BY <1>1, MaxCallsAssumption
<1>3. CASE CallAnswered(c)
    BY <1>1, <1>2, <1>3, AnswerInv DEF CallAnswered, MayCall, Replies
<1>4. CASE WaitInterrupted(c) \/ Resolved(c) \/ ResolveFails(c) \/ FloodInterrupted(c)
    BY <1>1, <1>4, AnswerInv
       DEF WaitInterrupted, Resolved, ResolveFails, FloodInterrupted, Replies
<1>5. CASE CallBegins(c)
    BY <1>1, <1>2, <1>5, AdvanceInv DEF CallBegins, MayCall
<1>6. CASE WaitOver(c) \/ FloodBegins(c) \/ FloodOver(c)
    BY <1>1, <1>6, AdvanceInv DEF WaitOver, FloodBegins, FloodOver, Advance
<1>7. CASE CallReturns(c)
    BY <1>1, <1>7, AdvanceInv DEF CallReturns
<1> QED
    BY <1>3, <1>4, <1>5, <1>6, <1>7 DEF CallStep, CallGoesOn

(* The API follows the goroutine, and workers call only between Start and Close. *)
THEOREM ClientInvHolds == ClientSpec => []ClientInv
<1>1. ASSUME ClientInv, Interrupt \/ Terminated \/ UNCHANGED clientVars
      PROVE  ClientInv'
    <2>1. /\ interrupted' \in BOOLEAN
          /\ UNCHANGED <<stopped, runner, rawAPI, ready, authorized, program, main, started>>
          /\ UNCHANGED <<step, reply, left>>
        BY <1>1 DEF ClientInv, ClientTypeOK, Interrupt, Terminated, clientVars,
                    connVars, mainVars, callVars
    <2>2. ClientTypeOK' /\ APIFollowsRunner' /\ StartMeansReady' /\ CallsWhileWorking'
        BY <1>1, <2>1 DEF ClientInv, ClientTypeOK, APIFollowsRunner, StartMeansReady,
                          CallsWhileWorking
    <2>3. SkippedOnlyAfterEnd' /\ AsksAuthorised'
        BY <1>1, <2>1 DEF ClientInv, SkippedOnlyAfterEnd, AsksAuthorised
    <2> QED
        BY <2>2, <2>3 DEF ClientInv
<1>2. ClientInv /\ [ClientNext]_clientVars => ClientInv'
    BY <1>1, RunnerStepInv, MainStepInv, CallStepInv DEF ClientNext
<1> QED
    BY <1>2, ClientInitInv, PTL DEF ClientSpec

(* After the goroutine has ended no worker finds an API.                   *)
THEOREM EndedHoldsNoAPIHolds == ClientSpec => []EndedHoldsNoAPI
<1>1. ClientInv => EndedHoldsNoAPI
    BY DEF ClientInv, APIFollowsRunner, EndedHoldsNoAPI
<1> QED
    BY <1>1, ClientInvHolds, PTL

(* On a started client, SKIPPED means that the connection is gone.         *)
THEOREM SkippedOnlyAfterEndHolds == ClientSpec => []SkippedOnlyAfterEnd
<1>1. ClientInv => SkippedOnlyAfterEnd
    BY DEF ClientInv
<1> QED
    BY <1>1, ClientInvHolds, PTL

(* On a started client, Telegram is asked on an authorised session only.   *)
THEOREM AsksAuthorisedHolds == ClientSpec => []AsksAuthorised
<1>1. ClientInv => AsksAuthorised
    BY DEF ClientInv
<1> QED
    BY <1>1, ClientInvHolds, PTL

(* Every reply is one of the results ValidateUsername can give.            *)
THEOREM ClientTypeCorrect == ClientSpec => []ClientTypeOK
<1>1. ClientInv => ClientTypeOK
    BY DEF ClientInv
<1> QED
    BY <1>1, ClientInvHolds, PTL

-----------------------------------------------------------------------------
(*****************************************************************************)
(* The composition keeps to both of its parts, whose theorems therefore      *)
(* hold of it: every step is a step of the client or leaves it alone, and    *)
(* every step is a step of the cache or leaves it alone.  The second needs   *)
(* the client's invariant: what a call returns is a verdict or an error.     *)
(*****************************************************************************)
(* No verdict is cached before the program works with the client.          *)
NoneCachedYet ==
    main \in {"new", "starting", "authenticating", "prompting"} =>
        \A h \in Handles : tgCache[h] = Absent

LookupsInv == NoneCachedYet /\ CachedSkipIsFinal

(* Every step is one of the client's, or none. *)
LEMMA StepKeepsClient ==
    ASSUME [LookupsNext]_lookupVars
    PROVE  [ClientNext]_clientVars
BY CallersAssumption
   DEF LookupsNext, lookupVars, ConnectionStep, MainProgramStep, LookupStep, LookUp, Fly, Ask,
       Answered, CheckName, InterruptAll, Terminated, ClientNext, CallStep

(* Every step is one of the cache's, or none. *)
LEMMA StepKeepsCache ==
    ASSUME ClientInv, [LookupsNext]_lookupVars
    PROVE  [CacheNext]_cacheVars
<1>1. ASSUME NEW w \in Workers, Answered(w)
      PROVE  CacheNext
  <2>1. w \in Callers /\ step[w] = "returning"
    BY <1>1, CallersAssumption DEF Answered, CallReturns
  <2>2. reply[w] \in Replies
    BY <2>1 DEF ClientInv, CallsWhileWorking
  <2>3. CASE reply[w][1] = "error"
    BY <1>1, <2>3 DEF Answered, CacheNext, FlightStep
  <2>4. CASE reply[w][1] # "error"
    <3>1. reply[w][1] \in Statuses
      BY <2>2, <2>4, RepliesAssumption
    <3> QED
      BY <1>1, <2>4, <3>1 DEF Answered, CacheNext, FlightStep
  <2> QED
    BY <2>3, <2>4
<1>2. ASSUME NEW w \in Workers, NEW h \in Handles, LookUp(w, h)
      PROVE  CacheNext
    BY <1>2 DEF LookUp, CacheNext
<1>3. ASSUME NEW w \in Workers, Fly(w)
      PROVE  CacheNext
    BY <1>3 DEF Fly, CacheNext, FlightStep
<1>4. ASSUME NEW w \in Workers, Ask(w) \/ CheckName(w)
      PROVE  UNCHANGED cacheVars
    BY <1>4 DEF Ask, CheckName
<1> QED
    BY <1>1, <1>2, <1>3, <1>4 DEF LookupsNext, lookupVars, ConnectionStep, MainProgramStep,
       LookupStep, InterruptAll, CacheNext

-----------------------------------------------------------------------------
(* The composition implements the client: a cache in front of it makes no   *)
(* call that the client's workers could not make.                           *)
THEOREM LookupsKeepClient == LookupsSpec => ClientSpec
<1>1. LookupsInit => ClientInit
    BY DEF LookupsInit
<1> QED
    BY <1>1, StepKeepsClient, PTL DEF LookupsSpec, ClientSpec

(* The composition implements the cache's specification, in which any       *)
(* validator may stand behind the flight.                                   *)
THEOREM LookupsKeepCache == LookupsSpec => CacheSpec
<1>1. LookupsInit => CacheInit
    BY DEF LookupsInit
<1> QED
    BY <1>1, StepKeepsCache, LookupsKeepClient, ClientInvHolds, PTL DEF LookupsSpec, CacheSpec

(* The cache changes only by an answer, and answers come while it works.    *)
LEMMA CacheFollowsAnswers ==
    ASSUME ClientInv, [LookupsNext]_lookupVars, tgCache' # tgCache
    PROVE  \E w \in Workers :
               /\ main = "working" /\ main' = main /\ runner' = runner /\ started' = started
               /\ tgCache' = [tgCache EXCEPT ![vHandle[w]] = reply[w][1]]
<1>1. ASSUME NEW w \in Workers, Answered(w)
      PROVE  /\ main = "working" /\ main' = main /\ runner' = runner /\ started' = started
             /\ tgCache' = [tgCache EXCEPT ![vHandle[w]] = reply[w][1]]
  <2>1. ~ValidatorFails(w)
    BY DEF ValidatorFails
  <2>2. ValidatorAnswers(w, reply[w][1]) /\ CallReturns(w)
    BY <1>1, <2>1 DEF Answered
  <2> QED
    BY <2>2, CallersAssumption
       DEF ValidatorAnswers, CallReturns, connVars, mainVars, ClientInv, CallsWhileWorking
<1> QED
    BY <1>1 DEF LookupsNext, lookupVars, cacheVars, ConnectionStep, MainProgramStep, LookupStep,
       LookUp, CacheHit, CacheMiss, Fly, LeadFlight, JoinFlight, FinishFlight, ReturnVerdict,
       Ask, CheckName, InterruptAll, CancelContext

(* Where the program is and what the connection does, as far as it matters. *)
LEMMA ProgramMovesOn ==
    ASSUME ClientInv, [ClientNext]_clientVars
    PROVE  /\ runner = "ended" => runner' = "ended"
           /\ main' \in {"new", "starting", "authenticating", "prompting"} =>
                main \in {"new", "starting", "authenticating", "prompting"}
           /\ started' = "ok" => started = "ok" \/ main = "starting"
<1>1. CASE RunnerStep
    BY <1>1 DEF RunnerStep, Connect, RunReturned, EndRunner, mainVars
<1>2. CASE MainStep
    BY <1>2 DEF MainStep, RefuseLaunch, LaunchRunner, StartReady, StartFails, StatusKnown, LogIn,
       AuthFails, PipelineReturns, Close, Closed, connVars, ClientInv, StartMeansReady
<1>3. ASSUME NEW c \in Callers, CallStep(c)
      PROVE  UNCHANGED <<runner, main, started>>
    BY <1>3 DEF CallStep, CallGoesOn, CallAnswered, CallBegins, WaitOver, WaitInterrupted,
       Resolved, ResolveFails, FloodBegins, FloodOver, FloodInterrupted, CallReturns, Advance,
       connVars, mainVars
<1>4. CASE Interrupt \/ Terminated \/ UNCHANGED clientVars
    BY <1>4 DEF Interrupt, Terminated, clientVars, connVars, mainVars
<1> QED
    BY <1>1, <1>2, <1>3, <1>4 DEF ClientNext

(* Every step keeps what is known of cached skips. *)
LEMMA LookupsStepInv ==
    ASSUME ClientInv, CacheTypeOK, LookupsInv, [LookupsNext]_lookupVars
    PROVE  LookupsInv'
<1>1. [ClientNext]_clientVars
    BY StepKeepsClient
<1>2. CASE tgCache' = tgCache
    BY <1>1, <1>2, ProgramMovesOn DEF LookupsInv, NoneCachedYet, CachedSkipIsFinal, Absent
<1>3. CASE tgCache' # tgCache
  <2>1. PICK w \in Workers :
            /\ main = "working" /\ main' = main /\ runner' = runner /\ started' = started
            /\ tgCache' = [tgCache EXCEPT ![vHandle[w]] = reply[w][1]]
    BY <1>3, CacheFollowsAnswers
  <2>2. started = "ok" /\ reply[w][1] = "SKIPPED" => runner = "ended"
    BY CallersAssumption DEF ClientInv, SkippedOnlyAfterEnd
  <2>3. \A h \in Handles : tgCache'[h] = "SKIPPED" =>
            tgCache[h] = "SKIPPED" \/ reply[w][1] = "SKIPPED"
    BY <2>1 DEF CacheTypeOK
  <2> QED
    BY <2>1, <2>2, <2>3 DEF LookupsInv, NoneCachedYet, CachedSkipIsFinal
<1> QED
    BY <1>2, <1>3

(* On a client that started, a cached SKIPPED is never overtaken by the     *)
(* connection.                                                              *)
THEOREM CachedSkipIsFinalHolds == LookupsSpec => []CachedSkipIsFinal
<1>1. LookupsInit => LookupsInv
    BY DEF LookupsInit, CacheInit, ClientInit, LookupsInv, NoneCachedYet, CachedSkipIsFinal
<1>2. LookupsInv => CachedSkipIsFinal
    BY DEF LookupsInv
<1> QED
    BY <1>1, <1>2, LookupsStepInv, LookupsKeepClient, LookupsKeepCache, ClientInvHolds,
       CacheTypeCorrect, PTL DEF LookupsSpec
=============================================================================
