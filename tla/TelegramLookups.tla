--------------------------- MODULE TelegramLookups ---------------------------
(***************************************************************************)
(* TelegramCache over TelegramClient, as cmd/app composes them: the        *)
(* validator that the leader of a flight calls is ValidateUsername of the  *)
(* shared client.  A worker's flight goes through every wait of the        *)
(* client, limiter and FLOOD_WAIT included, with the joiners waiting       *)
(* behind it, and the cache keeps what the client said on whatever it      *)
(* rested.  cmd/tgcheck calls the client without a cache.                  *)
(*                                                                         *)
(* One context is behind both: what interrupts the client cancels the      *)
(* lookups.                                                                *)
(***************************************************************************)
EXTENDS TelegramClient, TelegramCache

CONSTANT MaxLookups     \* bound: how many handles the leads of a worker have

ASSUME MaxLookupsAssumption == MaxLookups \in 0..MaxCalls
ASSUME CallersAssumption    == Callers = Workers
ASSUME RepliesAssumption    == {r[1] : r \in Replies} \ {"error"} \subseteq Statuses

VARIABLE todo           \* worker -> handles it has yet to look up

lookupVars == <<clientVars, cacheVars, todo>>

LookupsInit ==
    /\ ClientInit /\ CacheInit
    /\ todo = [w \in Workers |-> MaxLookups]

-----------------------------------------------------------------------------
\* processTarget asks for the next handle of a lead
LookUp(w, h) ==
    /\ program = "app" /\ main = "working"
    /\ todo[w] > 0
    /\ CacheHit(w, h) \/ CacheMiss(w, h)
    /\ todo' = [todo EXCEPT ![w] = @ - 1]
    /\ UNCHANGED clientVars

\* the flight opens, is joined or ends, and validateTelegram returns
Fly(w) ==
    /\ LeadFlight(w) \/ JoinFlight(w) \/ FinishFlight(w) \/ ReturnVerdict(w)
    /\ UNCHANGED <<clientVars, todo>>

\* the leader is in ValidateUsername
Ask(w) ==
    /\ vStep[w] = "calling"
    /\ CallGoesOn(w)
    /\ UNCHANGED <<cacheVars, todo>>

\* ValidateUsername returns to the leader: a verdict is cached, an error is not
Answered(w) ==
    /\ CallReturns(w)
    /\ IF reply[w][1] = "error" THEN ValidatorFails(w) ELSE ValidatorAnswers(w, reply[w][1])
    /\ UNCHANGED todo

\* tgcheck's loop
CheckName(w) ==
    /\ program = "tgcheck"
    /\ CallStep(w)
    /\ UNCHANGED <<cacheVars, todo>>

LookupStep(w) ==
    \/ \E h \in Handles : LookUp(w, h)
    \/ Fly(w) \/ Ask(w) \/ Answered(w) \/ CheckName(w)

\* a worker leaves the pool without handles to look up, or early on an interrupt
LookupsDone ==
    \A w \in Workers :
        vStep[w] = "idle" /\ (program = "app" => todo[w] = 0 \/ interrupted)

MainProgramStep ==
    /\ MainStep
    /\ main = "working" => LookupsDone
    /\ UNCHANGED <<cacheVars, todo>>

ConnectionStep == RunnerStep /\ UNCHANGED <<cacheVars, todo>>

InterruptAll == Interrupt /\ CancelContext /\ UNCHANGED todo

LookupsNext ==
    \/ ConnectionStep \/ MainProgramStep
    \/ \E w \in Workers : LookupStep(w)
    \/ InterruptAll
    \/ Terminated /\ UNCHANGED <<cacheVars, todo>>

LookupsSpec == LookupsInit /\ [][LookupsNext]_lookupVars

\* Go runs every goroutine that can run.  client.Run is only sure to return when
\* its context is done; Start's timer and the calls of Telegram come to an end;
\* nobody is sure to answer the prompt.
LookupsFairSpec ==
    /\ LookupsSpec
    /\ WF_lookupVars(RunDone /\ ConnectionStep)
    /\ WF_lookupVars(runner = "stopping" /\ ConnectionStep)
    /\ WF_lookupVars(main # "prompting" /\ MainProgramStep)
    /\ \A w \in Workers : WF_lookupVars(LookupStep(w))

-----------------------------------------------------------------------------
(* What the cache says for the rest of the launch cannot be overtaken by   *)
(* the connection: on a client that started, a handle is cached as SKIPPED *)
(* only when the connection has ended for good, and no worker whose call   *)
(* began earlier brings a skip in later.                                   *)
CachedSkipIsFinal ==
    started = "ok" => \A h \in Handles : tgCache[h] = "SKIPPED" => runner = "ended"

(* Close returns, whatever state Start left the goroutine in.              *)
CloseReturns == (main = "closing") ~> (main = "exited")

(* An interrupt ends the program, with calls in every kind of wait and     *)
(* workers waiting behind them for a flight, unless it is waiting for an   *)
(* answer at the terminal.                                                 *)
InterruptEndsProgram == interrupted ~> (main \in {"exited", "prompting"})
=============================================================================
