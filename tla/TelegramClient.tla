--------------------------- MODULE TelegramClient ---------------------------
(***************************************************************************)
(* TGClient as cmd/app and cmd/tgcheck drive it: Start launches a          *)
(* goroutine that holds the connection (client.Run) and waits for it at    *)
(* most 15 seconds, EnsureAuthenticated logs the session in, the pool's    *)
(* workers (in tgcheck: a loop over the names given) call                  *)
(* ValidateUsername, and a deferred Close ends the goroutine and waits.    *)
(*                                                                         *)
(* The three share rawAPI: the goroutine sets it when the connection is up *)
(* and takes it away when client.Run has returned; a worker reads it once  *)
(* under c.mu and goes on with what it read.  Start's timeout leaves the   *)
(* goroutine running.                                                      *)
(*                                                                         *)
(* Telegram itself is external: it may connect, refuse, break off, answer  *)
(* an authorised session, or ask for a pause (FLOOD_WAIT) any number of    *)
(* times.  How long a wait takes is left to RateLimiter.                   *)
(***************************************************************************)
EXTENDS Naturals

CONSTANTS
    Callers,    \* the workers that validate handles; tgcheck is one at a time
    MaxCalls    \* bound: how many handles each of them has to validate

ASSUME MaxCallsAssumption == MaxCalls \in Nat

VARIABLES
    interrupted,    \* the context of the program is done
    stopped,        \* Close has cancelled the context of client.Run
    runner,         \* the goroutine around client.Run
    rawAPI,         \* c.rawAPI # nil
    ready,          \* the channel ready is closed
    authorized,     \* Telegram accepts the session (persisted in its file)
    program,        \* which command runs
    main,           \* where the program's own goroutine is
    started,        \* how Start ended
    step,           \* worker -> where it is in ValidateUsername
    reply,          \* worker -> the result it is about to return
    left            \* worker -> handles it has yet to validate

connVars   == <<stopped, runner, rawAPI, ready, authorized>>
mainVars   == <<program, main, started>>
callVars   == <<step, reply, left>>
clientVars == <<interrupted, connVars, mainVars, callVars>>

\* the status of a TGValidationResult and what it rests on; "error" is an error
Replies ==
    {<<"INVALID", "empty">>, <<"SKIPPED", "not started">>, <<"error", "context">>}
        \cup ({"VALID", "DELETED", "NOT_FOUND"} \X {"answer"})
        \cup ({"NOT_FOUND", "INVALID"} \X {"failure"})

NoReply == <<"none", "none">>

ClientTypeOK ==
    /\ interrupted \in BOOLEAN /\ stopped \in BOOLEAN
    /\ runner \in {"none", "dialing", "serving", "stopping", "ended"}
    /\ rawAPI \in BOOLEAN /\ ready \in BOOLEAN /\ authorized \in BOOLEAN
    /\ program \in {"app", "tgcheck"}
    /\ main \in {"new", "starting", "authenticating", "prompting", "working",
                 "closing", "awaiting", "exited"}
    /\ started \in {"no", "ok", "stopped", "cancelled", "timeout"}
    /\ step \in [Callers -> {"idle", "waiting", "resolving", "flooded", "returning"}]
    /\ reply \in [Callers -> Replies \cup {NoReply}]
    /\ left \in [Callers -> 0..MaxCalls]

ClientInit ==
    /\ interrupted = FALSE /\ stopped = FALSE
    /\ runner = "none"
    /\ rawAPI = FALSE /\ ready = FALSE
    /\ authorized \in BOOLEAN
    /\ program \in {"app", "tgcheck"}
    /\ main = "new" /\ started = "no"
    /\ step = [c \in Callers |-> "idle"]
    /\ reply = [c \in Callers |-> NoReply]
    /\ left = [c \in Callers |-> MaxCalls]

-----------------------------------------------------------------------------
(* The goroutine around client.Run.                                        *)

RunDone == interrupted \/ stopped

\* a careless variant: ready is closed before rawAPI is set
ConnectUnset ==
    /\ runner = "dialing"
    /\ runner' = "serving"
    /\ ready' = TRUE
    /\ UNCHANGED <<interrupted, stopped, rawAPI, authorized, mainVars, callVars>>

\* the connection is up: the callback sets rawAPI and closes ready under c.mu
Connect ==
    /\ runner = "dialing"
    /\ runner' = "serving"
    /\ rawAPI' = TRUE /\ ready' = TRUE
    /\ UNCHANGED <<interrupted, stopped, authorized, mainVars, callVars>>

\* client.Run returns: the connection failed, or its context is done
RunReturned ==
    /\ runner \in {"dialing", "serving"}
    /\ runner' = "stopping"
    /\ UNCHANGED <<interrupted, stopped, rawAPI, ready, authorized, mainVars, callVars>>

\* a careless variant: Close keeps c.mu while it waits, and the goroutine needs it
EndLockedOut ==
    /\ runner = "stopping" /\ main # "awaiting"
    /\ runner' = "ended"
    /\ rawAPI' = FALSE
    /\ UNCHANGED <<interrupted, stopped, ready, authorized, mainVars, callVars>>

\* startErr is set, rawAPI taken away and done closed, under c.mu
EndRunner ==
    /\ runner = "stopping"
    /\ runner' = "ended"
    /\ rawAPI' = FALSE
    /\ UNCHANGED <<interrupted, stopped, ready, authorized, mainVars, callVars>>

-----------------------------------------------------------------------------
(* The program: Start, EnsureAuthenticated, the pipeline, Close.           *)

\* credentials or names are missing, a file cannot be read: there is no client yet
RefuseLaunch ==
    /\ main = "new"
    /\ main' = "exited"
    /\ UNCHANGED <<interrupted, connVars, program, started, callVars>>

LaunchRunner ==
    /\ main = "new"
    /\ main' = "starting"
    /\ runner' = "dialing"
    /\ UNCHANGED <<interrupted, stopped, rawAPI, ready, authorized, program, started, callVars>>

\* select: <-ready
StartReady ==
    /\ main = "starting" /\ ready
    /\ main' = "authenticating" /\ started' = "ok"
    /\ UNCHANGED <<interrupted, connVars, program, callVars>>

\* select: <-done, <-ctx.Done() or 15 seconds; cmd/app logs it and goes on,
\* tgcheck returns
StartFails(why) ==
    /\ main = "starting"
    /\ why = "stopped" => runner = "ended"
    /\ why = "cancelled" => interrupted
    /\ main' = (IF program = "app" THEN "working" ELSE "closing") /\ started' = why
    /\ UNCHANGED <<interrupted, connVars, program, callVars>>

\* a careless variant: whatever the status is, the program goes on
Unchecked ==
    /\ main = "authenticating"
    /\ main' = "working"
    /\ UNCHANGED <<interrupted, connVars, program, started, callVars>>

\* Auth().Status: the session is authorised, or the login is interactive
StatusKnown ==
    /\ main = "authenticating" /\ runner = "serving"
    /\ main' = IF authorized THEN "working" ELSE "prompting"
    /\ UNCHANGED <<interrupted, connVars, program, started, callVars>>

\* the answers typed at the terminal are right
LogIn ==
    /\ main = "prompting" /\ runner = "serving"
    /\ authorized' = TRUE
    /\ main' = "working"
    /\ UNCHANGED <<interrupted, stopped, runner, rawAPI, ready, program, started, callVars>>

\* the status cannot be had, or the login fails: run returns, Close is deferred
AuthFails ==
    /\ main \in {"authenticating", "prompting"}
    /\ main' = "closing"
    /\ UNCHANGED <<interrupted, connVars, program, started, callVars>>

\* no worker is in a call.  tgcheck has asked for every name, whatever became of
\* the context; the pipeline may have had fewer, or have been interrupted
CallsDone ==
    \A c \in Callers : step[c] = "idle" /\ (program = "tgcheck" => left[c] = 0)

\* the pipeline, or tgcheck's loop, is over
PipelineReturns ==
    /\ main = "working" /\ CallsDone
    /\ main' = "closing"
    /\ UNCHANGED <<interrupted, connVars, program, started, callVars>>

\* a careless variant: Close waits for a goroutine it has not told to stop
CloseUncancelled ==
    /\ main = "closing"
    /\ main' = "awaiting"
    /\ UNCHANGED <<interrupted, connVars, program, started, callVars>>

\* Close cancels client.Run's context under c.mu ...
Close ==
    /\ main = "closing"
    /\ stopped' = TRUE
    /\ main' = "awaiting"
    /\ UNCHANGED <<interrupted, runner, rawAPI, ready, authorized, program, started, callVars>>

\* ... and waits for done with c.mu released
Closed ==
    /\ main = "awaiting" /\ runner = "ended"
    /\ main' = "exited"
    /\ UNCHANGED <<interrupted, connVars, program, started, callVars>>

-----------------------------------------------------------------------------
(* ValidateUsername.                                                       *)

Answer(c, r) ==
    /\ step' = [step EXCEPT ![c] = "returning"]
    /\ reply' = [reply EXCEPT ![c] = r]

Advance(c, from, to) ==
    /\ step[c] = from
    /\ step' = [step EXCEPT ![c] = to]
    /\ UNCHANGED <<interrupted, connVars, mainVars, reply, left>>

\* tgcheck asks for one name after the other
MayCall(c) ==
    /\ main = "working" /\ step[c] = "idle" /\ left[c] > 0
    /\ program = "tgcheck" => \A d \in Callers : step[d] = "idle"

\* the handle is empty, or c.rawAPI is nil at the one time it is read
CallAnswered(c) ==
    /\ MayCall(c)
    /\ left' = [left EXCEPT ![c] = @ - 1]
    /\ \/ Answer(c, <<"INVALID", "empty">>)
       \/ ~rawAPI /\ Answer(c, <<"SKIPPED", "not started">>)
    /\ UNCHANGED <<interrupted, connVars, mainVars>>

\* c.rawAPI is there: from now on the worker holds what it read
CallBegins(c) ==
    /\ MayCall(c) /\ rawAPI
    /\ left' = [left EXCEPT ![c] = @ - 1]
    /\ step' = [step EXCEPT ![c] = "waiting"]
    /\ UNCHANGED <<interrupted, connVars, mainVars, reply>>

\* the limiter's timer fires; select may take it although the context is done too
WaitOver(c) == Advance(c, "waiting", "resolving")

WaitInterrupted(c) ==
    /\ step[c] = "waiting" /\ interrupted
    /\ Answer(c, <<"error", "context">>)
    /\ UNCHANGED <<interrupted, connVars, mainVars, left>>

\* contacts.resolveUsername answers: a user, a deleted user, or no user
Resolved(c) ==
    /\ step[c] = "resolving" /\ runner = "serving" /\ authorized
    /\ \E s \in {"VALID", "DELETED", "NOT_FOUND"} : Answer(c, <<s, "answer">>)
    /\ UNCHANGED <<interrupted, connVars, mainVars, left>>

\* any error but FLOOD_WAIT: classifyError knows one text, the rest is INVALID
ResolveFails(c) ==
    /\ step[c] = "resolving"
    /\ \/ runner = "serving" /\ authorized /\ Answer(c, <<"NOT_FOUND", "failure">>)
       \/ Answer(c, <<"INVALID", "failure">>)
    /\ UNCHANGED <<interrupted, connVars, mainVars, left>>

\* FLOOD_WAIT: the worker sleeps in HandleFloodWait, the limiter is not told
FloodBegins(c) == runner = "serving" /\ Advance(c, "resolving", "flooded")

\* the loop's continue: back to the limiter, as often as Telegram asks
FloodOver(c) == Advance(c, "flooded", "waiting")

\* a careless variant: the pause that was cut short is itself the answer
FloodReported(c) ==
    /\ step[c] = "flooded" /\ interrupted
    /\ Answer(c, <<"FLOOD_WAIT", "failure">>)
    /\ UNCHANGED <<interrupted, connVars, mainVars, left>>

\* the context's own error goes through classifyError: INVALID, with no error
FloodInterrupted(c) ==
    /\ step[c] = "flooded" /\ interrupted
    /\ Answer(c, <<"INVALID", "failure">>)
    /\ UNCHANGED <<interrupted, connVars, mainVars, left>>

CallReturns(c) ==
    /\ step[c] = "returning"
    /\ step' = [step EXCEPT ![c] = "idle"]
    /\ reply' = [reply EXCEPT ![c] = NoReply]
    /\ UNCHANGED <<interrupted, connVars, mainVars, left>>

-----------------------------------------------------------------------------
Interrupt ==
    /\ ~interrupted
    /\ interrupted' = TRUE
    /\ UNCHANGED <<connVars, mainVars, callVars>>

Terminated == main = "exited" /\ UNCHANGED clientVars

RunnerStep == Connect \/ RunReturned \/ EndRunner

MainStep ==
    \/ RefuseLaunch \/ LaunchRunner \/ StartReady
    \/ \E why \in {"stopped", "cancelled", "timeout"} : StartFails(why)
    \/ StatusKnown \/ LogIn \/ AuthFails
    \/ PipelineReturns \/ Close \/ Closed

\* what happens inside a call
CallGoesOn(c) ==
    \/ CallAnswered(c) \/ CallBegins(c)
    \/ WaitOver(c) \/ WaitInterrupted(c)
    \/ Resolved(c) \/ ResolveFails(c)
    \/ FloodBegins(c) \/ FloodOver(c) \/ FloodInterrupted(c)

CallStep(c) == CallGoesOn(c) \/ CallReturns(c)

ClientNext ==
    \/ RunnerStep \/ MainStep
    \/ \E c \in Callers : CallStep(c)
    \/ Interrupt \/ Terminated

ClientSpec == ClientInit /\ [][ClientNext]_clientVars

-----------------------------------------------------------------------------
(* A client whose goroutine has ended holds no API: nobody starts a call   *)
(* on a connection that is gone for good.                                  *)
EndedHoldsNoAPI == runner = "ended" => ~rawAPI

(* Once Start has succeeded, a handle is SKIPPED only if the connection    *)
(* has ended since; while it is up or breaking off, every handle is asked. *)
SkippedOnlyAfterEnd ==
    started = "ok" =>
        \A c \in Callers : reply[c][1] = "SKIPPED" => runner = "ended"

(* A started client asks Telegram only on an authorised session, and       *)
(* tgcheck, which does without the pipeline's fallback, in any case.       *)
AsksAuthorised ==
    started = "ok" \/ program = "tgcheck" => \A c \in Callers : step[c] # "idle" => authorized

(* What cmd/app announces when Start fails: it continues with SKIPPED      *)
(* results (but for handles that are empty).                               *)
SkippedWhenUnavailable ==
    started \in {"stopped", "cancelled", "timeout"} =>
        \A c \in Callers :
            reply[c] \in {NoReply, <<"SKIPPED", "not started">>, <<"INVALID", "empty">>}
=============================================================================
