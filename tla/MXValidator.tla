----------------------------- MODULE MXValidator -----------------------------
(***************************************************************************)
(* The end of Manager.processTarget: validateEmails goes through the       *)
(* addresses of a lead until the domain of one is usable, by a cache of    *)
(* verdicts that all workers share, and SaveLead stores the mark.          *)
(*                                                                         *)
(* The cache is read under one lock, the look-up runs under none, and its  *)
(* verdict is stored under another: workers may look one domain up at the  *)
(* same time, and the last to answer wins.  A look-up whose time is up, or *)
(* whose context is done, counts as a pass and is not cached.              *)
(*                                                                         *)
(* An address stands for its domain, lower-cased by domainOf; the          *)
(* extractor yields no address without one.  The resolver is external.     *)
(***************************************************************************)
EXTENDS Integers, Sequences, Functions

CONSTANTS
    Workers,        \* the goroutines of the pool
    Domains,        \* e-mail domains
    EmailLists      \* the addresses a lead may have, in order

ASSUME EmailListsAssumption == EmailLists \subseteq Seq(Domains)

Absent == "absent"

\* what a look-up may come to: records; none, or the resolver's error; no answer
\* before the look-up's own time was up, or before the context was done
Answers == {"records", "refused", "timeout", "interrupt"}

VARIABLES
    interrupted,    \* the context of Run is done
    cache,          \* domain -> "valid", "invalid" or Absent
    mxStep,         \* worker -> where it is in validateEmails and SaveLead
    emails,         \* worker -> the addresses of its lead
    position,       \* worker -> how far it is in them
    verdict,        \* worker -> what its look-up is about to store; its lead's mark
    answers,        \* history: domain -> what look-ups of it came to
    saved           \* history: the leads stored, with their mark

leadVars == <<emails, position>>
mxVars   == <<interrupted, cache, mxStep, leadVars, verdict, answers, saved>>

MXTypeOK ==
    /\ interrupted \in BOOLEAN
    /\ cache \in [Domains -> {"valid", "invalid", Absent}]
    /\ mxStep \in [Workers -> {"idle", "reading", "looking", "storing", "saving"}]
    /\ emails \in [Workers -> EmailLists \cup {<<>>}]
    /\ position \in [Workers -> Nat]
    /\ \A w \in Workers :
        mxStep[w] \in {"looking", "storing"} => position[w] \in DOMAIN emails[w]
    /\ verdict \in [Workers -> {"valid", "invalid"}]
    /\ answers \in [Domains -> SUBSET Answers]
    /\ saved \subseteq [emails : EmailLists, mark : {"valid", "invalid"}]

MXInit ==
    /\ interrupted = FALSE
    /\ cache = [d \in Domains |-> Absent]
    /\ mxStep = [w \in Workers |-> "idle"]
    /\ emails = [w \in Workers |-> <<>>]
    /\ position = [w \in Workers |-> 0]
    /\ verdict = [w \in Workers |-> "invalid"]
    /\ answers = [d \in Domains |-> {}]
    /\ saved = {}

Goto(w, step) == mxStep' = [mxStep EXCEPT ![w] = step]

\* the domain the worker is at
Domain(w) == emails[w][position[w]]

-----------------------------------------------------------------------------
\* a lead whose Telegram handles are done: validateEmails is called
TakeLead(w, list) ==
    /\ mxStep[w] = "idle"
    /\ Goto(w, "reading")
    /\ emails' = [emails EXCEPT ![w] = list]
    /\ position' = [position EXCEPT ![w] = 1]
    /\ UNCHANGED <<interrupted, cache, verdict, answers, saved>>

\* the first usable domain decides; after the last address there is none
Passes(w) ==
    /\ Goto(w, "saving")
    /\ verdict' = [verdict EXCEPT ![w] = "valid"]
    /\ UNCHANGED position

NextAddress(w) ==
    /\ Goto(w, "reading")
    /\ position' = [position EXCEPT ![w] = @ + 1]
    /\ verdict' = [verdict EXCEPT ![w] = "invalid"]

NoneUsable(w) ==
    /\ mxStep[w] = "reading" /\ position[w] > Len(emails[w])
    /\ Goto(w, "saving")
    /\ UNCHANGED <<interrupted, cache, leadVars, verdict, answers, saved>>

\* the read under mu.RLock finds a verdict
CacheHit(w) ==
    /\ mxStep[w] = "reading" /\ position[w] \in DOMAIN emails[w]
    /\ cache[Domain(w)] # Absent
    /\ IF cache[Domain(w)] = "valid" THEN Passes(w) ELSE NextAddress(w)
    /\ UNCHANGED <<interrupted, cache, emails, answers, saved>>

\* a careless variant: a domain known as invalid is given another chance
MissUnlessValid(w) ==
    /\ mxStep[w] = "reading" /\ position[w] \in DOMAIN emails[w]
    /\ cache[Domain(w)] # "valid"
    /\ Goto(w, "looking")
    /\ UNCHANGED <<interrupted, cache, leadVars, verdict, answers, saved>>

CacheMiss(w) ==
    /\ mxStep[w] = "reading" /\ position[w] \in DOMAIN emails[w]
    /\ cache[Domain(w)] = Absent
    /\ Goto(w, "looking")
    /\ UNCHANGED <<interrupted, cache, leadVars, verdict, answers, saved>>

-----------------------------------------------------------------------------
Answered(w, a) == answers' = [answers EXCEPT ![Domain(w)] = @ \cup {a}]

\* LookupMX returns without an error: records or none
LookupAnswers(w, a) ==
    /\ mxStep[w] = "looking"
    /\ Answered(w, a)
    /\ verdict' = [verdict EXCEPT ![w] = IF a = "records" THEN "valid" ELSE "invalid"]
    /\ Goto(w, "storing")
    /\ UNCHANGED <<interrupted, cache, leadVars, saved>>

\* a careless variant: the failure is taken for a verdict of its own
FailureKept(w) ==
    /\ mxStep[w] = "looking" /\ ~interrupted
    /\ Answered(w, "refused")
    /\ verdict' = [verdict EXCEPT ![w] = "refused"]
    /\ Goto(w, "storing")
    /\ UNCHANGED <<interrupted, cache, leadVars, saved>>

\* it returns an error, and the look-up's context is not done
LookupFails(w) ==
    /\ mxStep[w] = "looking" /\ ~interrupted
    /\ Answered(w, "refused")
    /\ verdict' = [verdict EXCEPT ![w] = "invalid"]
    /\ Goto(w, "storing")
    /\ UNCHANGED <<interrupted, cache, leadVars, saved>>

\* it returns an error, and the look-up's context is done: its time is up, or
\* the program is interrupted
SoftPass(w, a) ==
    /\ mxStep[w] = "looking"
    /\ a = "interrupt" => interrupted
    /\ Answered(w, a)
    /\ Passes(w)
    /\ UNCHANGED <<interrupted, cache, emails, saved>>

\* store, under mu.Lock: the last to answer wins
Store(w) ==
    /\ mxStep[w] = "storing"
    /\ cache' = [cache EXCEPT ![Domain(w)] = verdict[w]]
    /\ IF verdict[w] = "valid" THEN Passes(w) ELSE NextAddress(w)
    /\ UNCHANGED <<interrupted, emails, answers, saved>>

-----------------------------------------------------------------------------
\* processTarget returns; its variables are gone
Return(w) ==
    /\ Goto(w, "idle")
    /\ emails' = [emails EXCEPT ![w] = <<>>]
    /\ position' = [position EXCEPT ![w] = 0]
    /\ verdict' = [verdict EXCEPT ![w] = "invalid"]
    /\ UNCHANGED <<interrupted, cache, answers>>

\* a careless variant: the store does not look at the context
SaveRegardless(w) ==
    /\ mxStep[w] = "saving"
    /\ saved' = saved \cup {[emails |-> emails[w], mark |-> verdict[w]]}
    /\ Return(w)

\* SaveLead: a context that is done is refused before anything is written
Save(w) ==
    /\ mxStep[w] = "saving" /\ ~interrupted
    /\ saved' = saved \cup {[emails |-> emails[w], mark |-> verdict[w]]}
    /\ Return(w)

\* the database refuses the lead, or the context is done
SaveFails(w) ==
    /\ mxStep[w] = "saving"
    /\ Return(w)
    /\ UNCHANGED saved

Interrupt ==
    /\ ~interrupted
    /\ interrupted' = TRUE
    /\ UNCHANGED <<cache, mxStep, leadVars, verdict, answers, saved>>

WorkerStep(w) ==
    \/ \E list \in EmailLists : TakeLead(w, list)
    \/ NoneUsable(w) \/ CacheHit(w) \/ CacheMiss(w)
    \/ \E a \in {"records", "refused"} : LookupAnswers(w, a)
    \/ LookupFails(w)
    \/ \E a \in {"timeout", "interrupt"} : SoftPass(w, a)
    \/ Store(w) \/ Save(w) \/ SaveFails(w)

MXNext == Interrupt \/ \E w \in Workers : WorkerStep(w)

MXSpec == MXInit /\ [][MXNext]_mxVars

-----------------------------------------------------------------------------
(* What stands in the store rests on the resolver.  A lead marked valid    *)
(* has an address whose domain has records or did not answer in time; one  *)
(* marked invalid has none but refused.  The pass an interrupt gives away  *)
(* never gets there, though SaveLead is called with it.                    *)
SavedMarksHaveGrounds ==
    \A s \in saved :
        IF s.mark = "valid"
        THEN \E d \in Range(s.emails) : answers[d] \cap {"records", "timeout"} # {}
        ELSE \A d \in Range(s.emails) : "refused" \in answers[d]

Looking(d) ==
    {w \in Workers : mxStep[w] \in {"looking", "storing"} /\ Domain(w) = d}

(* Which verdict a domain has is open only among the workers whose first   *)
(* look-ups overlap: once it is cached and nobody is looking it up, nobody *)
(* will, and it is the same for every later lead.                          *)
VerdictsSettle ==
    [][\A d \in Domains :
        cache[d] # Absent /\ Looking(d) = {} =>
            cache'[d] = cache[d] /\ Looking(d)' = {}]_mxVars
=============================================================================
