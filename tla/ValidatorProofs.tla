--------------------------- MODULE ValidatorProofs ---------------------------
(*****************************************************************************)
(* Proofs about the two validators' parts that work alone: the validator     *)
(* of e-mail domains and the limiter of the calls to Telegram.               *)
(*****************************************************************************)
EXTENDS MXValidator, RateLimiter, TLAPS

(***************************************************************************)
(* MXValidator for any pool, domains and lists of addresses.               *)
(*                                                                         *)
(* SavedMarksHaveGrounds is about leads that are stored already; what      *)
(* makes it inductive is said of a lead in hand (HandGrounded): every      *)
(* address it has passed was refused, its mark rests on one of its own     *)
(* domains, and only while the program is interrupted may it rest on the   *)
(* interrupt.  The verdicts of others reach it through the cache, which    *)
(* holds answers only (CacheGrounded).                                     *)
(***************************************************************************)
Usable(d)  == answers[d] \cap {"records", "timeout"} # {}
Refused(d) == "refused" \in answers[d]

(* A cached verdict was an answer: neither a time-out nor an interrupt.    *)
CacheGrounded ==
    \A d \in Domains :
        /\ cache[d] = "valid" => "records" \in answers[d]
        /\ cache[d] = "invalid" => Refused(d)

(* What a worker knows of the lead in its hands.                           *)
Hand(w) ==
    /\ mxStep[w] # "idle" => emails[w] \in EmailLists
    /\ mxStep[w] \in {"reading", "looking", "storing"} =>
        \A i \in DOMAIN emails[w] : i < position[w] => Refused(emails[w][i])
    /\ mxStep[w] \in {"idle", "reading", "looking"} => verdict[w] = "invalid"
    /\ mxStep[w] = "storing" =>
        IF verdict[w] = "valid"
        THEN "records" \in answers[Domain(w)] ELSE Refused(Domain(w))
    /\ mxStep[w] = "saving" =>
        IF verdict[w] = "valid"
        THEN interrupted \/ \E d \in Range(emails[w]) : Usable(d)
        ELSE \A d \in Range(emails[w]) : Refused(d)

HandGrounded == \A w \in Workers : Hand(w)

MXInv == MXTypeOK /\ CacheGrounded /\ HandGrounded /\ SavedMarksHaveGrounds

(* The addresses of a lead are domains.                                    *)
LEMMA ListedAreDomains ==
    ASSUME NEW list \in EmailLists
    PROVE  /\ list \in Seq(Domains) /\ Len(list) \in Nat /\ DOMAIN list = 1..Len(list)
           /\ Range(list) \subseteq Domains
           /\ \A i \in DOMAIN list : list[i] \in Range(list)
           /\ \A d \in Range(list) : \E i \in DOMAIN list : list[i] = d
BY EmailListsAssumption DEF Range

(* Initially the invariant holds. *)
LEMMA MXInitInv == MXInit => MXInv
<1> SUFFICES ASSUME MXInit PROVE MXInv
    OBVIOUS
<1>1. MXTypeOK
    BY DEF MXInit, MXTypeOK
<1>2. CacheGrounded /\ HandGrounded /\ SavedMarksHaveGrounds
    BY DEF MXInit, CacheGrounded, HandGrounded, Hand, SavedMarksHaveGrounds, Absent
<1> QED
    BY <1>1, <1>2 DEF MXInv

(* The two ways to leave an address keep the worker's variables in their sets. *)
LEMMA PassOrNextKeepsTypes ==
    ASSUME MXTypeOK, NEW w \in Workers, Passes(w) \/ NextAddress(w),
           UNCHANGED <<interrupted, emails, answers, saved>>,
           cache' \in [Domains -> {"valid", "invalid", Absent}]
    PROVE  MXTypeOK'
<1>1. /\ mxStep' \in [Workers -> {"idle", "reading", "looking", "storing", "saving"}]
      /\ position' \in [Workers -> Nat]
      /\ verdict' \in [Workers -> {"valid", "invalid"}]
  <2>1. CASE Passes(w)
    BY <2>1 DEF MXTypeOK, Passes, Goto
  <2>2. CASE NextAddress(w)
    BY <2>2 DEF MXTypeOK, NextAddress, Goto
  <2> QED
    BY <2>1, <2>2
<1>2. ASSUME NEW v \in Workers, mxStep'[v] \in {"looking", "storing"}
      PROVE  position'[v] \in DOMAIN emails'[v]
  <2>1. mxStep'[w] \in {"saving", "reading"}
    BY DEF MXTypeOK, Passes, NextAddress, Goto
  <2>2. v # w
    BY <1>2, <2>1
  <2>3. mxStep'[v] = mxStep[v] /\ position'[v] = position[v]
    BY <2>2 DEF MXTypeOK, Passes, NextAddress, Goto
  <2> QED
    BY <1>2, <2>3 DEF MXTypeOK
<1> QED
    BY <1>1, <1>2 DEF MXTypeOK

(* Every step keeps the variables in their sets. *)
LEMMA MXTypeStep ==
    ASSUME MXTypeOK, HandGrounded, [MXNext]_mxVars
    PROVE  MXTypeOK'
<1> USE DEF MXTypeOK, Goto, Absent
<1>1. CASE Interrupt
    BY <1>1 DEF Interrupt, leadVars
<1>2. ASSUME NEW w \in Workers, NEW list \in EmailLists, TakeLead(w, list)
      PROVE  MXTypeOK'
    BY <1>2 DEF TakeLead
<1>3. ASSUME NEW w \in Workers, NoneUsable(w)
      PROVE  MXTypeOK'
    BY <1>3 DEF NoneUsable, leadVars
<1>4. ASSUME NEW w \in Workers, CacheHit(w)
      PROVE  MXTypeOK'
  <2>1. /\ UNCHANGED <<interrupted, emails, answers, saved>>
        /\ Passes(w) \/ NextAddress(w)
        /\ cache' \in [Domains -> {"valid", "invalid", Absent}]
    BY <1>4 DEF CacheHit
  <2> QED
    BY <2>1, PassOrNextKeepsTypes
<1>5. ASSUME NEW w \in Workers, CacheMiss(w)
      PROVE  MXTypeOK'
    BY <1>5 DEF CacheMiss, leadVars
<1>6. ASSUME NEW w \in Workers, NEW a \in {"records", "refused"}, LookupAnswers(w, a)
      PROVE  MXTypeOK'
    BY <1>6 DEF LookupAnswers, Answered, Answers, leadVars
<1>7. ASSUME NEW w \in Workers, LookupFails(w)
      PROVE  MXTypeOK'
    BY <1>7 DEF LookupFails, Answered, Answers, leadVars
<1>8. ASSUME NEW w \in Workers, NEW a \in {"timeout", "interrupt"}, SoftPass(w, a)
      PROVE  MXTypeOK'
    BY <1>8 DEF SoftPass, Passes, Answered, Answers
<1>9. ASSUME NEW w \in Workers, Store(w)
      PROVE  MXTypeOK'
  <2>1. /\ UNCHANGED <<interrupted, emails, answers, saved>>
        /\ Passes(w) \/ NextAddress(w)
        /\ cache' \in [Domains -> {"valid", "invalid", Absent}]
    BY <1>9 DEF Store
  <2> QED
    BY <2>1, PassOrNextKeepsTypes
<1>10. ASSUME NEW w \in Workers, Save(w)
       PROVE  MXTypeOK'
    BY <1>10 DEF Save, Return, HandGrounded, Hand
<1>11. ASSUME NEW w \in Workers, SaveFails(w)
       PROVE  MXTypeOK'
    BY <1>11 DEF SaveFails, Return
<1>12. CASE UNCHANGED mxVars
    BY <1>12 DEF mxVars, leadVars
<1> QED
    BY <1>1, <1>2, <1>3, <1>4, <1>5, <1>6, <1>7, <1>8, <1>9, <1>10, <1>11, <1>12
       DEF MXNext, WorkerStep

-----------------------------------------------------------------------------
(* Answers are never forgotten, nor is an interrupt. *)
LEMMA AnswersGrow ==
    ASSUME MXTypeOK, [MXNext]_mxVars
    PROVE  /\ \A d \in Domains : answers[d] \subseteq answers'[d]
           /\ interrupted => interrupted'
<1> USE DEF MXTypeOK
<1>1. ASSUME NEW w \in Workers, NEW a \in Answers, Answered(w, a)
      PROVE  \A d \in Domains : answers[d] \subseteq answers'[d]
    BY <1>1 DEF Answered
<1> QED
    BY <1>1 DEF MXNext, WorkerStep, mxVars, Interrupt, TakeLead, NoneUsable, CacheHit,
       CacheMiss, LookupAnswers, LookupFails, SoftPass, Store, Save, SaveFails, Return, Answers

(* What a worker knows stays true while others move. *)
LEMMA HandUntouched ==
    ASSUME MXTypeOK, [MXNext]_mxVars, NEW v \in Workers, Hand(v),
           mxStep'[v] = mxStep[v], emails'[v] = emails[v],
           position'[v] = position[v], verdict'[v] = verdict[v]
    PROVE  Hand(v)'
<1>1. /\ \A d \in Domains : answers[d] \subseteq answers'[d]
      /\ interrupted => interrupted'
    BY AnswersGrow
<1>2. emails[v] \in EmailLists \/ mxStep[v] = "idle"
    BY DEF Hand
<1>3. CASE mxStep[v] = "idle"
    BY <1>3 DEF Hand
<1>4. CASE emails[v] \in EmailLists
  <2>1. \A d \in Range(emails[v]) : d \in Domains
    BY <1>4, ListedAreDomains
  <2>2. \A i \in DOMAIN emails[v] : emails[v][i] \in Domains
    BY <1>4, ListedAreDomains
  <2>3. mxStep[v] = "storing" => Domain(v) \in Domains
    BY <2>2 DEF MXTypeOK, Domain
  <2>4. Domain(v)' = Domain(v)
    BY DEF Domain
  <2>5. mxStep'[v] # "idle" => emails'[v] \in EmailLists
    BY <1>4
  <2>6. mxStep'[v] \in {"reading", "looking", "storing"} =>
            \A i \in DOMAIN emails'[v] : i < position'[v] => Refused(emails[v][i])'
    BY <1>1, <2>2 DEF Hand, Refused
  <2>7. mxStep'[v] \in {"idle", "reading", "looking"} => verdict'[v] = "invalid"
    BY DEF Hand
  <2>8. mxStep'[v] = "storing" =>
            IF verdict'[v] = "valid"
            THEN "records" \in answers'[Domain(v)'] ELSE Refused(Domain(v))'
    BY <1>1, <2>3, <2>4 DEF Hand, Refused
  <2>9. mxStep'[v] = "saving" =>
            IF verdict'[v] = "valid"
            THEN interrupted' \/ \E d \in Range(emails'[v]) : Usable(d)'
            ELSE \A d \in Range(emails'[v]) : Refused(d)'
    BY <1>1, <2>1 DEF Hand, Refused, Usable
  <2> QED
    BY <2>5, <2>6, <2>7, <2>8, <2>9 DEF Hand
<1> QED
    BY <1>2, <1>3, <1>4

(* A worker that leaves an address with a pass knows what the pass rests on. *)
LEMMA PassGrounds ==
    ASSUME MXTypeOK, NEW w \in Workers, emails[w] \in EmailLists,
           position[w] \in DOMAIN emails[w], Passes(w), UNCHANGED emails,
           interrupted' \/ Usable(Domain(w))'
    PROVE  Hand(w)'
<1>1. mxStep'[w] = "saving" /\ verdict'[w] = "valid" /\ position' = position
    BY DEF MXTypeOK, Passes, Goto
<1>2. Domain(w)' = Domain(w) /\ Domain(w) \in Range(emails[w])
    BY <1>1, ListedAreDomains DEF Domain
<1>3. interrupted' \/ \E d \in Range(emails'[w]) : Usable(d)'
    BY <1>2 DEF Usable
<1> QED
    BY <1>1, <1>3 DEF Hand

(* A worker that goes on to the next address has been refused at this one. *)
LEMMA NextGrounds ==
    ASSUME MXTypeOK, NEW w \in Workers, emails[w] \in EmailLists, Hand(w),
           mxStep[w] \in {"reading", "storing"},
           position[w] \in DOMAIN emails[w], NextAddress(w), Refused(Domain(w)),
           UNCHANGED <<emails, answers>>
    PROVE  Hand(w)'
<1>1. mxStep'[w] = "reading" /\ verdict'[w] = "invalid" /\ position'[w] = position[w] + 1
    BY DEF MXTypeOK, NextAddress, Goto
<1>2. ASSUME NEW i \in DOMAIN emails[w], i < position[w] + 1
      PROVE  Refused(emails[w][i])
  <2>1. i \in Nat /\ position[w] \in Nat
    BY ListedAreDomains DEF MXTypeOK
  <2>2. i < position[w] \/ i = position[w]
    BY <1>2, <2>1
  <2> QED
    BY <2>2 DEF Hand, Domain
<1>3. \A i \in DOMAIN emails'[w] : i < position'[w] => Refused(emails[w][i])'
    BY <1>1, <1>2 DEF Refused
<1> QED
    BY <1>1, <1>3 DEF Hand, Refused

(* What workers know stays true in every step. *)
LEMMA HandStep ==
    ASSUME MXTypeOK, CacheGrounded, HandGrounded, [MXNext]_mxVars
    PROVE  HandGrounded'
<1> USE DEF MXTypeOK
<1>1. ASSUME NEW w \in Workers, Hand(w)',
             \A v \in Workers \ {w} : mxStep'[v] = mxStep[v] /\ emails'[v] = emails[v]
                 /\ position'[v] = position[v] /\ verdict'[v] = verdict[v]
      PROVE  HandGrounded'
    BY <1>1, HandUntouched DEF HandGrounded
<1>2. ASSUME UNCHANGED <<mxStep, emails, position, verdict>>
      PROVE  HandGrounded'
    BY <1>2, HandUntouched DEF HandGrounded
<1>3. CASE Interrupt
    BY <1>2, <1>3 DEF Interrupt, leadVars
<1>4. CASE UNCHANGED mxVars
    BY <1>2, <1>4 DEF mxVars, leadVars
<1>5. ASSUME NEW w \in Workers, NEW list \in EmailLists, TakeLead(w, list)
      PROVE  HandGrounded'
  <2>1. /\ mxStep'[w] = "reading" /\ emails'[w] = list /\ position'[w] = 1
        /\ verdict'[w] = "invalid"
    BY <1>5 DEF TakeLead, Goto, HandGrounded, Hand
  <2>2. \A i \in DOMAIN emails'[w] : ~(i < position'[w])
    BY <2>1, ListedAreDomains
  <2>3. Hand(w)'
    BY <2>1, <2>2 DEF Hand
  <2> QED
    BY <1>1, <1>5, <2>3 DEF TakeLead, Goto
<1>6. ASSUME NEW w \in Workers, NoneUsable(w)
      PROVE  HandGrounded'
  <2>1. /\ mxStep'[w] = "saving" /\ verdict[w] = "invalid" /\ emails[w] \in EmailLists
        /\ UNCHANGED <<emails, position, verdict, answers>>
    BY <1>6 DEF NoneUsable, Goto, HandGrounded, Hand, leadVars
  <2>2. \A i \in DOMAIN emails[w] : i < position[w]
    BY <1>6, <2>1, ListedAreDomains DEF NoneUsable
  <2>3. \A d \in Range(emails[w]) : Refused(d)
    BY <1>6, <2>1, <2>2, ListedAreDomains DEF NoneUsable, HandGrounded, Hand
  <2>4. Hand(w)'
    BY <2>1, <2>3 DEF Hand, Refused
  <2> QED
    BY <1>1, <1>6, <2>4 DEF NoneUsable, Goto, leadVars
<1>7. ASSUME NEW w \in Workers, CacheHit(w)
      PROVE  HandGrounded'
  <2>1. /\ mxStep[w] = "reading" /\ emails[w] \in EmailLists
        /\ position[w] \in DOMAIN emails[w] /\ Domain(w) \in Domains
        /\ UNCHANGED <<interrupted, emails, answers>>
    BY <1>7, ListedAreDomains DEF CacheHit, HandGrounded, Hand, Domain
  <2>2. CASE cache[Domain(w)] = "valid" /\ Passes(w)
    <3>1. Usable(Domain(w))'
      <4>1. Usable(Domain(w))
        BY <2>1, <2>2 DEF CacheGrounded, Usable
      <4> QED
        BY <2>1, <2>2, <4>1 DEF Usable, Passes, Domain
    <3>2. Hand(w)'
      BY <2>1, <2>2, <3>1, PassGrounds
    <3> QED
      BY <1>1, <2>1, <2>2, <3>2 DEF Passes, Goto
  <2>3. CASE cache[Domain(w)] # "valid" /\ NextAddress(w)
    <3>1. cache[Domain(w)] = "invalid"
      BY <1>7, <2>1, <2>3 DEF CacheHit
    <3>2. Hand(w)'
      BY <2>1, <2>3, <3>1, NextGrounds DEF CacheGrounded, HandGrounded
    <3> QED
      BY <1>1, <2>1, <2>3, <3>2 DEF NextAddress, Goto
  <2> QED
    BY <1>7, <2>2, <2>3 DEF CacheHit
<1>8. ASSUME NEW w \in Workers, CacheMiss(w)
      PROVE  HandGrounded'
  <2>1. Hand(w)'
    BY <1>8 DEF CacheMiss, Goto, HandGrounded, Hand, leadVars, Refused
  <2> QED
    BY <1>1, <1>8, <2>1 DEF CacheMiss, Goto, leadVars
<1>9. ASSUME NEW w \in Workers, NEW a \in {"records", "refused"},
             mxStep[w] = "looking", Answered(w, a), Goto(w, "storing"),
             verdict' = [verdict EXCEPT ![w] = IF a = "records" THEN "valid" ELSE "invalid"],
             UNCHANGED leadVars
      PROVE  HandGrounded'
  <2>1. /\ emails[w] \in EmailLists /\ position[w] \in DOMAIN emails[w]
        /\ Domain(w) \in Domains
    BY <1>9, ListedAreDomains DEF HandGrounded, Hand, Domain
  <2>2. /\ mxStep'[w] = "storing" /\ UNCHANGED <<emails, position>>
        /\ verdict'[w] = IF a = "records" THEN "valid" ELSE "invalid"
        /\ Domain(w)' = Domain(w) /\ a \in answers'[Domain(w)]
    BY <1>9, <2>1 DEF Goto, Answered, leadVars, Domain
  <2>3. \A d \in Domains : answers[d] \subseteq answers'[d]
    BY <1>9 DEF Answered
  <2>4. \A i \in DOMAIN emails[w] : emails[w][i] \in Domains
    BY <2>1, ListedAreDomains
  <2>5. \A i \in DOMAIN emails'[w] : i < position'[w] => Refused(emails[w][i])'
    BY <1>9, <2>2, <2>3, <2>4 DEF HandGrounded, Hand, Refused
  <2>6. Hand(w)'
    BY <2>1, <2>2, <2>5 DEF Hand, Refused
  <2> QED
    BY <1>1, <1>9, <2>6 DEF Goto, leadVars
<1>10. ASSUME NEW w \in Workers, NEW a \in {"records", "refused"}, LookupAnswers(w, a)
       PROVE  HandGrounded'
    BY <1>9, <1>10 DEF LookupAnswers
<1>11. ASSUME NEW w \in Workers, LookupFails(w)
       PROVE  HandGrounded'
  <2>1. verdict' = [verdict EXCEPT ![w] = IF "refused" = "records" THEN "valid" ELSE "invalid"]
    BY <1>11 DEF LookupFails
  <2> QED
    BY <1>9, <1>11, <2>1 DEF LookupFails
<1>12. ASSUME NEW w \in Workers, NEW a \in {"timeout", "interrupt"}, SoftPass(w, a)
       PROVE  HandGrounded'
  <2>1. /\ emails[w] \in EmailLists /\ position[w] \in DOMAIN emails[w]
        /\ Domain(w) \in Domains
    BY <1>12, ListedAreDomains DEF SoftPass, HandGrounded, Hand, Domain
  <2>2. interrupted' \/ Usable(Domain(w))'
    BY <1>12, <2>1 DEF SoftPass, Answered, Usable, Domain, Passes
  <2>3. Hand(w)'
    BY <1>12, <2>1, <2>2, PassGrounds DEF SoftPass
  <2> QED
    BY <1>1, <1>12, <2>3 DEF SoftPass, Passes, Goto
<1>13. ASSUME NEW w \in Workers, Store(w)
       PROVE  HandGrounded'
  <2>1. /\ mxStep[w] = "storing" /\ emails[w] \in EmailLists
        /\ position[w] \in DOMAIN emails[w] /\ Domain(w) \in Domains
        /\ UNCHANGED <<interrupted, emails, answers>>
    BY <1>13, ListedAreDomains DEF Store, HandGrounded, Hand, Domain
  <2>2. CASE verdict[w] = "valid" /\ Passes(w)
    <3>1. Usable(Domain(w))
      BY <2>1, <2>2 DEF HandGrounded, Hand, Usable
    <3>2. Usable(Domain(w))'
      BY <2>1, <2>2, <3>1 DEF Usable, Passes, Domain
    <3>3. Hand(w)'
      BY <2>1, <2>2, <3>2, PassGrounds
    <3> QED
      BY <1>1, <2>1, <2>2, <3>3 DEF Passes, Goto
  <2>3. CASE verdict[w] # "valid" /\ NextAddress(w)
    <3>1. Hand(w)'
      BY <2>1, <2>3, NextGrounds DEF HandGrounded, Hand
    <3> QED
      BY <1>1, <2>1, <2>3, <3>1 DEF NextAddress, Goto
  <2> QED
    BY <1>13, <2>2, <2>3 DEF Store
<1>14. ASSUME NEW w \in Workers, Return(w)
       PROVE  HandGrounded'
  <2>1. Hand(w)'
    BY <1>14 DEF Return, Goto, Hand
  <2> QED
    BY <1>1, <1>14, <2>1 DEF Return, Goto
<1> QED
    BY <1>3, <1>4, <1>5, <1>6, <1>7, <1>8, <1>10, <1>11, <1>12, <1>13, <1>14
       DEF MXNext, WorkerStep, Save, SaveFails

(* The cache keeps to the answers: what a worker stores was one. *)
LEMMA CacheStep ==
    ASSUME MXTypeOK, CacheGrounded, HandGrounded, [MXNext]_mxVars
    PROVE  CacheGrounded'
<1>1. \A d \in Domains : answers[d] \subseteq answers'[d]
    BY AnswersGrow
<1>2. CASE UNCHANGED cache
    BY <1>1, <1>2 DEF CacheGrounded, Refused
<1>3. ASSUME NEW w \in Workers, Store(w)
      PROVE  CacheGrounded'
  <2>1. /\ IF verdict[w] = "valid"
           THEN "records" \in answers[Domain(w)] ELSE Refused(Domain(w))
        /\ cache' = [cache EXCEPT ![Domain(w)] = verdict[w]]
        /\ answers' = answers
    BY <1>3 DEF Store, HandGrounded, Hand
  <2> QED
    BY <2>1 DEF MXTypeOK, CacheGrounded, Refused
<1> QED
    BY <1>2, <1>3 DEF MXNext, WorkerStep, mxVars, Interrupt, TakeLead, NoneUsable,
       CacheHit, CacheMiss, LookupAnswers, LookupFails, SoftPass, Save, SaveFails, Return

(* A stored mark keeps its grounds, and a new one has what the worker knows. *)
LEMMA SavedStep ==
    ASSUME MXTypeOK, HandGrounded, SavedMarksHaveGrounds, [MXNext]_mxVars
    PROVE  SavedMarksHaveGrounds'
<1>1. \A d \in Domains : answers[d] \subseteq answers'[d]
    BY AnswersGrow
<1>2. ASSUME NEW s \in saved
      PROVE  IF s.mark = "valid"
             THEN \E d \in Range(s.emails) : answers'[d] \cap {"records", "timeout"} # {}
             ELSE \A d \in Range(s.emails) : "refused" \in answers'[d]
  <2>1. \A d \in Range(s.emails) : d \in Domains
    BY ListedAreDomains DEF MXTypeOK
  <2> QED
    BY <1>1, <2>1 DEF SavedMarksHaveGrounds
<1>3. CASE UNCHANGED saved
    BY <1>2, <1>3 DEF SavedMarksHaveGrounds
<1>4. ASSUME NEW w \in Workers, Save(w)
      PROVE  SavedMarksHaveGrounds'
  <2>1. /\ ~interrupted /\ mxStep[w] = "saving" /\ answers' = answers
        /\ saved' = saved \cup {[emails |-> emails[w], mark |-> verdict[w]]}
    BY <1>4 DEF Save, Return
  <2>2. IF verdict[w] = "valid"
        THEN \E d \in Range(emails[w]) : answers[d] \cap {"records", "timeout"} # {}
        ELSE \A d \in Range(emails[w]) : "refused" \in answers[d]
    BY <2>1 DEF HandGrounded, Hand, Usable, Refused
  <2> QED
    BY <1>2, <2>1, <2>2 DEF SavedMarksHaveGrounds
<1> QED
    BY <1>3, <1>4 DEF MXNext, WorkerStep, mxVars, Interrupt, TakeLead, NoneUsable,
       CacheHit, CacheMiss, LookupAnswers, LookupFails, SoftPass, Store, SaveFails

-----------------------------------------------------------------------------
(* The inductive invariant of the validator. *)
THEOREM MXInvHolds == MXSpec => []MXInv
<1>1. MXInv /\ [MXNext]_mxVars => MXInv'
    BY MXTypeStep, CacheStep, HandStep, SavedStep DEF MXInv
<1> QED
    BY MXInitInv, <1>1, PTL DEF MXSpec

(* Every reachable state is well typed: only verdicts are cached and saved, *)
(* and a worker that looks up is at one of its lead's addresses.            *)
THEOREM MXTypeCorrect == MXSpec => []MXTypeOK
<1>1. MXInv => MXTypeOK
    BY DEF MXInv
<1> QED
    BY MXInvHolds, <1>1, PTL

(* A stored mark rests on an answer of the resolver or its silence, never   *)
(* on an interrupt.                                                         *)
THEOREM SavedMarksHaveGroundsHolds == MXSpec => []SavedMarksHaveGrounds
<1>1. MXInv => SavedMarksHaveGrounds
    BY DEF MXInv
<1> QED
    BY MXInvHolds, <1>1, PTL

(* Who leaves an address neither looks up nor moves another worker. *)
LEMMA LeavesAddress ==
    ASSUME MXTypeOK, NEW w \in Workers, Passes(w) \/ NextAddress(w)
    PROVE  /\ mxStep'[w] \notin {"looking", "storing"}
           /\ \A v \in Workers \ {w} : mxStep'[v] = mxStep[v] /\ position'[v] = position[v]
<1>1. CASE Passes(w)
  BY <1>1 DEF MXTypeOK, Passes, Goto
<1>2. CASE NextAddress(w)
  BY <1>2 DEF MXTypeOK, NextAddress, Goto
<1> QED
  BY <1>1, <1>2

(* A domain's verdict is open only while the look-ups overlap.              *)
THEOREM VerdictsSettleHolds == MXSpec => VerdictsSettle
<1>1. ASSUME MXInv, MXNext, NEW d \in Domains, cache[d] # Absent, Looking(d) = {}
      PROVE  cache'[d] = cache[d] /\ Looking(d)' = {}
  <2>0. MXTypeOK
    BY <1>1 DEF MXInv
  <2> USE DEF MXTypeOK
  <2>1. \A v \in Workers : mxStep[v] \in {"looking", "storing"} => Domain(v) # d
    BY <1>1 DEF Looking
  <2>2. ASSUME NEW w \in Workers, WorkerStep(w)
        PROVE  /\ cache'[d] = cache[d]
               /\ mxStep'[w] \in {"looking", "storing"} => Domain(w)' # d
    <3>1. CASE CacheMiss(w)
      BY <1>1, <3>1 DEF CacheMiss, Goto, leadVars, Domain
    <3>2. CASE Store(w)
      <4>1. Domain(w) # d /\ cache' = [cache EXCEPT ![Domain(w)] = verdict[w]]
        BY <2>1, <3>2 DEF Store
      <4>2. cache'[d] = cache[d]
        BY <4>1
      <4> QED
        BY <3>2, <4>2, <2>0, LeavesAddress DEF Store
    <3>3. CASE LookupFails(w) \/ \E a \in {"records", "refused"} : LookupAnswers(w, a)
      BY <2>0, <2>1, <3>3 DEF LookupFails, LookupAnswers, leadVars, Goto, Domain
    <3>4. CASE \/ NoneUsable(w) \/ CacheHit(w) \/ Save(w) \/ SaveFails(w)
               \/ \E list \in EmailLists : TakeLead(w, list)
               \/ \E a \in {"timeout", "interrupt"} : SoftPass(w, a)
      <4>1. cache'[d] = cache[d]
        BY <3>4 DEF NoneUsable, CacheHit, Save, SaveFails, TakeLead, SoftPass, Return
      <4>2. CASE NoneUsable(w) \/ Save(w) \/ SaveFails(w)
        BY <2>0, <4>1, <4>2 DEF NoneUsable, Save, SaveFails, Return, Goto
      <4>3. CASE \E list \in EmailLists : TakeLead(w, list)
        BY <2>0, <4>1, <4>3 DEF TakeLead, Goto
      <4>4. CASE CacheHit(w) \/ \E a \in {"timeout", "interrupt"} : SoftPass(w, a)
        BY <4>1, <4>4, <2>0, LeavesAddress DEF CacheHit, SoftPass
      <4> QED
        BY <3>4, <4>2, <4>3, <4>4
    <3> QED
      BY <2>2, <3>1, <3>2, <3>3, <3>4 DEF WorkerStep
  <2>3. ASSUME NEW w \in Workers, WorkerStep(w), NEW v \in Workers \ {w}
        PROVE  mxStep'[v] = mxStep[v] /\ Domain(v)' = Domain(v)
    <3>1. CASE CacheHit(w) \/ Store(w) \/ \E a \in {"timeout", "interrupt"} : SoftPass(w, a)
      <4>1. UNCHANGED emails /\ (Passes(w) \/ NextAddress(w))
        BY <3>1 DEF CacheHit, Store, SoftPass
      <4> QED
        BY <2>3, <4>1, <2>0, LeavesAddress DEF Domain
    <3>2. CASE \/ NoneUsable(w) \/ CacheMiss(w) \/ LookupFails(w)
               \/ \E a \in {"records", "refused"} : LookupAnswers(w, a)
      BY <2>0, <2>3, <3>2 DEF NoneUsable, CacheMiss, LookupAnswers, LookupFails, Goto, leadVars, Domain
    <3>3. CASE Save(w) \/ SaveFails(w) \/ \E list \in EmailLists : TakeLead(w, list)
      BY <2>0, <2>3, <3>3 DEF Save, SaveFails, TakeLead, Return, Goto, Domain
    <3> QED
      BY <2>3, <3>1, <3>2, <3>3 DEF WorkerStep
  <2>4. ASSUME NEW w \in Workers, WorkerStep(w)
        PROVE  Looking(d)' = {}
    BY <2>1, <2>2, <2>3, <2>4 DEF Looking
  <2>5. CASE Interrupt
    BY <1>1, <2>5 DEF Interrupt, leadVars, Looking, Domain
  <2> QED
    BY <1>1, <2>2, <2>4, <2>5 DEF MXNext
<1>2. MXInv /\ [MXNext]_mxVars =>
        [\A d \in Domains : cache[d] # Absent /\ Looking(d) = {} =>
            cache'[d] = cache[d] /\ Looking(d)' = {}]_mxVars
    BY <1>1
<1> QED
    BY MXInvHolds, <1>2, PTL DEF MXSpec, VerdictsSettle

-----------------------------------------------------------------------------
(***************************************************************************)
(* The limiter for any workers and any delays.  The invariant behind both  *)
(* properties is that next lies at most one maximum delay ahead of the     *)
(* clock, and no sleeping worker is due after it.                          *)
(***************************************************************************)
LimiterInv ==
    /\ LimiterTypeOK
    /\ next <= now + Upper
    /\ \A c \in Callers : asked[c] <= now
    /\ \A c \in Callers : waiting[c] => deadline[c] <= next
    /\ WaitWithinRange
    /\ DueInOrder

(* The corrected bounds are in order. *)
LEMMA BoundsOrdered == Lower \in Nat /\ Upper \in Nat /\ Lower <= Upper
BY DelaysAssumption DEF Lower, Upper

(* A reservation starts where the last one ended, or later, and lies       *)
(* between the minimum and the maximum delay from now.                     *)
LEMMA DelayInRange ==
    ASSUME LimiterInv, NEW pacing \in Lower..Upper
    PROVE  /\ Delay(pacing) \in Lower..Upper
           /\ now + Delay(pacing) >= next
BY BoundsOrdered DEF Delay, Larger, LimiterInv, LimiterTypeOK

(* A reservation keeps the deadlines in range and in order. *)
LEMMA ReserveStep ==
    ASSUME LimiterInv, NEW c \in Callers, Reserve(c)
    PROVE  LimiterInv'
<1> PICK pacing \in Lower..Upper :
        /\ next' = now + Delay(pacing)
        /\ deadline' = [deadline EXCEPT ![c] = now + Delay(pacing)]
    BY DEF Reserve
<1> DEFINE d == now + Delay(pacing)
<1>1. /\ now \in Nat /\ next \in Nat /\ now' = now
      /\ waiting \in [Callers -> BOOLEAN] /\ waiting' = [waiting EXCEPT ![c] = TRUE]
      /\ asked \in [Callers -> Nat] /\ asked' = [asked EXCEPT ![c] = now]
      /\ deadline \in [Callers -> Nat]
    BY DEF Reserve, LimiterInv, LimiterTypeOK
<1>2. d \in (now + Lower)..(now + Upper) /\ d >= next /\ d \in Nat
    BY <1>1, BoundsOrdered, DelayInRange
<1>3. next' = d /\ deadline' = [deadline EXCEPT ![c] = d]
    OBVIOUS
<1> HIDE DEF d
<1>4. LimiterTypeOK'
    BY <1>1, <1>2, <1>3 DEF LimiterTypeOK
<1>5. next' <= now' + Upper
    BY <1>1, <1>2, <1>3, BoundsOrdered
<1>6. \A x \in Callers : asked'[x] <= now'
    BY <1>1 DEF LimiterInv
<1>7. \A x \in Callers : waiting'[x] => deadline'[x] <= next'
    <2> SUFFICES ASSUME NEW x \in Callers, waiting'[x] PROVE deadline'[x] <= next'
        OBVIOUS
    <2>1. CASE x = c
        BY <1>1, <1>2, <1>3, <2>1
    <2>2. CASE x # c
        BY <1>1, <1>2, <1>3, <2>2 DEF LimiterInv
    <2> QED
        BY <2>1, <2>2
<1>8. WaitWithinRange'
    <2> SUFFICES ASSUME NEW x \in Callers, waiting'[x]
                 PROVE  deadline'[x] \in (asked'[x] + Lower)..(asked'[x] + Upper)
        BY DEF WaitWithinRange, Lower, Upper
    <2>1. CASE x = c
        BY <1>1, <1>2, <1>3, <2>1
    <2>2. CASE x # c
        BY <1>1, <1>3, <2>2 DEF LimiterInv, WaitWithinRange
    <2> QED
        BY <2>1, <2>2
<1>9. DueInOrder'
    <2> SUFFICES ASSUME NEW x \in Callers, NEW y \in Callers,
                        waiting'[x], waiting'[y], asked'[x] < asked'[y]
                 PROVE  deadline'[x] <= deadline'[y]
        BY DEF DueInOrder
    <2>1. CASE y = c
        BY <1>1, <1>3, <1>7, <2>1
    <2>2. CASE x = c /\ y # c
        BY <1>1, <2>2 DEF LimiterInv
    <2>3. CASE x # c /\ y # c
        BY <1>1, <1>3, <2>3 DEF LimiterInv, DueInOrder
    <2> QED
        BY <2>1, <2>2, <2>3
<1> QED
    BY <1>4, <1>5, <1>6, <1>7, <1>8, <1>9 DEF LimiterInv

(* Every step of the limiter keeps the invariant. *)
LEMMA LimiterStep ==
    ASSUME LimiterInv, [LimiterNext]_limiterVars
    PROVE  LimiterInv'
<1> USE DEF LimiterInv, LimiterTypeOK, WaitWithinRange, DueInOrder
<1>1. CASE Tick
    <2>1. LimiterTypeOK' /\ next' <= now' + Upper
        BY <1>1, BoundsOrdered DEF Tick
    <2>2. \A c \in Callers : asked'[c] <= now' /\ (waiting'[c] => deadline'[c] <= next')
        BY <1>1 DEF Tick
    <2>3. WaitWithinRange' /\ DueInOrder'
        BY <1>1 DEF Tick
    <2> QED
        BY <2>1, <2>2, <2>3
<1>2. ASSUME NEW c \in Callers, Release(c) \/ GiveUp(c)
      PROVE  LimiterInv'
    BY <1>2 DEF Release, GiveUp, Lower, Upper
<1>3. CASE UNCHANGED limiterVars
    BY <1>3 DEF limiterVars, Lower, Upper
<1> QED
    BY <1>1, <1>2, <1>3, ReserveStep DEF LimiterNext

(* next is never behind a deadline, nor further ahead than the maximum delay. *)
THEOREM LimiterInvHolds == LimiterSpec => []LimiterInv
<1>1. LimiterInit => LimiterInv
    BY BoundsOrdered
       DEF LimiterInit, LimiterInv, LimiterTypeOK, WaitWithinRange, DueInOrder
<1> QED
    BY <1>1, LimiterStep, PTL DEF LimiterSpec

(* No wait is longer than the maximum delay, however many workers queue.   *)
THEOREM WaitWithinRangeHolds == LimiterSpec => []WaitWithinRange
<1>1. LimiterInv => WaitWithinRange
    BY DEF LimiterInv
<1> QED
    BY <1>1, LimiterInvHolds, PTL

(* Who asks later is not due earlier.                                      *)
THEOREM DueInOrderHolds == LimiterSpec => []DueInOrder
<1>1. LimiterInv => DueInOrder
    BY DEF LimiterInv
<1> QED
    BY <1>1, LimiterInvHolds, PTL

(* No deadline is ever moved before the start of time.                     *)
THEOREM LimiterTypeCorrect == LimiterSpec => []LimiterTypeOK
<1>1. LimiterInv => LimiterTypeOK
    BY DEF LimiterInv
<1> QED
    BY <1>1, LimiterInvHolds, PTL
=============================================================================
