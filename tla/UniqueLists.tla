----------------------------- MODULE UniqueLists -----------------------------
(***************************************************************************)
(* appendUnique, which every scraper gathers its links and contacts with.  *)
(***************************************************************************)
EXTENDS Integers, SequencesExt

CONSTANT LowerCase      \* text -> its lower-case form: two spellings may share one

\* a text in lower case stays as it is
ASSUME LowerCaseAssumption ==
    \A x \in DOMAIN LowerCase :
        LowerCase[x] \in DOMAIN LowerCase /\ LowerCase[LowerCase[x]] = LowerCase[x]

\* a careless variant: the texts are compared as they are spelled
AppendExact(list, x) == IF Contains(list, x) THEN list ELSE Append(list, x)

\* strings.EqualFold: a second spelling of what the list has is left out
AppendUnique(list, x) ==
    IF \E i \in DOMAIN list : LowerCase[list[i]] = LowerCase[x] THEN list ELSE Append(list, x)

\* appendUnique for each of xs, in turn
AppendEach(list, xs) ==
    LET appended[i \in 0..Len(xs)] ==
            IF i = 0 THEN list ELSE AppendUnique(appended[i - 1], xs[i])
    IN  appended[Len(xs)]
=============================================================================
