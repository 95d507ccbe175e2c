----------------------------- MODULE PageScraper -----------------------------
(***************************************************************************)
(* From one source URL to the lead a worker saves: the factory picks the   *)
(* scraper of the host, the page is fetched and read, the contacts in it   *)
(* are gathered, the filter judges the lead and the handles that are no    *)
(* accounts are dropped.  CollyScraper takes any page; AffpayingScraper    *)
(* and OfferVaultScraper also read the profile of a network, and are the   *)
(* same code but for what they call a manager, the name they fall back on  *)
(* and the meta tags.                                                      *)
(*                                                                         *)
(* A page is its headings, its table rows and terms, its blocks (tr, li,   *)
(* div) in document order with their depth, and the tokens in it that the  *)
(* extractor's expressions match.  A block has the words of its own before *)
(* a colon, whether its words name a role, at most one element its         *)
(* manager's name may be in, with the rank of that element's selector, and *)
(* the tokens of the attributes in it.  Of the kinds of contacts, those a  *)
(* manager has are kept: e-mail, Telegram, Skype.                          *)
(***************************************************************************)
EXTENDS UniqueLists

CONSTANTS
    URLs,           \* the source URLs: [scheme, host]
    Undotted,       \* host -> the host without the dot it may end with
    Pages,          \* the pages a site may answer with
    TokensIn,       \* a manager's name -> the tokens in it
    Noise,          \* what the extractor leaves out: image names, t.me/share
    Mailbox,        \* e-mail -> its local part and its host
    SystemBoxes,    \* admin, info, support ...
    CISHosts,       \* hosts under a CIS domain, or of a CIS mail provider
    SlavicNames     \* the texts checkName gives a reason for

Blank == ""
Kinds == {"emails", "telegram", "skype"}

Text  == DOMAIN LowerCase
Token == [kind : Kinds, text : Text]
LabelledValue == [label : SUBSET STRING, value : STRING]
\* .name, .manager-name, strong, b, h3, h4
Selectors == 1..6

\* of a block: the role in its own text; the text before the first colon, that of
\* inner blocks included; the elements each selector finds in it ahead of its inner
\* blocks; its attributes
PageBlock ==
    [depth : Nat, role : STRING, label : Text,
     names : [Selectors -> Seq(Text)], links : Seq(Token)]

\* an answer is told from none, however little it has
HTMLPage ==
    [answered : {TRUE}, h1 : STRING, og : STRING, titles : Seq(STRING),
     rows : Seq(LabelledValue), terms : Seq(LabelledValue),
     blocks : Seq(PageBlock), text : Seq(Token), meta : Seq(Token)]

\* the page as text has what its attributes and its meta tags have
ASSUME PagesAssumption ==
    \A p \in Pages :
        /\ p \in HTMLPage
        /\ ToSet(p.meta) \subseteq ToSet(p.text)
        /\ \A i \in DOMAIN p.blocks : ToSet(p.blocks[i].links) \subseteq ToSet(p.text)

ASSUME TokensInAssumption == TokensIn \in [Text -> Seq(Token)]

\* the empty text, and no other, is empty in lower case
ASSUME BlankAssumption ==
    Blank \in Text /\ \A x \in Text : LowerCase[x] = Blank <=> x = Blank

VARIABLES
    url, phase, engine, page,
    html,           \* pageHTML: the tokens written for the extractor
    failed,         \* scrapeErr, callbackErr
    interrupted,    \* ctx is done
    lead,           \* parsedLead, then the lead the worker has
    verdict         \* IsCIS and CISReason

readVars == <<engine, page, html, failed>>
pageVars == <<url, phase, readVars, interrupted, lead, verdict>>

NoVerdict == [cis |-> FALSE, reason |-> Blank]
NoContacts == [k \in Kinds |-> <<>>]
NoLead == [lead |-> "none"]
NoPage == [answered |-> FALSE, h1 |-> Blank, og |-> Blank, titles |-> <<>>,
           rows |-> <<>>, terms |-> <<>>, blocks |-> <<>>, text |-> <<>>, meta |-> <<>>]

First(S) == CHOOSE i \in S : \A j \in S : i <= j

PageInit ==
    /\ url \in URLs /\ phase = "new" /\ engine = Blank /\ page = NoPage
    /\ html = <<>> /\ failed = FALSE /\ interrupted = FALSE
    /\ lead = NoLead /\ verdict = NoVerdict

-----------------------------------------------------------------------------
(* Contacts *)

Canonical(t) == IF t.kind \in {"emails", "telegram"} THEN LowerCase[t.text] ELSE t.text

IsMatch(t, k) == t.kind = k /\ Canonical(t) \notin Noise

Matches(tokens, k) ==
    LET result[i \in 0..Len(tokens)] ==
            IF i = 0 THEN <<>>
            ELSE IF IsMatch(tokens[i], k) THEN AppendUnique(result[i - 1], Canonical(tokens[i]))
            ELSE result[i - 1]
    IN  result[Len(tokens)]

ExtractContacts(tokens) == [k \in Kinds |-> Matches(tokens, k)]

AddContacts(old, new) == [k \in Kinds |-> AppendEach(old[k], new[k])]

-----------------------------------------------------------------------------
(* The profile of a network *)

Profiled == {"affpaying", "offervault"}

\* a block and the blocks inside it
Subtree(p, i) ==
    {j \in i..Len(p.blocks) : \A k \in (i + 1)..j : p.blocks[k].depth > p.blocks[i].depth}

Roles == IF engine = "affpaying" THEN {"manager"} ELSE {"manager", "contact"}

IsManagerBlock(p, i) == \E j \in Subtree(p, i) : p.blocks[j].role \in Roles

\* the selectors are tried in turn, each on the first element it finds in the
\* whole block and on no other; then the words before a colon
ManagerName(p, i) ==
    LET inside   == Subtree(p, i)
        found(r) == {j \in inside : p.blocks[j].names[r] # <<>>}
        name(r)  == p.blocks[First(found(r))].names[r][1]
        filled   == {r \in Selectors : found(r) # {} /\ name(r) # Blank}
    IN  IF filled # {} THEN name(First(filled)) ELSE p.blocks[i].label

\* the attributes of every element inside the block, wherever it is
Attributes(p, i) ==
    LET found[j \in 0..Len(p.blocks)] ==
            IF j = 0 THEN <<>>
            ELSE IF j \in Subtree(p, i) THEN found[j - 1] \o p.blocks[j].links ELSE found[j - 1]
    IN  found[Len(p.blocks)]

BlockManager(p, i) ==
    [name |-> ManagerName(p, i), contacts |-> ExtractContacts(Attributes(p, i))]

\* a careless variant: a manager is listed as often as blocks name him
AppendAlways(managers, m) == Append(managers, m)

AppendManager(managers, m) ==
    LET same == {i \in DOMAIN managers : LowerCase[managers[i].name] = LowerCase[m.name]}
    IN  IF same = {} THEN Append(managers, m)
        ELSE [managers EXCEPT ![First(same)].contacts = AddContacts(@, m.contacts)]

ParseManagers(p) ==
    LET managers[i \in 0..Len(p.blocks)] ==
            IF i = 0 THEN <<>>
            ELSE IF IsManagerBlock(p, i) /\ ManagerName(p, i) # Blank
                 THEN AppendManager(managers[i - 1], BlockManager(p, i)) ELSE managers[i - 1]
    IN  managers[Len(p.blocks)]

\* what a label names, by the first of the cases its words meet
MetadataField(words) ==
    IF words \cap {"commission", "payout model", "payment model"} # {} THEN "CommissionType"
    ELSE IF words \cap {"frequency", "payment terms"} # {} THEN "PaymentFrequency"
    ELSE IF {"minimum", "payout"} \subseteq words THEN "MinimumPayout"
    ELSE IF "referral" \in words THEN "ReferralRate" ELSE Blank

MetadataFields == {"CommissionType", "PaymentFrequency", "MinimumPayout", "ReferralRate"}

ParseMetadataPair(metadata, pair) ==
    LET field == MetadataField(pair.label)
    IN  IF pair.value # Blank /\ field # Blank THEN [metadata EXCEPT ![field] = pair.value]
        ELSE metadata

\* the rows first, then the terms, whatever their order in the page
ParseMetadata(p) ==
    LET pairs == p.rows \o p.terms
        metadata[i \in 0..Len(pairs)] ==
            IF i = 0 THEN [f \in MetadataFields |-> Blank]
            ELSE ParseMetadataPair(metadata[i - 1], pairs[i])
    IN  metadata[Len(pairs)]

\* CollyScraper takes the first title with a text, the others the first title
CompanyName(p) ==
    LET texts == {i \in DOMAIN p.titles : p.titles[i] # Blank}
        title == IF p.titles = <<>> THEN Blank ELSE p.titles[1]
    IN  IF engine = "colly" THEN (IF texts = {} THEN Blank ELSE p.titles[First(texts)])
        ELSE IF p.h1 # Blank THEN p.h1
        ELSE IF engine = "offervault" /\ p.og # Blank THEN p.og ELSE title

\* document.Html, and for OfferVault the meta contents once more
PageHTML(p) == IF engine = "offervault" THEN p.text \o p.meta ELSE p.text

ParseDocument(p) ==
    [name     |-> CompanyName(p),
     contacts |-> NoContacts,
     managers |-> IF engine \in Profiled THEN ParseManagers(p) ELSE <<>>,
     metadata |-> IF engine \in Profiled THEN ParseMetadata(p) ELSE ParseMetadata(NoPage)]

\* the lists a manager has nothing in are filled from his name
FillManager(m) ==
    [m EXCEPT !.contacts = [k \in Kinds |->
        IF @[k] = <<>> THEN ExtractContacts(TokensIn[m.name])[k] ELSE @[k]]]

CompleteLead ==
    [lead EXCEPT !.contacts = ExtractContacts(html),
                 !.managers = [i \in DOMAIN @ |-> FillManager(@[i])]]

-----------------------------------------------------------------------------
(* The CIS filter *)

\* a careless variant: a system mailbox is passed over whatever its host
BoxFirst(e) ==
    /\ Mailbox[e].box \notin SystemBoxes
    /\ Mailbox[e].host \in CISHosts \/ Mailbox[e].box \in SlavicNames

Evident(e) ==
    \/ Mailbox[e].host \in CISHosts
    \/ Mailbox[e].box \notin SystemBoxes /\ Mailbox[e].box \in SlavicNames

\* the first ground decides: the name, then the e-mails in order, then the handles
IsCIS(l) ==
    LET emails   == l.contacts["emails"]
        handles  == l.contacts["telegram"]
        evident  == {i \in DOMAIN emails : Evident(emails[i])}
        slavic   == {i \in DOMAIN handles : handles[i] \in SlavicNames}
        Mark(x)  == [cis |-> TRUE, reason |-> x]
    IN  IF l.name \in SlavicNames THEN Mark(l.name)
        ELSE IF evident # {} THEN Mark(emails[First(evident)])
        ELSE IF slavic # {} THEN Mark(handles[First(slavic)]) ELSE NoVerdict

-----------------------------------------------------------------------------
(* Factory.Scrape *)

Hostname == LowerCase[Undotted[url.host]]

Refuse ==
    /\ phase = "new" /\ (Hostname = Blank \/ url.scheme = Blank)
    /\ phase' = "failed"
    /\ UNCHANGED <<url, readVars, interrupted, lead, verdict>>

EngineOf(host) ==
    CASE host \in {"affpaying.com", "www.affpaying.com"}   -> "affpaying"
      [] host \in {"offervault.com", "www.offervault.com"} -> "offervault"
      [] OTHER -> "colly"

Route ==
    /\ phase = "new" /\ Hostname # Blank /\ url.scheme # Blank
    /\ phase' = "requesting"
    /\ engine' = EngineOf(Hostname)
    /\ UNCHANGED <<url, page, html, failed, interrupted, lead, verdict>>

(* The request *)

Respond ==
    /\ phase = "requesting"
    /\ \E p \in Pages :
        /\ page' = p
        /\ html' = PageHTML(p)
        /\ lead' = ParseDocument(p)
    /\ phase' = "responded"
    /\ UNCHANGED <<url, engine, failed, interrupted, verdict>>

\* the response is no document
ParseFails ==
    /\ phase = "requesting"
    /\ failed' = TRUE
    /\ phase' = "responded"
    /\ UNCHANGED <<url, engine, page, html, interrupted, lead, verdict>>

\* the request ends well and no response comes: CollyScraper's lead is empty then
NoResponse ==
    /\ phase = "requesting"
    /\ phase' = "responded"
    /\ lead' = IF engine = "colly" THEN ParseDocument(NoPage) ELSE NoLead
    /\ UNCHANGED <<url, readVars, interrupted, verdict>>

\* the status is an error, the time-out passes, the context is done
RequestFails ==
    /\ phase = "requesting"
    /\ phase' = "failed"
    /\ UNCHANGED <<url, readVars, interrupted, lead, verdict>>

Interrupt ==
    /\ phase \in {"new", "requesting", "responded"} /\ ~interrupted
    /\ interrupted' = TRUE
    /\ UNCHANGED <<url, phase, readVars, lead, verdict>>

Whole == ~interrupted /\ ~failed /\ lead # NoLead

ScrapeReturns ==
    /\ phase = "responded" /\ Whole
    /\ lead' = CompleteLead
    /\ phase' = "scraped"
    /\ UNCHANGED <<url, readVars, interrupted, verdict>>

\* a careless variant: what was read is handed back with the error
ScrapeReturnsBoth ==
    /\ phase = "responded" /\ ~Whole
    /\ phase' = "failed"
    /\ UNCHANGED <<url, readVars, interrupted, lead, verdict>>

ScrapeReturnsError ==
    /\ phase = "responded" /\ ~Whole
    /\ lead' = NoLead
    /\ phase' = "failed"
    /\ UNCHANGED <<url, readVars, interrupted, verdict>>

(* The worker *)

Judge ==
    /\ phase = "scraped"
    /\ verdict' = IsCIS(lead)
    /\ phase' = "judged"
    /\ UNCHANGED <<url, readVars, interrupted, lead>>

\* the lead keeps the handles that are accounts, or were not looked up; a manager keeps his
KeepHandles ==
    /\ phase = "judged"
    /\ \E kept \in SUBSET ToSet(lead.contacts["telegram"]) :
        lead' = [lead EXCEPT !.contacts["telegram"] = SelectSeq(@, LAMBDA h : h \in kept)]
    /\ phase' = "done"
    /\ UNCHANGED <<url, readVars, interrupted, verdict>>

PageNext ==
    \/ Refuse \/ Route \/ Respond \/ ParseFails \/ NoResponse \/ RequestFails \/ Interrupt
    \/ ScrapeReturns \/ ScrapeReturnsError \/ Judge \/ KeepHandles

PageSpec == PageInit /\ [][PageNext]_pageVars

-----------------------------------------------------------------------------
Finished == phase \in {"scraped", "judged", "done"}

(* Types; and a lead goes on only when its page was read to the end, never *)
(* beside an error.                                                        *)
PageTypeOK ==
    /\ url \in URLs /\ page \in Pages \cup {NoPage}
    /\ phase \in {"new", "requesting", "responded", "scraped", "judged", "done", "failed"}
    /\ engine \in Profiled \cup {"colly", Blank}
    /\ failed \in BOOLEAN /\ interrupted \in BOOLEAN
    /\ phase \in {"new", "requesting", "failed"} => lead = NoLead
    /\ Finished => lead # NoLead /\ (engine \in Profiled => page.answered)

\* what a set of tokens holds of a kind, noise left out
Shown(tokens, k) == {Canonical(t) : t \in {u \in tokens : u.kind = k}} \ Noise

Folded(S) == {LowerCase[x] : x \in S}

(* The profile in a lead, told without the loops: one manager for every    *)
(* name the manager blocks have, however it is spelled, with the contacts  *)
(* of all the blocks of that name, each once; only where they have none,   *)
(* those in the name.  A field is what the last filled pair says of it.    *)
ShowsProfile(l, p) ==
    LET rows(n) == {i \in DOMAIN p.blocks :
                      IsManagerBlock(p, i) /\ LowerCase[ManagerName(p, i)] = n}
        names   == Folded({ManagerName(p, i) : i \in {j \in DOMAIN p.blocks :
                      IsManagerBlock(p, j)}}) \ {Blank}
        links(n) == UNION {UNION {ToSet(p.blocks[j].links) : j \in Subtree(p, i)} : i \in rows(n)}
        known(n, k) ==
            IF Shown(links(n), k) # {} THEN Shown(links(n), k)
            ELSE Shown(ToSet(TokensIn[ManagerName(p, First(rows(n)))]), k)
        pairs == p.rows \o p.terms
    IN  /\ Len(l.managers) = Cardinality(names)
        /\ \A n \in names : \E m \in ToSet(l.managers) :
             /\ LowerCase[m.name] = n
             /\ \A k \in Kinds : /\ Folded(ToSet(m.contacts[k])) = Folded(known(n, k))
                                 /\ Cardinality(Folded(known(n, k))) = Len(m.contacts[k])
        /\ \A f \in MetadataFields :
             LET filled == {i \in DOMAIN pairs :
                               MetadataField(pairs[i].label) = f /\ pairs[i].value # Blank}
             IN  \/ filled = {} /\ l.metadata[f] = Blank
                 \/ \E i \in filled : /\ \A j \in filled : j <= i
                                      /\ l.metadata[f] = pairs[i].value

(* A lead that goes on has the profile its page shows.                     *)
ProfileMatchesPage == Finished /\ engine \in Profiled => ShowsProfile(lead, page)

(* The verdict rests on the page and not on what is left of the lead: it   *)
(* is "CIS" just when the name, an address or a handle of the page is      *)
(* evidence, whatever box the address has under a CIS host and whether or  *)
(* not the handle turned out to be an account; and it names that evidence. *)
FlagFollowsPage ==
    LET contacts(k) == Shown(ToSet(page.text) \cup ToSet(page.meta), k)
        evidence ==
            (({lead.name} \cup contacts("telegram")) \cap SlavicNames)
            \cup {e \in contacts("emails") : Mailbox[e].host \in CISHosts}
            \cup {e \in contacts("emails") : /\ Mailbox[e].box \notin SystemBoxes
                                             /\ Mailbox[e].box \in SlavicNames}
    IN  phase \in {"judged", "done"} =>
            /\ verdict.cis <=> evidence # {}
            /\ verdict.reason \in (IF verdict.cis THEN evidence ELSE {Blank})
=============================================================================
