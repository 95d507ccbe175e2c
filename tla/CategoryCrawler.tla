--------------------------- MODULE CategoryCrawler ---------------------------
(***************************************************************************)
(* The crawlers that turn listing pages into source URLs: page after page  *)
(* of one category, then the next category, until a page shows nothing the *)
(* category has not shown before.  CategoryCrawler walks several           *)
(* categories; OfferVaultCategoryCrawler walks one listing and leaves out  *)
(* what the store holds, and is the same loop with one category.           *)
(*                                                                         *)
(* A site is any number of pages a category.  Past the last one it serves  *)
(* empty pages, or the last one over and over.  A link is where it leads   *)
(* to, the segments of its path, what follows them (query, fragment), and  *)
(* its form: the scheme, the port, a slash at the end.  A card is a path   *)
(* in a form.                                                              *)
(***************************************************************************)
EXTENDS UniqueLists

CONSTANTS
    Categories,     \* the category URLs, in order; one may come twice
    Reserved,       \* the segments of no card: login, category, page-2, affpaying ...
    Listings,       \* the pages a category may have, each a list of links
    Networks,       \* the pages the listing of networks may have
    Stores          \* the sets of URLs the store may hold

Anchor == [to: STRING, path: Seq(STRING), form: STRING, suffix: STRING]

ASSUME ListingsAssumption ==
    \A l \in Listings \cup Networks :
        l.pages \in Seq(Seq(Anchor)) /\ l.pages # <<>> /\ l.repeats \in BOOLEAN

ASSUME CategoriesAssumption == Categories \in Seq(ToSet(Categories))

VARIABLES
    crawler,        \* which of the two it is
    walk,           \* the categories this crawler was given
    site,           \* category -> its pages
    known,          \* existing: URLs that are in the store already
    category,       \* position of the category being walked
    page,           \* pageNumber
    categorySeen,   \* links this category has shown
    discovered,     \* links any category has shown
    ordered,        \* the source URLs, in order
    outcome

givenVars == <<crawler, walk, site, known>>
walkVars  == <<category, page>>
crawlVars == <<givenVars, walkVars, categorySeen, discovered, ordered, outcome>>

CategorySet == ToSet(Categories)

\* all links there may be, without what follows the path
CardURLs ==
    UNION {UNION {{[path |-> k.path, form |-> k.form] : k \in ToSet(p)} : p \in ToSet(l.pages)}
             : l \in Listings \cup Networks}

CrawlTypeOK ==
    /\ crawler \in {"affpaying", "offervault"}
    /\ walk \in Seq(CategorySet)
    /\ site \in [CategorySet -> Listings \cup Networks]
    /\ known \in Stores \cup {{}}
    /\ category \in 1..(Len(walk) + 1)
    /\ page \in Nat \ {0}
    /\ categorySeen \subseteq discovered /\ discovered \subseteq CardURLs
    /\ outcome \in {"crawling", "done", "failed"}

\* CategoryCrawler looks at no store, OfferVaultCategoryCrawler has one listing
CrawlInit ==
    /\ \/ /\ crawler = "affpaying" /\ walk = Categories /\ known = {}
          /\ site \in [CategorySet -> Listings]
       \/ /\ crawler = "offervault" /\ known \in Stores
          /\ \E c \in CategorySet, n \in Networks :
                walk = <<c>> /\ site = [x \in CategorySet |-> n]
    /\ category = 1 /\ page = 1
    /\ categorySeen = {} /\ discovered = {} /\ ordered = <<>>
    /\ outcome = "crawling"

-----------------------------------------------------------------------------
\* what the site serves for a page number
Served(listing, n) ==
    LET pages == listing.pages IN
    IF n <= Len(pages) THEN pages[n]
    ELSE IF listing.repeats THEN pages[Len(pages)] ELSE <<>>

\* a careless variant: what follows the path makes another card
WithSuffix(l) ==
    [path |-> IF l.suffix = "" THEN l.path ELSE Append(l.path, l.suffix), form |-> l.form]

\* query and fragment are cut off; the spelling stays, and so does the form
Cleaned(l) == [path |-> l.path, form |-> l.form]

\* the first segment is compared in lower case
FirstSegment(l) == LowerCase[Cleaned(l)].path[1]

\* cleanCardURL: one segment on the same host, and none of the site's own pages
IsCard(l) ==
    /\ l.to = "host" /\ Len(l.path) = 1 /\ l.path[1] # ""
    /\ FirstSegment(l) \notin Reserved

\* cleanOfferVaultNetworkURL: /network/<slug> on the same host, whatever follows
IsNetwork(l) ==
    /\ l.to = "host" /\ Len(l.path) >= 2 /\ l.path[2] # ""
    /\ FirstSegment(l) = "network"

IsLink(kind, l) ==
    \/ kind = "affpaying" /\ IsCard(l)
    \/ kind = "offervault" /\ IsNetwork(l)

\* scrapeCategoryPage and scrapeNetworksPage: every a[href] of the page, in turn
Links(kind, listing, n) ==
    LET anchors == Served(listing, n)
        links[i \in 0..Len(anchors)] ==
            IF i = 0 THEN <<>>
            ELSE IF IsLink(kind, anchors[i]) THEN AppendUnique(links[i - 1], Cleaned(anchors[i]))
            ELSE links[i - 1]
    IN  links[Len(anchors)]

\* bound: past the last page all pages are alike, so their numbers are too
NextPage(listing) == IF page > Len(listing.pages) THEN page ELSE page + 1

\* a careless variant: only an empty page ends a category
EmptyPage(new, links) == links = <<>>

\* a careless variant: a page of links other categories have shown ends it too
NothingFresh(new, links) == \A i \in DOMAIN links : links[i] \in discovered

\* len(links) == 0 || newOnPage == 0
Barren(new, links) == new = {}

\* a careless variant: what is found last comes first
LastFirst(links) ==
    LET found[i \in 0..Len(links)] ==
            IF i = 0 THEN ordered
            ELSE IF links[i] \in discovered \cup known THEN found[i - 1]
            ELSE <<links[i]>> \o found[i - 1]
    IN  found[Len(links)]

\* the links of a page, in turn: what was discovered or saved before is passed over
WithFresh(links) ==
    LET found[i \in 0..Len(links)] ==
            IF i = 0 THEN ordered
            ELSE IF links[i] \in discovered \cup known THEN found[i - 1]
            ELSE Append(found[i - 1], links[i])
    IN  found[Len(links)]

\* one turn of the inner loop, the links of the page taken in
ScrapePage ==
    /\ outcome = "crawling" /\ category <= Len(walk)
    /\ \E links \in {Links(crawler, site[walk[category]], page)} :
        LET new == ToSet(links) \ categorySeen IN
        /\ ordered' = WithFresh(links)
        /\ discovered' = discovered \cup ToSet(links)
        /\ IF Barren(new, links)
           THEN /\ category' = category + 1 /\ page' = 1
                /\ categorySeen' = {}
           ELSE /\ page' = NextPage(site[walk[category]]) /\ UNCHANGED category
                /\ categorySeen' = categorySeen \cup new
    /\ UNCHANGED <<givenVars, outcome>>

\* the category URL is invalid, the request fails, the context is done: nil, err
CrawlFails ==
    /\ outcome = "crawling" /\ category <= Len(walk)
    /\ outcome' = "failed"
    /\ ordered' = <<>>
    /\ UNCHANGED <<givenVars, walkVars, categorySeen, discovered>>

CrawlReturns ==
    /\ outcome = "crawling" /\ category > Len(walk)
    /\ outcome' = "done"
    /\ UNCHANGED <<givenVars, walkVars, categorySeen, discovered, ordered>>

CrawlNext == ScrapePage \/ CrawlFails \/ CrawlReturns

CrawlSpec == CrawlInit /\ [][CrawlNext]_crawlVars

\* the crawler is one goroutine, and every request ends, by its timeout if not before
CrawlFairSpec == CrawlSpec /\ WF_crawlVars(ScrapePage \/ CrawlReturns)

-----------------------------------------------------------------------------
(* What the result is, told without the loop.  A category is read up to    *)
(* its first page that only repeats the pages before it.                   *)

\* the cards of a page: of several spellings of one, the first
CardsOn(kind, listing, n) ==
    LET anchors  == Served(listing, n)
        links    == {i \in DOMAIN anchors : IsLink(kind, anchors[i])}
        Spelt(i) == LowerCase[Cleaned(anchors[i])]
    IN  {Cleaned(anchors[i]) :
            i \in {j \in links : \A k \in links : Spelt(k) = Spelt(j) => j <= k}}

Shown(kind, listing, n) == UNION {CardsOn(kind, listing, m) : m \in 1..n}

Stale(kind, listing, n) == CardsOn(kind, listing, n) \subseteq Shown(kind, listing, n - 1)

Read(kind, listing) ==
    CHOOSE n \in 1..(Len(listing.pages) + 1) :
        Stale(kind, listing, n) /\ \A m \in 1..(n - 1) : ~Stale(kind, listing, m)

\* all that is read in one category
CardsOf(kind, listing) == Shown(kind, listing, Read(kind, listing))

(* The crawl returns the cards of every page that is read, but for those   *)
(* the store holds, and nothing else, whatever categories have in common.  *)
(* A second spelling is lost beside the first on one page, and a card of   *)
(* its own where it stands alone.                                          *)
CrawlComplete ==
    outcome = "done" =>
        ToSet(ordered) = (UNION {CardsOf(crawler, site[c]) : c \in ToSet(walk)}) \ known

(* The source URLs come each once, and one category is finished before the *)
(* next: a card comes after another only if no category shows it before    *)
(* any has shown the other, whatever the categories have in common.        *)
CardsInOrder ==
    /\ IsInjective(ordered)
    /\ outcome = "done" =>
        LET cards == [k \in DOMAIN walk |-> CardsOf(crawler, site[walk[k]])]
        IN  \A i, j \in DOMAIN ordered : i < j =>
                \A k \in DOMAIN walk :
                    ordered[j] \in cards[k] => \E m \in 1..k : ordered[i] \in cards[m]

(* What the README says: all the pages a category has are completed, so    *)
(* every card on them is returned.                                         *)
AllPagesCompleted ==
    outcome = "done" /\ walk = Categories =>
        \A c \in CategorySet :
            \A n \in DOMAIN site[c].pages : CardsOn(crawler, site[c], n) \subseteq ToSet(ordered)

(* The crawl ends, also on a site that repeats its last page for ever.     *)
CrawlEnds == <>(outcome # "crawling")
=============================================================================
