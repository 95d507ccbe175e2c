---------------------------- MODULE MCPageScraper ----------------------------
(* PageScraper on the four kinds of URLs and two families of pages: every     *)
(* pair of blocks, inside a wrapper block or not, with one heading and one    *)
(* text; and every choice of headings, table rows and texts, with one block.  *)
EXTENDS PageScraper

MCURLs ==
    {[scheme |-> "https", host |-> h] :
        h \in {"affpaying.com", "WWW.OfferVault.com.", "acme.com", "."}}
    \cup {[scheme |-> "", host |-> "affpaying.com"]}

MCUndotted ==
    [h \in {"affpaying.com", "acme.com"} |-> h]
    @@ ("WWW.OfferVault.com." :> "WWW.OfferVault.com") @@ ("." :> "")

MCLowerCase ==
    [x \in {"affpaying.com", "acme.com", "", "Bob", "Ann ann@x.com", "Account manager",
            "Our team Account manager", "info@x.ru", "admin@x.com", "share", "logo@2x.png",
            "ads", "olga", "ann@x.com"} |-> x]
    @@ ("WWW.OfferVault.com" :> "www.offervault.com")
    @@ ("www.offervault.com" :> "www.offervault.com") @@ ("Ann" :> "ann") @@ ("ann" :> "ann") @@ ("bob" :> "bob") @@ ("BOB" :> "bob")
    @@ ("Ivan@x.com" :> "ivan@x.com") @@ ("ivan@x.com" :> "ivan@x.com")
    @@ ("Live:Bob" :> "live:bob") @@ ("live:bob" :> "live:bob")

Email(x)    == [kind |-> "emails", text |-> x]
Telegram(x) == [kind |-> "telegram", text |-> x]
Skype(x)    == [kind |-> "skype", text |-> x]

MCTokensIn ==
    [n \in DOMAIN MCLowerCase |-> IF n = "Ann ann@x.com" THEN <<Email("ann@x.com")>> ELSE <<>>]

MCNoise       == {"share", "logo@2x.png"}
MCSystemBoxes == {"info", "admin"}
MCCISHosts    == {"x.ru"}
MCSlavicNames == {"olga", "ivan", "Olga Media"}
MCMailbox ==
    ("info@x.ru" :> [box |-> "info", host |-> "x.ru"])
    @@ ("admin@x.com" :> [box |-> "admin", host |-> "x.com"])
    @@ ("ivan@x.com" :> [box |-> "ivan", host |-> "x.com"])
    @@ ("ann@x.com" :> [box |-> "ann", host |-> "x.com"])

-----------------------------------------------------------------------------
Unnamed     == [s \in Selectors |-> <<>>]
Named(n, r) == [label |-> "", names |-> [Unnamed EXCEPT ![r] = <<n>>]]

\* a name, the same name by a better selector, a name with an address in it, a
\* label only, an empty element before a name
Names == {Named("Bob", 3), Named("BOB", 1), Named("Ann ann@x.com", 1),
          [label |-> "Account manager", names |-> Unnamed],
          [label |-> "", names |-> [Unnamed EXCEPT ![1] = <<"", "Ann">>, ![4] = <<"Bob">>]]}
Links == {<<>>, <<Telegram("share"), Email("Ivan@x.com"), Skype("Live:Bob")>>,
          <<Email("ivan@x.com"), Skype("live:bob"), Telegram("ads")>>}

Block(d, role, n, links) ==
    [depth |-> d, role |-> role, label |-> n.label, names |-> n.names, links |-> links]

Blocks == {Block(1, r, n, l) : r \in {"manager", "contact"}, n \in Names, l \in Links}
          \cup {Block(1, "", Named("Bob", 3), l) : l \in Links}

Within(b) == [b EXCEPT !.depth = 2]

\* the text before a colon may begin in one block and end in the next
LabelOf(a, b) ==
    IF a.label # "" THEN a.label ELSE IF b.label # "" THEN "Our team " \o b.label ELSE ""

Wrapper(a, b) == Block(0, "", [label |-> LabelOf(a, b), names |-> Unnamed], <<>>)
Around(a, b)  == [a EXCEPT !.label = LabelOf(a, b)]

Layouts == UNION {{<<a, b>>, <<Wrapper(a, b), a, b>>, <<Around(a, b), Within(b)>>} : a, b \in Blocks}

Page(h1, og, titles, rows, terms, blocks, text, meta) ==
    [answered |-> TRUE, h1 |-> h1, og |-> og, titles |-> titles, rows |-> rows, terms |-> terms, blocks |-> blocks,
     text |-> text \o FlattenSeq([i \in DOMAIN blocks |-> blocks[i].links]) \o meta, meta |-> meta]

Pair(l, v) == [label |-> l, value |-> v]

BlockPages == {Page("Acme", "", <<>>, <<>>, <<>>, b, <<>>, <<>>) : b \in Layouts}

HeadingPages ==
    {Page(h, og, ts, r, <<Pair({"minimum", "payout", "payment terms"}, "weekly")>>, <<>>, x, m) :
        h \in {"", "Acme"}, og \in {"", "Olga Media"}, ts \in {<<>>, <<"", "Olga Media">>},
        r \in {<<>>, <<Pair({"frequency"}, "monthly"), Pair({"minimum", "payout"}, "50"),
                       Pair({"minimum", "payout"}, "")>>},
        x \in {<<>>, <<Email("info@x.ru")>>, <<Email("admin@x.com"), Telegram("olga")>>,
               <<Email("logo@2x.png")>>},
        m \in {<<>>, <<Email("Ivan@x.com")>>}}

MCPages == BlockPages \cup HeadingPages
=============================================================================
