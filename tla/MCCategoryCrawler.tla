-------------------------- MODULE MCCategoryCrawler --------------------------
(* CategoryCrawler on two categories, one of them given twice, over every     *)
(* choice of one or two of four pages for each: pages that are empty, that    *)
(* repeat one another in whole or in part, that hold links which are no       *)
(* cards, two spellings of one card, one card behind two queries and with a   *)
(* slash at its end.  The listing of networks has the same pages, each path   *)
(* one segment deeper, and one with a network that has no name.               *)
EXTENDS CategoryCrawler

MCCategories == <<"gambling", "crypto", "gambling">>
MCReserved   == {"login"}

Link(name) == [to |-> "host", path |-> <<name>>, form |-> "https", suffix |-> ""]

alpha  == Link("alpha")
Alpha  == Link("Alpha")
Beta   == Link("beta")
Login  == Link("Login")
Query  == [Beta EXCEPT !.suffix = "?ref=1"]
Slash  == [Link("alpha") EXCEPT !.form = "https, slash"]
Abroad == [Link("gamma") EXCEPT !.to = "elsewhere"]
Deeper == [Link("offers") EXCEPT !.path = <<"offers", "gamma">>]
Home   == Link("")
NoName == [Link("network") EXCEPT !.path = <<"network", "", "gamma">>]

MCLowerCase ==
    LET names == {"alpha", "Alpha", "beta", "gamma", "login", "Login"}
        lower(n) == IF n = "Alpha" THEN "alpha" ELSE IF n = "Login" THEN "login" ELSE n
        paths ==
            {<<n>> : n \in names}
            \cup {<<r, n>> : r \in {"network", "offers"}, n \in names}
            \cup {<<"network", "offers", "gamma">>,
                  <<"beta", "?ref=1">>, <<"network", "beta", "?ref=1">>}
    IN  [x \in [path: paths, form: {"https", "https, slash"}] |->
            [x EXCEPT !.path = [i \in DOMAIN @ |-> lower(@[i])]]]

Pages == {<<>>, <<Login, Beta, Abroad>>,
          <<alpha, Alpha, Slash>>, <<Alpha, Query, Deeper, alpha>>}

ListingsOf(pages) ==
    [pages: {<<p>> : p \in pages} \cup {<<p, q>> : p, q \in pages}, repeats: BOOLEAN]

\* a page that links home and nowhere else is as good as empty
MCListings == ListingsOf((Pages \ {<<>>}) \cup {<<Home>>})
MCNetworks ==
    ListingsOf({[i \in DOMAIN p |-> [p[i] EXCEPT !.path = <<"network">> \o @]] : p \in Pages}
               \cup {<<NoName, Deeper, alpha>>})

\* a category that shows its only new card behind a page of old ones
RepeatedMidway ==
    {[pages |-> <<<<alpha>>, <<Login, alpha>>, <<Beta>>>>, repeats |-> FALSE]}

MCStores == {{}, {[path |-> <<"network", "beta">>, form |-> "https"]}}
=============================================================================
