---------------------------- MODULE MCApplication ----------------------------
(* Application on two URLs: pages with and without text, with a handle that   *)
(* is accepted in one launch and rejected in another, alone or beside a new   *)
(* one, with and without CIS and a usable mail domain.                        *)
EXTENDS Application

CONSTANTS h1, h2

Page(text, good, bad, why, mx) ==
    [text |-> text, accepted |-> good, rejected |-> bad, reason |-> why, mx |-> mx]

MCLeads == {
    Page("name", {h1}, {}, "suffix", TRUE),
    Page("other name", {}, {h1}, "", FALSE),
    Page("other name", {h2}, {h1}, "", FALSE),
    Page("", {}, {}, "domain", FALSE)}
=============================================================================
