------------------------------ MODULE MCCrawler ------------------------------
(* Bounds of Crawler for TLC: two pages of one host, one of them named like *)
(* a document, and a URL of a host that resolves to a private address.      *)
EXTENDS Crawler

Url(host, path) ==
    [scheme |-> "https", host |-> host, port |-> 443, path |-> path]

Plain   == Url(<<"www", "a">>, "plain")
Doc     == Url(<<"www", "a">>, "extension")
Private == Url(<<"b">>, "plain")

MCUrls == {Plain, Doc, Private}
MCAddresses == (<<"www", "a">> :> {"global"}) @@ (<<"b">> :> {"global", "private"})
MCRequests == {{Plain}, {Private}, {Plain, Doc, Private}}
MCDenylist == {<<"c">>}
=============================================================================
