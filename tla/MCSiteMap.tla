------------------------------ MODULE MCSiteMap ------------------------------
(* Bounds of SiteMap for TLC: a site, whose sitemap may be named again, a    *)
(* document of another public host, a document and an entry of a private one. *)
EXTENDS SiteMap, TLC

Url(host, path) == [scheme |-> "https", host |-> host, port |-> 443, path |-> path]

Site    == Url(<<"a">>, "page")
Private == Url(<<"b">>, "page")
Remote  == Url(<<"c">>, "document")
Inside  == Url(<<"b">>, "document")

MCUrls == {Site, Private, Remote, Inside}
          \cup {Url(e.host, path) : e \in {Site, Private}, path \in {"sitemap", "robots"}}
MCAddresses == (<<"a">> :> {"global"}) @@ (<<"b">> :> {"private"}) @@ (<<"c">> :> {"global"})
MCEntries == {Site, Private}
MCNamed == {Remote, Inside, Url(<<"a">>, "sitemap")}
=============================================================================
