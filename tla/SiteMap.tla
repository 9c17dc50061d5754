------------------------------- MODULE SiteMap -------------------------------
(***************************************************************************)
(* MapService (app/services/mapper.py): the URLs of a site, from its       *)
(* sitemap, else from the sitemaps its robots.txt names, else from the     *)
(* links of the page asked about.  A sitemap may name sitemaps of its own, *)
(* read one level deep; every document may be elsewhere, a redirect away.  *)
(*                                                                         *)
(* One request, of a client that may be gone without leaving a trace.  One *)
(* action is one document: the guard, the GET, what is made of the body.   *)
(* The documents that are left to read are a sequence, in the order of the *)
(* loops of _from_robots and _from_sitemap.  The order of the links only   *)
(* matters where the answer is cut to its limit, and is left open there.   *)
(***************************************************************************)
EXTENDS UrlGuard, FiniteSets

CONSTANTS
    Entries,      \* what may be asked about
    Named,        \* documents that a sitemap, a robots.txt or a redirect may name
    Links,        \* URLs that a sitemap or a page may list
    Matching,     \* ... of which these contain the search string
    Limit,        \* MapRequest.limit
    MaxNested,    \* _MAX_NESTED_SITEMAPS
    MaxRedirects  \* _MAX_REDIRECTS

ASSUME SiteMapAssumption ==
    /\ Entries \cup Named \subseteq Urls
    /\ \A e \in Entries, path \in {"sitemap", "robots"} : [e EXCEPT !.path = path] \in Urls
    /\ IsFiniteSet(Links) /\ Matching \subseteq Links
    /\ Limit \in Nat \ {0}
    /\ {MaxNested, MaxRedirects} \subseteq Nat

VARIABLES
    entry,     \* req.url
    stage,     \* where map_site stands
    source,    \* the source it is at, or has answered from
    todo,      \* the documents of that source that are left to read
    links,     \* of each source: the URLs it yielded
    answer,    \* MapResponse.links
    requested, \* history: URLs a GET went to
    gets       \* history: how many GETs there were

vars == <<entry, stage, source, todo, links, answer, requested, gets>>

Sources == {"sitemap", "robots", "page"}

\* A document to read: "index" may name others, "child" is named by one.
Documents == [url : Urls, kind : {"index", "child", "robots"}, hops : 0..MaxRedirects]

TypeOK ==
    /\ entry \in Entries
    /\ stage \in {"asked", "reading", "crawling", "refused", "answered", "failed"}
    /\ source \in Sources
    /\ todo \in Seq(Documents)
    /\ links \in [Sources -> SUBSET Links]
    /\ answer \subseteq Links
    /\ requested \subseteq Urls
    /\ gets \in Nat

Init ==
    /\ entry \in Entries
    /\ stage = "asked"
    /\ source = "sitemap"
    /\ todo = <<>>
    /\ links = [s \in Sources |-> {}]
    /\ answer = {}
    /\ requested = {}
    /\ gets = 0

-----------------------------------------------------------------------------
(* Parts of the steps.  Definitions named ...Bug are no part of the        *)
(* specification: each is a mistake this code could have made.             *)

Document(url, kind) == [url |-> url, kind |-> kind, hops |-> 0]

\* A document of the site itself.
_origin(path) == [entry EXCEPT !.path = path]

\* A sitemap and its children, a robots.txt, the sitemaps it names and theirs,
\* and the redirects of each.
MostGets == (MaxRedirects + 1) * (2 + MaxNested + MaxNested * (MaxNested + 1))

Lesser(a, b) == IF a < b THEN a ELSE b

\* The first few documents that a body names, each to be read as this kind.
Few(names, kind) ==
    [i \in 1..Lesser(Len(names), MaxNested) |-> Document(names[i], kind)]

\* parse_robots_sitemaps and parse_sitemap: what the body of a document adds to
\* the documents to read: "one level only, no recursion".
Nested(d, names) ==
    CASE d.kind = "robots" -> Few(names, "index")
      [] d.kind = "index"  -> Few(names, "child")
      [] OTHER             -> <<>>

\* What is kept of some links: the matching ones, up to the limit.
_respond(found) ==
    {kept \in SUBSET (found \cap Matching) :
        Cardinality(kept) = Lesser(Limit, Cardinality(found \cap Matching))}

\* The source is exhausted: it answers if it yielded anything, else the next
\* one is tried.
Exhausted ==
    /\ links' = links
    /\ \/ /\ links[source] # {}
          /\ stage' = "answered"
          /\ answer' \in _respond(links[source])
          /\ UNCHANGED <<source, todo>>
       \/ /\ links[source] = {} /\ source = "sitemap"
          /\ source' = "robots"
          /\ todo' = <<Document(_origin("robots"), "robots")>>
          /\ UNCHANGED <<stage, answer>>
       \/ /\ links[source] = {} /\ source = "robots"
          /\ source' = "page"
          /\ stage' = "crawling"
          /\ UNCHANGED <<todo, answer>>

\* A document is done with: it yielded these links, and names these others.
Done(found, documents) ==
    /\ links' = [links EXCEPT ![source] = @ \cup found]
    /\ todo' = documents \o Tail(todo)
    /\ UNCHANGED <<stage, source, answer>>

\* A GET of a document; one GET too many is as bad as several.
Get(d) ==
    /\ requested' = requested \cup {d.url}
    /\ gets' = Lesser(gets + 1, MostGets + 1)

-----------------------------------------------------------------------------
\* "Nothing is fetched before this passes."
Begin ==
    /\ stage = "asked"
    /\ IF check(entry)
       THEN /\ stage' = "reading"
            /\ todo' = <<Document(_origin("sitemap"), "index")>>
       ELSE stage' = "refused" /\ UNCHANGED todo
    /\ UNCHANGED <<entry, source, links, answer, requested, gets>>

Reading == stage = "reading" /\ todo # <<>>

\* _get: the guard refuses the document, which is skipped.
Skip ==
    /\ Reading /\ ~check(Head(todo).url)
    /\ Done({}, <<>>)
    /\ UNCHANGED <<entry, requested, gets>>

\* The document that a source begins with, at the site itself.
OfSite(d) == d.url \in {_origin("sitemap"), _origin("robots")}

\* A body or a redirect names what is no URL: urlsplit raises in the guard, or
\* httpx before the GET, and nothing between there and the route catches it.
Unparsable ==
    /\ Reading /\ ~OfSite(Head(todo))
    /\ stage' = "failed"
    /\ UNCHANGED <<entry, source, todo, links, answer, requested, gets>>

\* It cannot be had, or is too large, or is not what it should be.
Unusable ==
    /\ Reading /\ check(Head(todo).url)
    /\ Get(Head(todo))
    /\ Done({}, <<>>)
    /\ UNCHANGED entry

EndlessBug ==
    /\ Reading /\ check(Head(todo).url)
    /\ Get(Head(todo))
    /\ \E u \in Named : Done({}, <<[Head(todo) EXCEPT !.url = u]>>)
    /\ UNCHANGED entry

RedirectedBug ==
    /\ Reading /\ (check(Head(todo).url) \/ Head(todo).hops > 0)
    /\ Get(Head(todo))
    /\ \E u \in Named :
         IF Head(todo).hops = MaxRedirects THEN Done({}, <<>>)
         ELSE Done({}, <<[Head(todo) EXCEPT !.url = u, !.hops = @ + 1]>>)
    /\ UNCHANGED entry

\* It is elsewhere: "every hop must be re-checked", and there are only so many.
Redirected ==
    /\ Reading /\ check(Head(todo).url)
    /\ Get(Head(todo))
    /\ \E u \in Named :
         IF Head(todo).hops = MaxRedirects THEN Done({}, <<>>)
         ELSE Done({}, <<[Head(todo) EXCEPT !.url = u, !.hops = @ + 1]>>)
    /\ UNCHANGED entry

\* It is read: a robots.txt lists no pages, a sitemap pages or sitemaps or both.
Read ==
    /\ Reading /\ check(Head(todo).url)
    /\ Get(Head(todo))
    /\ \E found \in SUBSET Links, names \in SeqOf(Named, MaxNested + 1) :
         Done(IF Head(todo).kind = "robots" THEN {} ELSE found, Nested(Head(todo), names))
    /\ UNCHANGED entry

NextSource ==
    /\ stage = "reading" /\ todo = <<>>
    /\ Exhausted
    /\ UNCHANGED <<entry, requested, gets>>

\* _from_page: the crawler reads the page, or could not, or raises.
Crawled ==
    /\ stage = "crawling"
    /\ \/ \E found \in SUBSET Links :
            /\ links' = [links EXCEPT !["page"] = found]
            /\ answer' \in _respond(found)
            /\ stage' = "answered"
       \/ stage' = "failed" /\ UNCHANGED <<links, answer>>
    /\ UNCHANGED <<entry, source, todo, requested, gets>>

-----------------------------------------------------------------------------
Next == Begin \/ Skip \/ Unparsable \/ Unusable \/ Redirected \/ Read \/ NextSource \/ Crawled

Spec == Init /\ [][Next]_vars

-----------------------------------------------------------------------------
(* Properties.                                                             *)

(***************************************************************************)
(* "each one goes through the SSRF guard first - including the nested      *)
(* sitemaps a remote robots.txt points at", and the targets of redirects:  *)
(* no GET goes to a URL that the guard refuses.                            *)
(***************************************************************************)
OnlyVettedRequests == requested \subseteq partition(Urls)

(***************************************************************************)
(* "A sitemap index listing a thousand children must not turn one request  *)
(* into a thousand": whatever documents a site serves, however they name   *)
(* and redirect to each other, a request makes a bounded number of GETs    *)
(* (366, with the limits of the code).                                     *)
(***************************************************************************)
RequestsAreBounded == gets <= MostGets

(***************************************************************************)
(* "The first one that yields URLs wins": an answer has links of one       *)
(* source, every earlier source yielded none, and links are left out only  *)
(* for the search or because the limit is reached.                         *)
(***************************************************************************)
FirstSourceAnswers ==
    stage = "answered" =>
        /\ source # "sitemap" => links["sitemap"] = {}
        /\ source = "page" => links["robots"] = {}
        /\ source # "page" => links[source] # {}
        /\ answer \subseteq links[source] \cap Matching
        /\ Cardinality(answer) < Limit => answer = links[source] \cap Matching
=============================================================================
