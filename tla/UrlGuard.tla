------------------------------ MODULE UrlGuard ------------------------------
(***************************************************************************)
(* UrlGuard (app/core/net/guard.py): which URLs the server fetches.        *)
(*                                                                         *)
(* A URL is a record of what the guard and the crawler read of it; a host  *)
(* is the sequence of its labels.  What a host resolves to does not change *)
(* while a model runs, so a verdict is an operator and not a state.        *)
(***************************************************************************)
EXTENDS Naturals, Sequences, SequencesExt

CONSTANTS
    Urls,         \* records [scheme, host, port, path]
    Addresses,    \* of each host: what getaddrinfo returns, {} when it fails
    AllowPrivate, \* CRAWL_ALLOW_PRIVATE_NETWORKS
    AllowedPorts, \* CRAWL_ALLOWED_PORTS; {} allows every port
    Allowlist,    \* CRAWL_DOMAIN_ALLOWLIST; {} allows every domain
    Denylist      \* CRAWL_DOMAIN_DENYLIST

ASSUME GuardAssumption ==
    /\ AllowPrivate \in BOOLEAN
    /\ AllowedPorts \subseteq Nat
    /\ \A u \in Urls : Addresses[u.host] \subseteq {"global", "private"}

Hosts == {u.host : u \in Urls}

\* A host is one of the domains or a subdomain of one.
host_matches(host, domains) == \E d \in domains : IsSuffix(d, host)

check_syntax(u) ==
    /\ u.scheme \in {"http", "https"}
    /\ u.host # <<>>
    /\ AllowedPorts # {} => u.port \in AllowedPorts
    /\ ~host_matches(u.host, Denylist)
    /\ Allowlist # {} => host_matches(u.host, Allowlist)

\* An address a host resolves to must be public, every one of them.
_resolve(host) == Addresses[host]

Vetted ==
    {u \in Urls :
        /\ check_syntax(u)
        /\ AllowPrivate \/ (_resolve(u.host) # {} /\ _resolve(u.host) \subseteq {"global"})}

check(u) == u \in Vetted

\* The allowed ones of a batch; the others are answered as blocked.
partition(urls) == {u \in urls : check(u)}
=============================================================================
