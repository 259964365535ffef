------------------------------ MODULE HttpProxies ------------------------------
(***************************************************************************)
(* How an HTTPX client picks a transport: the environment's proxies become *)
(* URL patterns, sorted from the most to the least specific, and the first *)
(* that matches decides.  A host is a sequence of labels; networks in CIDR *)
(* form are left out (their patterns do not match what they name).         *)
(***************************************************************************)
EXTENDS Integers, Sequences, FiniteSets

CONSTANTS
    Hosts,          \* hosts that are addressed: sequences of labels
    Addresses,      \* those of them that are literal addresses or localhost
    Ports,          \* explicit ports; 0 is none
    NoProxyEntries, \* entries of NO_PROXY: [form, host, port, scheme]
    LabelLength     \* characters of a label

ASSUME ProxyAssumption == LabelLength \in Nat \ {0} /\ Addresses \subseteq Hosts

VARIABLES
    environ,        \* proxies that are set, by scheme, and the entries of NO_PROXY
    target,         \* the URL of the request
    via             \* the transport that was chosen

proxyVars == <<environ, target, via>>

\* get_environment_proxies: a proxy's pattern names a scheme only; an entry of NO_PROXY a host.
\* Forms: "*", "name" (example.com), "dot" (.example.com), "url" (http://example.com).
EntryPattern(e) ==
    [scheme |-> IF e.form = "url" THEN e.scheme ELSE "", host |-> e.host, port |-> e.port, proxy |-> "direct",
     match |-> IF e.form = "dot" THEN "below"
               ELSE IF e.form = "url" \/ e.host \in Addresses THEN "exact" ELSE "within"]
SchemePattern(s) ==
    [scheme |-> IF s = "all" THEN "" ELSE s, host |-> <<>>, port |-> 0, proxy |-> s, match |-> "any"]

Mounts(e) ==
    IF \E x \in e.no : x.form = "*" THEN {}
    ELSE {SchemePattern(s) : s \in e.schemes} \cup {EntryPattern(x) : x \in e.no}

\* URLPattern.__init__, matches
Suffix(host, domain) ==
    Len(host) >= Len(domain) /\ SubSeq(host, Len(host) - Len(domain) + 1, Len(host)) = domain
Matches(p, url) ==
    /\ p.scheme # "" => p.scheme = url.scheme
    /\ \/ p.match = "any"
       \/ p.match = "exact" /\ url.host = p.host
       \/ p.match = "within" /\ Suffix(url.host, p.host)
       \/ p.match = "below" /\ Suffix(url.host, p.host) /\ url.host # p.host
    /\ p.port # 0 => p.port = url.port

\* priority: a port first, then the longer host, then the longer scheme.
HostLength(p) ==
    IF p.match = "any" THEN 0
    ELSE Len(p.host) * (LabelLength + 1) - 1 + (CASE p.match = "exact" -> 0 [] p.match = "within" -> 1 [] OTHER -> 2)
SchemeLength(p) == CASE p.scheme = "" -> 0 [] p.scheme = "http" -> 4 [] OTHER -> 5
Before(p, q) ==
    LET port(x) == IF x.port # 0 THEN 0 ELSE 1
    IN \/ port(p) < port(q)
       \/ port(p) = port(q) /\ HostLength(p) > HostLength(q)
       \/ port(p) = port(q) /\ HostLength(p) = HostLength(q) /\ SchemeLength(p) > SchemeLength(q)

\* _transport_for_url: the first match in the sorted order; patterns of equal priority keep their order.
Transports(e, url) ==
    LET matching == {p \in Mounts(e) : Matches(p, url)}
    IN IF matching = {} THEN {"direct"}
       ELSE {p.proxy : p \in {q \in matching : \A r \in matching : ~ Before(r, q)}}

NoUrl == [scheme |-> "", host |-> <<>>, port |-> 0]
ProxiesInit ==
    /\ environ \in [schemes : SUBSET {"http", "https", "all"}, no : {n \in SUBSET NoProxyEntries : Cardinality(n) <= 2}]
    /\ target = NoUrl /\ via = "none"

Route(url) ==
    /\ via = "none" /\ target' = url /\ via' \in Transports(environ, url) /\ UNCHANGED environ

ProxiesNext == \E s \in {"http", "https"}, h \in Hosts, p \in Ports : Route([scheme |-> s, host |-> h, port |-> p])

\* What the comments of get_environment_proxies promise of an entry.
Covers(e, url) ==
    \/ e.form = "*"
    \/ /\ e.port = 0 \/ e.port = url.port
       /\ \/ e.form = "url" /\ e.scheme = url.scheme /\ e.host = url.host
          \/ e.form = "dot" /\ Suffix(url.host, e.host) /\ url.host # e.host
          \/ e.form = "name" /\ IF e.host \in Addresses THEN url.host = e.host ELSE Suffix(url.host, e.host)

\* get_environment_proxies, URLPattern, _transport_for_url: a request avoids the proxies exactly when
\* an entry of NO_PROXY covers its host, and otherwise takes its scheme's proxy before the general one.
NoProxyIsHonoured ==
    via # "none" =>
        via = IF \E e \in environ.no : Covers(e, target) THEN "direct"
              ELSE IF target.scheme \in environ.schemes THEN target.scheme
              ELSE IF "all" \in environ.schemes THEN "all" ELSE "direct"
===============================================================================
