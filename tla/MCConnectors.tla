---------------------------- MODULE MCConnectors ----------------------------
(***************************************************************************)
(* Instances of Connectors for TLC: one indicator of each class, a domain  *)
(* and a URL that the patterns do not give back, and records with a field  *)
(* missing.  No two sources spell what they share alike.                   *)
(***************************************************************************)
EXTENDS Connectors, TLC

CONSTANTS hash, ip, dom, zip, url, dotUrl, cve

OneHash == {hash}
OneAddress == {ip}
TwoDomains == {dom, zip}
TwoUrls == {url, dotUrl}
OneCve == {cve}
OddOnes == {zip, dotUrl}
Hosts == (url :> dom) @@ (dotUrl :> ip)

Capitals(n) == [Plain(n) EXCEPT !.capitals = TRUE]
Defanged(n) == [Plain(n) EXCEPT !.defanged = TRUE]

Each(S) == {{s} : s \in S}
OneField(f, S) == Each({{<<f, s>>} : s \in S})

UrlhausPayloads ==
    {{{<<"url", Plain(url)>>, <<"host", Capitals(dom)>>}, {<<"host", Plain(zip)>>}},
     {{<<"url", Plain(dotUrl)>>, <<"host", Plain(ip)>>}}}

BazaarPayloads ==
    {[status |-> st, data |-> {{<<"sha256_hash", Capitals(hash)>>}}] :
        st \in {"ok", "no_results"}}

FeedPayloads ==
    ("urlhaus" :> UrlhausPayloads) @@
    ("malwarebazaar" :> BazaarPayloads) @@
    ("feodo" :> {{{<<"ip_address", Plain(ip)>>}, {}}}) @@
    ("otx" :> OneField("indicator", {Capitals(dom), Plain(zip), Plain(hash),
                                     Plain(dotUrl), Plain(url), Plain(cve)})) @@
    ("document" :> Each({Defanged(url), Plain(dom), Plain(dotUrl), Plain(cve)}))

Header(form, n) == [form |-> form, value |-> n]
Replies(status, headers) == {[status |-> status, after |-> h] : h \in headers}
NoHeader == {Header("none", 0)}

AllAnswers ==
    Replies("ok", NoHeader) \cup Replies("refused", NoHeader)
    \cup Replies("transport", NoHeader)
    \cup Replies("busy", NoHeader \cup {Header("date", 0), Header("nan", 0)}
                         \cup {Header("number", n) : n \in {-1, 0, 9}})

PageTags == {"head", "template", "script", "p", "title"}
PageContents == {Defanged(url), Plain(hash)}
=============================================================================
