----------------------------- MODULE Indicators -----------------------------
(***************************************************************************)
(* Indicators as feeds, reports and queries spell them, and the node each  *)
(* ends at: the normalize_* functions of the connectors, parse_iocs, and   *)
(* the resolution of correlate.                                            *)
(*                                                                         *)
(* A string is an indicator and how it is written: with capitals, with its *)
(* dots and scheme defanged, or cut short by the URL pattern.  The class   *)
(* of a name is its IOCType, so a string also stands for the pair (type,   *)
(* value) and for the node id made of it.                                  *)
(***************************************************************************)
CONSTANTS Hashes, Addresses, Domains, Urls,
          Unsupported,  \* what _OTX_TYPE_MAP does not have: IPv6, CVE, ...
          HostOf,       \* the host of a URL
          Odd,          \* domains and URLs that the patterns do not give back
          NotFound

Names == Hashes \cup Addresses \cup Domains \cup Urls \cup Unsupported

ASSUME NamesAssumption ==
    /\ HostOf \in [Urls -> Addresses \cup Domains]
    /\ Odd \subseteq Domains \cup Urls
ASSUME ClassesAssumption ==
    /\ Hashes \cap (Addresses \cup Domains \cup Urls \cup Unsupported) = {}
    /\ Addresses \cap (Domains \cup Urls \cup Unsupported) = {}
    /\ Domains \cap (Urls \cup Unsupported) = {}
    /\ Urls \cap Unsupported = {}

String == [name : Names, capitals : BOOLEAN, defanged : BOOLEAN, trimmed : BOOLEAN]
Plain(n) == [name |-> n, capitals |-> FALSE, defanged |-> FALSE, trimmed |-> FALSE]

Lower(s) == [s EXCEPT !.capitals = FALSE]

Refang(s) == [s EXCEPT !.defanged = FALSE]

(* The host within a URL is a match of the domain or the address pattern.  *)
(* A file extension, or a last label that is not letters only, is no       *)
(* domain; the end of a URL can be punctuation for rstrip.                 *)
ParseHost(n) ==
    IF n \in Addresses THEN {Plain(n)} ELSE {Plain(x) : x \in {n} \ Odd}

(* parse_iocs on a text that is one indicator.                             *)
ParseOne(string) ==
    LET s == Refang(string)
    IN  CASE s.name \in Hashes       -> {Lower(s)}
          [] s.name \in Addresses    -> {s}
          [] s.name \in Domains      -> {Lower(x) : x \in {y \in {s} : y.name \notin Odd}}
          [] s.name \in Urls         -> {[s EXCEPT !.trimmed = s.name \in Odd]}
                                           \cup ParseHost(HostOf[s.name])
          [] s.name \in Unsupported  -> {}

ParseIocs(text) == UNION {ParseOne(s) : s \in text}

-----------------------------------------------------------------------------
(* A record of a feed is its fields: pairs of a field and a string.  A     *)
(* missing or an empty field is no pair.                                   *)
Field(record, f) == {pair[2] : pair \in {x \in record : x[1] = f}}

(* _host_type, and the lower() of what is not an address.                  *)
HostIoc(s) == IF s.name \in Addresses THEN s ELSE Lower(s)

NormalizeUrlhaus(records) ==
    UNION {Field(r, "url") \cup {HostIoc(h) : h \in Field(r, "host")} :
             r \in {x \in records : Field(x, "url") # {}}}

HashFields == {"sha256_hash", "sha1_hash", "md5_hash"}

(* Whatever query_status but "ok" is an empty feed.                        *)
NormalizeMalwareBazaar(status, samples) ==
    IF status # "ok" THEN {}
    ELSE {Lower(h) : h \in UNION {Field(r, f) : r \in samples, f \in HashFields}}

NormalizeFeodo(records) == UNION {Field(r, "ip_address") : r \in records}

\* Mutant: values are kept as they are.
NormalizeIndicatorsRaw(records) ==
    {s \in UNION {Field(r, "indicator") : r \in records} : s.name \notin Unsupported}

\* Mutant: the type map is not asked.
NormalizeAnyIndicators(records) ==
    {IF s.name \in Urls THEN s ELSE Lower(s) :
        s \in UNION {Field(r, "indicator") : r \in records}}

(* OTX: values are lowered, but for URLs, and unsupported types skipped.   *)
NormalizeIndicators(records) ==
    {IF s.name \in Urls THEN s ELSE Lower(s) :
        s \in {x \in UNION {Field(r, "indicator") : r \in records} :
                  x.name \notin Unsupported}}

-----------------------------------------------------------------------------
\* Mutant: the shortest candidate is tried first.
ResolveShortest(nodes, query) ==
    LET found == ParseOne(query) \cap nodes
        hosts == {s \in found : s.name \notin Urls}
    IN  IF found = {} THEN NotFound
        ELSE CHOOSE s \in found : hosts # {} => s \in hosts

(* correlate: the longest candidate that has a node, and a URL is longer   *)
(* than its host.                                                          *)
Resolve(nodes, query) ==
    LET found == ParseOne(query) \cap nodes
        urls == {s \in found : s.name \in Urls}
    IN  IF found = {} THEN NotFound
        ELSE CHOOSE s \in found : urls # {} => s \in urls

(* The ways one indicator is written: capitals make another URL.           *)
Spellings(s) ==
    {[name |-> s.name, capitals |-> c, defanged |-> d, trimmed |-> s.trimmed] :
        c \in IF s.name \in Domains \cup Hashes THEN BOOLEAN ELSE {s.capitals},
        d \in IF s.name \in Hashes THEN {FALSE} ELSE BOOLEAN}
=============================================================================
