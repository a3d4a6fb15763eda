----------------------------- MODULE CacheRules -----------------------------
(***************************************************************************)
(* What may be cached and for how long (cdn-cache strategy.rs), and which  *)
(* bytes a Range request gets (cdn-proxy range.rs).                        *)
(*                                                                         *)
(* A path is a record [text, ext, matches]: the sequence of its parts, its *)
(* extension, and the regular expressions of the rules that match it.  An  *)
(* absent header or option is the empty set, a present one a singleton.    *)
(***************************************************************************)
EXTENDS Integers, Sequences, FiniteSets, FiniteSetsExt, SequencesExt

The(option) == CHOOSE x \in option : TRUE

(***************************************************************************)
(* The rules of a site.  A rule is [type, match, ttl, unit]; match is a    *)
(* path prefix, a set of extensions or a regular expression.               *)
(***************************************************************************)
rule_ttl_seconds(rule) ==
    rule.ttl * CASE rule.unit = "minutes" -> 60 [] rule.unit = "hours" -> 3600
                 [] rule.unit = "days" -> 86400 [] OTHER -> 1

OfType(rules, type) == {i \in DOMAIN rules : rules[i].type = type}

\* The path rule with the longest prefix, the first among equals.
PathRule(path, rules) ==
    LET hits    == {i \in OfType(rules, "path") : IsPrefix(rules[i].match, path.text)}
        longest == {i \in hits : \A j \in hits : Len(rules[j].match) <= Len(rules[i].match)}
    IN  IF hits = {} THEN {} ELSE {Min(longest)}

\* Path rules, then extension rules, then regular expressions, then the default.
match_rule_ttl(path, rules, default_ttl) ==
    LET byPath  == PathRule(path, rules)
        byExt   == {i \in OfType(rules, "extension") : path.ext \in rules[i].match}
        byRegex == {i \in OfType(rules, "regex") : rules[i].match \in path.matches}
        pick    == IF byPath # {} THEN byPath ELSE IF byExt # {} THEN byExt ELSE byRegex
    IN  IF pick = {} THEN default_ttl ELSE rule_ttl_seconds(rules[Min(pick)])

\* The lifetime of a cacheable request; empty when the request is not cacheable.
check_request_cacheability(request, config) ==
    LET ttl == match_rule_ttl(request.path, config.rules, config.default_ttl)
    IN  IF /\ config.enabled
           /\ request.method \in {"GET", "HEAD"}
           /\ request.cache_control \cap {"no-cache", "no-store"} = {}
           /\ (request.authorization => config.cache_authorized)
           /\ ttl # 0
        THEN {ttl} ELSE {}

CacheableStatuses == {200, 203, 204, 206, 300, 301, 302, 304, 307, 308, 404, 410}

check_response_cacheability(response, config) ==
    /\ response.status \in CacheableStatuses
    /\ response.cache_control.flags \cap {"private", "no-cache", "no-store"} = {}
    /\ (response.set_cookie => config.cache_cookies)
    /\ response.vary # "*"
    /\ \A len \in response.content_length : len <= config.max_size

\* Mutant: the origin's lifetime replaces the configured one, even a shorter one.
OriginDecides(config_ttl, cache_control, expires) ==
    IF cache_control.s_maxage # {} THEN The(cache_control.s_maxage)
    ELSE IF cache_control.max_age # {} THEN The(cache_control.max_age)
    ELSE IF expires # {} THEN Max({0, The(expires)}) ELSE config_ttl

\* s-maxage, then max-age, then Expires (as seconds from now), then the
\* configured lifetime; never more than the configured lifetime.
adjust_ttl(config_ttl, cache_control, expires) ==
    IF cache_control.s_maxage # {} THEN Min({config_ttl, The(cache_control.s_maxage)})
    ELSE IF cache_control.max_age # {} THEN Min({config_ttl, The(cache_control.max_age)})
    ELSE IF expires # {} THEN Min({config_ttl, Max({0, The(expires)})})
    ELSE config_ttl

\* The lifetime response_filter stores a response with; empty when it is not
\* stored.  A lifetime the origin cuts to 0 is still stored.
StoredTtl(request, response, config) ==
    LET asked == check_request_cacheability(request, config)
    IN  IF asked # {} /\ check_response_cacheability(response, config)
        THEN {adjust_ttl(The(asked), response.cache_control, response.expires)} ELSE {}

(***************************************************************************)
(* Ranges.  A header is [form, first, last] with form "single", "open",    *)
(* "suffix" (first is the length), "multi" or "bad".                       *)
(***************************************************************************)
parse_range_header(header) ==
    IF \/ header.form \in {"multi", "bad"}
       \/ header.form = "suffix" /\ header.first = 0
       \/ header.form = "single" /\ header.first > header.last
    THEN {} ELSE {header}

\* Mutant: the last byte of a range is taken as its end.
EndExclusive(spec, total) ==
    IF total = 0 \/ (spec.form # "suffix" /\ spec.first >= total) THEN <<>>
    ELSE IF spec.form = "single" THEN <<spec.first, Min({spec.last, total}) - 1>>
    ELSE IF spec.form = "open" THEN <<spec.first, total - 1>>
    ELSE <<Max({0, total - spec.first}), total - 1>>

\* The first and last byte, or the empty sequence when not satisfiable.
resolve_range(spec, total) ==
    IF total = 0 \/ (spec.form # "suffix" /\ spec.first >= total) THEN <<>>
    ELSE IF spec.form = "single" THEN <<spec.first, Min({spec.last, total - 1})>>
    ELSE IF spec.form = "open" THEN <<spec.first, total - 1>>
    ELSE <<Max({0, total - spec.first}), total - 1>>

slice_body(body, start, end) ==
    LET last == Min({end, Max({0, Len(body) - 1})})
    IN  IF start > last \/ start >= Len(body) THEN <<>> ELSE SubSeq(body, start + 1, last + 1)

\* response_body_filter on an origin's 200: the body is sliced only if it came
\* with a Content-Length (known), and sent whole otherwise, as it is when the
\* header is not usable or asks for nothing the body has.
RangeBody(header, body, known) ==
    LET spec  == parse_range_header(header)
        range == resolve_range(The(spec), Len(body))
    IN  IF spec = {} \/ ~known \/ range = <<>> THEN body
        ELSE slice_body(body, range[1], range[2])
=============================================================================
