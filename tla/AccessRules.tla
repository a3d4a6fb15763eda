----------------------------- MODULE AccessRules -----------------------------
(***************************************************************************)
(* The decisions taken before a request reaches the cache: which site it   *)
(* is for (live_config.rs), whether the WAF lets it pass (waf), whether it *)
(* is redirected (redirect), whether its URL is signed (streaming auth).   *)
(*                                                                         *)
(* A host is the sequence of its labels, in lower case and without port.   *)
(* An address is a sequence of bits and a CIDR block a prefix of it.  An   *)
(* absent option or header is the empty set, a present one a singleton.    *)
(***************************************************************************)
EXTENDS Integers, Sequences, FiniteSets, FiniteSetsExt, SequencesExt, TLC

The(option) == CHOOSE x \in option : TRUE

(***************************************************************************)
(* Sites.  A domain is [wild, labels].  When two sites claim a domain the  *)
(* index keeps the one the hash map yields last: any of them.              *)
(***************************************************************************)
build_indexes(sites, domain) ==
    {s \in DOMAIN sites : sites[s].enabled /\ domain \in sites[s].domains}

\* The sites a host may match: an exact domain, or a wildcard one label shorter.
match_site(sites, host) ==
    LET exact == build_indexes(sites, [wild |-> FALSE, labels |-> host])
        wild  == build_indexes(sites, [wild |-> TRUE, labels |-> Tail(host)])
    IN  IF exact # {} THEN exact ELSE IF Len(host) > 1 THEN wild ELSE {}

(***************************************************************************)
(* The WAF.                                                                *)
(***************************************************************************)
contains(cidrs, ip) == \E c \in cidrs : IsPrefix(c, ip)

\* What the loaded databases know of an address; facts.known are the databases
\* that hold it.  The Country database is asked only when the City database is
\* not loaded.
lookup(databases, facts) ==
    LET source == IF "city" \in databases THEN "city" ELSE "country"
        found  == source \in databases \cap facts.known
    IN  [country   |-> IF found THEN facts.country ELSE {},
         continent |-> IF found THEN facts.continent ELSE {},
         region    |-> IF found /\ source = "city" THEN facts.region ELSE {},
         asn       |-> IF "asn" \in databases THEN facts.asn ELSE {}]

\* Mutant: a country that is not known passes the whitelist.
WhitelistFailsOpen(rules, geo) ==
    rules.country_whitelist # {} /\ geo.country # {}
        /\ geo.country \cap rules.country_whitelist = {}

\* Not in the whitelist, or not known while there is one.
OutsideWhitelist(rules, geo) ==
    rules.country_whitelist # {} /\ geo.country \cap rules.country_whitelist = {}

needs_geo(rules) ==
    \/ rules.asn_blacklist # {} \/ rules.country_whitelist # {} \/ rules.country_blacklist # {}
    \/ rules.region_blacklist # {} \/ rules.continent_blacklist # {}

\* The first check that hits, "none" if none does.  A region is a pair of a
\* country and a subdivision.
FirstHit(rules, ip, geo) ==
    IF contains(rules.ip_whitelist, ip) THEN "none"
    ELSE IF contains(rules.ip_blacklist, ip) THEN "ip_blacklist"
    ELSE IF ~needs_geo(rules) THEN "none"
    ELSE IF geo.asn \cap rules.asn_blacklist # {} THEN "asn_blacklist"
    ELSE IF OutsideWhitelist(rules, geo) THEN "country_whitelist"
    ELSE IF geo.country \cap rules.country_blacklist # {} THEN "country_blacklist"
    ELSE IF geo.continent \cap rules.continent_blacklist # {} THEN "continent_blacklist"
    ELSE IF (geo.country \X geo.region) \cap rules.region_blacklist # {} THEN "region_blacklist"
    ELSE "none"

make_result(mode, hit) == [verdict |-> mode, type |-> hit]

check_with_sets(waf, ip, geo) ==
    LET hit == FirstHit(waf.rules, ip, geo)
    IN  IF ~waf.enabled \/ hit = "none" THEN [verdict |-> "allow", type |-> "none"]
        ELSE make_result(waf.mode, hit)

(***************************************************************************)
(* Uploads.  A MIME type is a pair; a pattern may have "*" in either       *)
(* place.                                                                  *)
(***************************************************************************)
mime_matches(pattern, mime) ==
    pattern = <<"*", "*">> \/ pattern = mime \/ pattern = <<mime[1], "*">>

check_content_length(content_length, method, config) ==
    IF /\ config.enabled /\ method \in config.inspect_methods /\ config.max_body_size > 0
       /\ \E len \in content_length : len > config.max_body_size
    THEN "too_large" ELSE "allow"

check_magic_bytes(detected, declared, config) ==
    LET Listed(list) == \E m \in detected : \E p \in list : mime_matches(p, m)
        listed == config.allowed \cup config.blocked
    IN  IF ~config.enabled \/ listed = {} THEN "allow"
        ELSE IF detected = {} THEN IF config.allowed # {} THEN "blocked" ELSE "allow"
        ELSE IF config.allowed # {} /\ ~Listed(config.allowed) THEN "blocked"
        ELSE IF Listed(config.blocked) THEN "blocked"
        ELSE IF \E d \in declared : ~mime_matches(d, The(detected)) /\ d[1] # The(detected)[1]
        THEN "mismatch" ELSE "allow"

(***************************************************************************)
(* Redirects.  A location is [scheme, host, port, path]; port "" is the    *)
(* default one.  path is a sequence; AcmePath is the challenge prefix.     *)
(***************************************************************************)
AcmePath == <<".well-known", "acme-challenge">>

\* *.old.com matches a host that has more labels and ends with old.com.
match_domain(host, domain) ==
    IF domain.wild THEN Len(host) > Len(domain.labels) /\ IsSuffix(domain.labels, host)
    ELSE host = domain.labels

\* Mutant: a host that is the target already is sent there again.
RedirectsTarget(at, config) ==
    IF /\ config.enabled
       /\ config.sources = {} \/ \E d \in config.sources : match_domain(at.host, d)
    THEN {[at EXCEPT !.host = config.target, !.port = ""]} ELSE {}

check_domain_redirect(at, config) ==
    IF /\ config.enabled /\ at.host # config.target
       /\ config.sources = {} \/ \E d \in config.sources : match_domain(at.host, d)
    THEN {[at EXCEPT !.host = config.target, !.port = ""]} ELSE {}

check_protocol_redirect(at, config) ==
    IF /\ config.enable /\ at.scheme # "https"
       /\ \A p \in config.exclude_paths \cup {AcmePath} : ~IsPrefix(p, at.path)
    THEN {[at EXCEPT !.scheme = "https", !.port = config.https_port]} ELSE {}

\* A rule is [enabled, methods, type, source, target]; a regular expression is
\* the set of paths it matches.
RuleMatches(rule, at, method) ==
    /\ rule.enabled /\ (rule.methods = {} \/ method \in rule.methods)
    /\ CASE rule.type = "exact"  -> at.path = rule.source
         [] rule.type = "prefix" -> IsPrefix(rule.source, at.path)
         [] rule.type = "regex"  -> at.path \in rule.source
         [] rule.type = "domain" -> match_domain(at.host, rule.source)

check_url_rules(at, method, rules) ==
    LET hits == {i \in DOMAIN rules : RuleMatches(rules[i], at, method)}
    IN  IF hits = {} THEN {} ELSE {rules[Min(hits)].target}

\* Domain, then protocol, then the URL rules: the tier and where it leads.
check_redirect(at, method, site) ==
    LET domain   == check_domain_redirect(at, site.domain_redirect)
        protocol == check_protocol_redirect(at, site.force_https)
        url      == check_url_rules(at, method, site.url_rules)
    IN  IF domain # {} THEN {[source |-> "domain", to |-> The(domain)]}
        ELSE IF protocol # {} THEN {[source |-> "protocol", to |-> The(protocol)]}
        ELSE {[source |-> "url", to |-> to] : to \in url}

(***************************************************************************)
(* Signed URLs.  A path is a sequence of parts that starts with "/" when   *)
(* it has a leading slash.  The keyed hash of a payload is the pair of the *)
(* key and the payload, and the payload is one sequence: its pieces joined *)
(* with "-".                                                               *)
(***************************************************************************)
Join(pieces) ==
    FlattenSeq([k \in DOMAIN pieces |-> IF k = 1 THEN pieces[k] ELSE <<"-">> \o pieces[k]])

compute_hash(key, pieces) == <<key, Join(pieces)>>

NoSlash(path) == IF path # <<>> /\ path[1] = "/" THEN Tail(path) ELSE path

\* Types A and C differ in where the path has the hash.  Type B puts it in the
\* query, after the timestamp, rand and uid, with "-" between them: ids are
\* rand and uid as that separator cuts them.
sign_url(config, path, time, ids) ==
    [path |-> IF config.type = "B" THEN path ELSE NoSlash(path),
     time |-> time, ids |-> ids,
     hash |-> compute_hash(config.key, <<path, <<ToString(time)>>>> \o ids)]

Lifetime(config, url, now) == IF now > url.time + config.expire_time THEN "expired" ELSE "live"

\* The path a URL opens, or the empty set.
validate_url(config, url, now) ==
    LET path == IF config.type = "B" THEN url.path ELSE <<"/">> \o url.path
    IN  IF /\ IF config.type = "B" THEN Len(url.ids) = 2 ELSE url.path # <<>>
           /\ Lifetime(config, url, now) = "live"
           /\ url.hash = compute_hash(config.key, <<path, <<ToString(url.time)>>>> \o url.ids)
        THEN {path} ELSE {}
=============================================================================
