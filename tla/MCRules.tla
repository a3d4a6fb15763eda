------------------------------- MODULE MCRules -------------------------------
(***************************************************************************)
(* The pure decisions of a node over small inputs: a behaviour picks one    *)
(* input, and one step gives the code's answer to it.  The properties       *)
(* compare the answer with a definition that does not go through the code's *)
(* tables, orders and early returns.                                        *)
(***************************************************************************)
EXTENDS Integers, Sequences, FiniteSets, FiniteSetsExt, SequencesExt, TLC

VARIABLES input, answer

vars == <<input, answer>>

Vod    == INSTANCE VodPackaging
Cache  == INSTANCE CacheRules
Access == INSTANCE AccessRules
Image  == INSTANCE ImageRules

Opt(S) == {{}} \cup {{x} : x \in S}

(***************************************************************************)
(* An MP4 file, sample by sample.  A layout is a sequence of tracks         *)
(* [kind, timescale, deltas, sync, chunks]; the file holds the chunks of the tracks in *)
(* turn, and its bytes are <<track, sample, byte>>.                         *)
(***************************************************************************)
SizeAt(s) == 1 + (s % 2)

CtsAt(s) == s % 2

SumOf(seq) == FoldLeft(+, 0, seq)

Upto(seq, i) == SumOf(SubSeq(seq, 1, i))

Total(track) == SumOf(track.deltas)

SampleBytes(k, s) == [b \in 1 .. SizeAt(s) |-> <<k, s, b>>]

ChunkBytes(layout, k, c) ==
  FlattenSeq([i \in 1 .. layout[k].chunks[c] |->
                SampleBytes(k, Upto(layout[k].chunks, c - 1) + i - 1)])

ChunkOrder(layout) ==
  LET most == Max({Len(layout[k].chunks) : k \in DOMAIN layout})
      All  == [i \in 1 .. most * Len(layout) |-> <<((i - 1) % Len(layout)) + 1, ((i - 1) \div Len(layout)) + 1>>]
  IN  SelectSeq(All, LAMBDA e : e[2] <= Len(layout[e[1]].chunks))

FileOf(layout) ==
  <<<<0, 0, 0>>>> \o FlattenSeq([i \in DOMAIN ChunkOrder(layout) |->
      ChunkBytes(layout, ChunkOrder(layout)[i][1], ChunkOrder(layout)[i][2])])

\* Where a chunk starts: after the chunks that come before it.
PositionOf(layout, k, c) ==
  LET order == ChunkOrder(layout)
      mine  == Min({i \in DOMAIN order : order[i] = <<k, c>>})
  IN  1 + SumOf([i \in 1 .. mine - 1 |-> Len(ChunkBytes(layout, order[i][1], order[i][2]))])

\* The run-length tables of the file.
Runs(seq) ==
  LET starts == SetToSortSeq({i \in DOMAIN seq : i = 1 \/ seq[i] # seq[i - 1]}, <)
  IN  [r \in DOMAIN starts |->
         [value |-> seq[starts[r]], first |-> starts[r],
          count |-> (IF r = Len(starts) THEN Len(seq) + 1 ELSE starts[r + 1]) - starts[r]]]

TrackOf(layout, k) ==
  LET t    == layout[k]
      stts == Runs(t.deltas)
      ctts == Runs([i \in DOMAIN t.deltas |-> CtsAt(i - 1)])
      stsc == Runs(t.chunks)
  IN  [id |-> k, kind |-> t.kind, timescale |-> t.timescale,
       stts |-> [r \in DOMAIN stts |-> [count |-> stts[r].count, delta |-> stts[r].value]],
       ctts |-> [r \in DOMAIN ctts |-> [count |-> ctts[r].count, offset |-> ctts[r].value]],
       stsc |-> [r \in DOMAIN stsc |-> [first |-> stsc[r].first, per |-> stsc[r].value]],
       stsz |-> [i \in DOMAIN t.deltas |-> SizeAt(i - 1)],
       stco |-> [c \in DOMAIN t.chunks |-> PositionOf(layout, k, c)],
       allSync |-> t.sync = DOMAIN t.deltas, stss |-> t.sync, duration |-> Total(t)]

\* mvhd is <<timescale, duration>>; flaw is the state of the second track's mdia box.
Mp4Of(layout, mvhd, flaw) ==
  [header |-> TRUE, timescale |-> mvhd[1], duration |-> mvhd[2], file |-> FileOf(layout),
   traks |-> [k \in DOMAIN layout |->
                [track |-> TrackOf(layout, k),
                 box |-> [b \in Range(Vod!BoxOrder) |->
                            IF b = "stss" /\ layout[k].sync = DOMAIN layout[k].deltas THEN "missing"
                            ELSE IF b = "mdia" /\ k = 2 THEN flaw ELSE "ok"]]]]

Video(scale, syncs, chunkings) ==
  {[kind |-> "video", timescale |-> scale, deltas |-> d, sync |-> {1} \cup s, chunks |-> c] :
      d \in {x \in [1 .. 4 -> {1, 2}] : x[1] = 1 \/ x[2] = 1}, s \in syncs, c \in chunkings}

Audio(scale, n) ==
  [kind |-> "audio", timescale |-> scale, deltas |-> [i \in 1 .. n |-> 1], sync |-> 1 .. n,
   chunks |-> IF n > 3 THEN <<2, n - 2>> ELSE <<n>>]

File(layout, mvhd, flaw, segment, part) ==
  [tag |-> "vod", layout |-> layout, mvhd |-> mvhd, flaw |-> flaw, segment |-> segment, part |-> part]

\* Segments of 1 to 2.5 seconds, parts of 0.5 to 1.5.  Tracks are as long as each
\* other or not and have timescales of their own; the movie is as long as its
\* tracks, longer, or shorter.
VodInputs ==
  {File(<<v, Audio(1, Total(v))>>, <<1, Total(v)>>, "ok", d, p) :
     v \in Video(1, SUBSET {2, 3, 4}, {<<1, 2, 1>>}), d \in {4, 5}, p \in {1, 3}}
  \cup
  {File(<<v, Audio(a, 7)>>, mvhd, "ok", 3, 2) :
     v \in Video(2, {{2, 3, 4}, {3}}, {<<4>>, <<1, 1, 2>>}), a \in {1, 3},
     mvhd \in {<<1, 2>>, <<2, 5>>, <<3, 21>>}}
  \cup
  {File(<<v, Audio(1, n)>>, <<1, Max({n, Total(v)})>>, "ok", 4, 2) :
     v \in Video(1, {{2, 3, 4}, {3}}, {<<2, 2>>}), n \in {3, 7}}
  \cup
  {File(<<v, Audio(1, 4)>>, <<1, Total(v)>>, f, 3, 2) :
     v \in Video(1, {{4}}, {<<4>>}), f \in {"missing", "bad"}}
  \cup
  {File(<<Audio(s, n)>>, <<1, n>>, "ok", d, 3) : s \in {1, 2}, n \in {1, 5}, d \in {2, 5}}

\* What a player may ask for: everything the counts allow, and one past it.
VodAnswer(i) ==
  LET mp4 == Mp4Of(i.layout, i.mvhd, i.flaw)
      Ask(request) == Vod!process_packaging_request(mp4, request, i.segment, i.part)
      last == Vod!compute_segment_count(mp4, i.segment)
  IN  [init |-> Ask([type |-> "init"]),
       manifest |-> Ask([type |-> "manifest"]),
       ll |-> Ask([type |-> "ll_manifest"]),
       segments |-> [n \in 0 .. last |-> Ask([type |-> "segment", index |-> n])],
       parts |-> [n \in 0 .. last |-> [p \in 0 .. 4 |->
                    Ask([type |-> "part", index |-> n, part |-> p])]]]

\* A live segment of two tracks: the samples are [data, duration, sync, cts].
LiveInputs ==
  LET Samples(k, n) == [s \in 1 .. n |->
        [data |-> SampleBytes(k, s - 1), duration |-> s, sync |-> s = 1, cts |-> CtsAt(s - 1)]]
  IN  {[tag |-> "live", tracks |-> <<[id |-> 1, base_dts |-> 10, samples |-> Samples(1, n)],
                                     [id |-> 2, base_dts |-> 20, samples |-> Samples(2, m)]>>] :
         n \in 0 .. 3, m \in 0 .. 3}

LiveAnswer(i) == Vod!generate_live_media_segment(1, i.tracks)

(***************************************************************************)
(* Caching and ranges.                                                      *)
(***************************************************************************)
RangeInputs ==
  {[tag |-> "range", header |-> [form |-> f, first |-> a, last |-> b], body |-> [i \in 1 .. n |-> i],
    known |-> known] : known \in BOOLEAN, f \in {"single", "open", "suffix", "multi", "bad"}, a \in 0 .. 4, b \in 0 .. 4, n \in 0 .. 3}

PathRules ==
  {<<>>,
   <<[type |-> "path", match |-> <<"a">>, ttl |-> 1, unit |-> "minutes"],
     [type |-> "path", match |-> <<"a", "b">>, ttl |-> 5, unit |-> "seconds"]>>,
   <<[type |-> "extension", match |-> {"js"}, ttl |-> 0, unit |-> "hours"],
     [type |-> "path", match |-> <<"a", "b">>, ttl |-> 8, unit |-> "seconds"],
     [type |-> "extension", match |-> {"js", "css"}, ttl |-> 9, unit |-> "seconds"],
     [type |-> "regex", match |-> "r", ttl |-> 7, unit |-> "seconds"]>>}

Paths == {[text |-> <<"a", "b", "c">>, ext |-> "js", matches |-> {}],
          [text |-> <<"a", "c">>, ext |-> "js", matches |-> {"r"}],
          [text |-> <<"c">>, ext |-> "css", matches |-> {"r"}],
          [text |-> <<"c">>, ext |-> "", matches |-> {"r"}]}

Fresh(q, a, path, rules, c, s, m, e) ==
  [tag |-> "fresh",
   request |-> [method |-> q[1], path |-> path, cache_control |-> q[2], authorization |-> q[3]],
   response |-> [status |-> a[1], set_cookie |-> a[2], vary |-> a[3], content_length |-> a[4],
                 expires |-> e, cache_control |-> [flags |-> a[5], s_maxage |-> s, max_age |-> m]],
   config |-> [enabled |-> c[1], rules |-> rules, default_ttl |-> 6, cache_authorized |-> c[2],
               cache_cookies |-> c[3], max_size |-> 10]]

Asked == {<<"GET", {}, FALSE>>, <<"POST", {}, FALSE>>, <<"GET", {"no-cache"}, FALSE>>, <<"HEAD", {}, TRUE>>}

Sent == {<<200, FALSE, "Accept", {10}, {}>>, <<206, TRUE, "", {}, {}>>, <<200, FALSE, "*", {}, {}>>,
         <<200, FALSE, "", {11}, {}>>, <<404, FALSE, "", {}, {"no-store"}>>, <<503, FALSE, "", {}, {}>>}

\* Lifetimes of the origin on both sides of the configured ones (5 to 9 and 60),
\* and every setting of the site's switches.
FreshInputs ==
  {Fresh(q, a, path, rules, <<TRUE, FALSE, FALSE>>, s, m, e) :
     q \in Asked, a \in Sent, path \in Paths, rules \in PathRules,
     s \in Opt({0, 4, 20}), m \in Opt({3, 20}), e \in Opt({-1, 20})}
  \cup
  {Fresh(q, a, path, <<>>, c, {}, m, {}) :
     q \in Asked, a \in Sent, path \in Paths, c \in BOOLEAN \X BOOLEAN \X BOOLEAN, m \in Opt({3, 20})}

FreshAnswer(i) == Cache!StoredTtl(i.request, i.response, i.config)

(***************************************************************************)
(* Sites, the WAF, uploads, redirects and signed URLs.                      *)
(***************************************************************************)
Exact(labels) == [wild |-> FALSE, labels |-> labels]
Wild(labels)  == [wild |-> TRUE, labels |-> labels]

SiteInputs ==
  {[tag |-> "site", host |-> host,
    sites |-> [s1 |-> [enabled |-> e1, domains |-> d1], s2 |-> [enabled |-> TRUE, domains |-> d2]]] :
     host \in {<<"b">>, <<"a", "b">>, <<"c", "b">>, <<"c", "a", "b">>},
     e1 \in BOOLEAN,
     d1 \in {{Exact(<<"a", "b">>)}, {Wild(<<"b">>)}, {Wild(<<"a", "b">>), Exact(<<"b">>)}},
     d2 \in {{}, {Wild(<<"b">>)}, {Exact(<<"a", "b">>)}}}

WafInputs ==
  {[tag |-> "waf", ip |-> <<1, 0>>, databases |-> db,
    facts |-> [known |-> k, country |-> {"X"}, continent |-> {"E"}, region |-> {"r"}, asn |-> n],
    waf |-> [enabled |-> on, mode |-> "block",
             rules |-> [ip_whitelist |-> w, ip_blacklist |-> b, asn_blacklist |-> g[1],
                        country_whitelist |-> g[2], country_blacklist |-> g[3],
                        continent_blacklist |-> g[4], region_blacklist |-> g[5]]]] :
     on \in BOOLEAN, db \in SUBSET {"city", "country", "asn"}, k \in SUBSET {"city", "country"},
     n \in Opt({7}), w \in {{}, {<<1, 0>>}}, b \in {{}, {<<1>>}},
     g \in {<<{}, {}, {}, {}, {}>>, <<{7}, {}, {}, {}, {}>>, <<{}, {"Y"}, {}, {}, {}>>,
            <<{}, {"X"}, {}, {"E"}, {}>>, <<{}, {}, {"X"}, {}, {}>>, <<{7}, {"X"}, {}, {}, {<<"X", "r">>}>>}}

UploadInputs ==
  {[tag |-> "upload", length |-> len, method |-> m, detected |-> d, declared |-> c,
    config |-> [enabled |-> on, inspect_methods |-> {"POST"}, max_body_size |-> max,
                allowed |-> a, blocked |-> b]] :
     on \in BOOLEAN, len \in Opt({4, 5}), max \in {0, 4}, m \in {"POST", "GET"},
     d \in Opt({<<"image", "png">>, <<"text", "html">>}), c \in Opt({<<"image", "gif">>}),
     a \in {{}, {<<"image", "*">>}}, b \in {{}, {<<"text", "html">>}, {<<"image", "png">>}}}

\* request_filter: the WAF on the address, then the length and the first bytes.
WafAnswer(i) == Access!check_with_sets(i.waf, i.ip, Access!lookup(i.databases, i.facts))

UploadAnswer(i) ==
  <<Access!check_content_length(i.length, i.method, i.config),
    Access!check_magic_bytes(i.detected, i.declared, i.config)>>

RedirectInputs ==
  {[tag |-> "redirect",
    at |-> [scheme |-> s, host |-> h, port |-> p, path |-> path],
    site |-> [domain_redirect |-> [enabled |-> on, target |-> <<"w", "b">>, sources |-> from],
              force_https |-> [enable |-> https, https_port |-> port, exclude_paths |-> x],
              url_rules |-> <<[enabled |-> TRUE, methods |-> {"GET"}, type |-> "prefix",
                               source |-> <<"old">>, target |-> [scheme |-> "https",
                               host |-> <<"w", "b">>, port |-> "", path |-> <<"new">>]]>>]] :
     s \in {"http", "https"}, h \in {<<"b">>, <<"w", "b">>, <<"v", "w", "b">>}, p \in {"", "8080"},
     path \in {<<"old", "p">>, Access!AcmePath \o <<"t">>, <<>>},
     on \in BOOLEAN, from \in {{}, {Exact(<<"b">>)}, {Wild(<<"b">>)}},
     https \in BOOLEAN, port \in {"", "8443"}, x \in {{}, {<<"old">>}}}

\* Up to three redirects in a row, as a client follows them.
RedirectAnswer(i) ==
  LET Follow(hops) ==
        LET at == IF hops = <<>> THEN i.at ELSE Last(hops).to
            to == Access!check_redirect(at, "GET", i.site)
        IN  IF to = {} THEN hops ELSE Append(hops, Access!The(to))
  IN  Follow(Follow(Follow(<<>>)))

SignedInputs ==
  {[tag |-> "signed", config |-> [type |-> t, key |-> "k", expire_time |-> e],
    path |-> path, time |-> 3, ids |-> IF t = "B" THEN ids ELSE <<>>, now |-> now, sent |-> sent] :
     t \in {"A", "B", "C"}, sent \in {"signed", "path", "time"}, e \in {0, 2}, now \in 2 .. 6,
     path \in {<<"/", "v">>, <<"/", "v", "-", "3">>, <<"/", "v", "/", "w">>},
     ids \in {<<<<"r">>, <<"u">>>>, <<<<"0">>, <<"0">>>>, <<<<"r">>, <<"s">>, <<"u">>>>}}

\* The URL comes back as it was signed, or with another path or timestamp.
SignedAnswer(i) ==
  LET url  == Access!sign_url(i.config, i.path, i.time, i.ids)
      back == CASE i.sent = "signed" -> url
                [] i.sent = "path"   -> [url EXCEPT !.path = Append(@, "w")]
                [] i.sent = "time"   -> [url EXCEPT !.time = @ + 1]
  IN  Access!validate_url(i.config, back, i.now)

(***************************************************************************)
(* Images.                                                                  *)
(***************************************************************************)
ImageInputs ==
  {[tag |-> "image", size |-> size,
    query |-> [w |-> w, h |-> h, dpr |-> dpr, fit |-> <<fit>>, fmt |-> fmt, q |-> <<>>],
    config |-> [max_width |-> 6, max_height |-> 5, default_quality |-> 80, formats |-> <<"avif", "webp">>],
    accept |-> accept] :
     size \in {<<2, 3>>, <<8, 4>>},
     w \in {<<>>, <<4>>, <<2, 9>>}, h \in {<<>>, <<3>>, <<7, 0>>}, dpr \in {<<>>, <<6>>, <<40>>},
     fit \in {"contain", "cover", "fill", "inside", "outside"},
     fmt \in {<<>>, <<"png", "auto">>, <<"auto", "unknown">>},
     accept \in {<<>>, <<[token |-> "avif", quality |-> 0], [token |-> "image/*", quality |-> 1]>>,
                 <<[token |-> "webp", quality |-> 1]>>}}

\* request_filter reads and clamps the parameters; the body filter resizes.
ImageAnswer(i) ==
  LET params == Image!clamp(Image!The(Image!from_query(i.query, i.config)), i.config)
  IN  [params |-> params,
       format |-> Image!negotiate_format(i.accept, params.format, i.config, {"jpeg"}),
       size |-> Image!process_image(i.size[1], i.size[2], params)]

-----------------------------------------------------------------------------

Init ==
  /\ \/ input \in VodInputs
     \/ input \in LiveInputs
     \/ input \in RangeInputs
     \/ input \in FreshInputs
     \/ input \in SiteInputs
     \/ input \in WafInputs
     \/ input \in UploadInputs
     \/ input \in RedirectInputs
     \/ input \in SignedInputs
     \/ input \in ImageInputs
  /\ answer = <<>>

Answer(tag, Of(_)) ==
  /\ input.tag = tag /\ answer = <<>>
  /\ answer' = <<Of(input)>>
  /\ UNCHANGED input

Next ==
  \/ Answer("vod", VodAnswer)
  \/ Answer("live", LiveAnswer)
  \/ Answer("range", LAMBDA i : Cache!RangeBody(i.header, i.body, i.known))
  \/ Answer("fresh", FreshAnswer)
  \/ Answer("site", LAMBDA i : Access!match_site(i.sites, i.host))
  \/ Answer("waf", WafAnswer)
  \/ Answer("upload", UploadAnswer)
  \/ Answer("redirect", RedirectAnswer)
  \/ Answer("signed", SignedAnswer)
  \/ Answer("image", ImageAnswer)

Spec == Init /\ [][Next]_vars

Answered(tag) == input.tag = tag /\ answer # <<>>

-----------------------------------------------------------------------------

(***************************************************************************)
(* Reading a fragment back: the samples a traf describes, with the bytes    *)
(* its data_offset and sizes lead to.                                       *)
(***************************************************************************)
ReadBack(fragment, k) ==
  LET traf  == fragment.trafs[k]
      sizes == [i \in DOMAIN traf.entries |-> traf.entries[i].size]
      start == traf.data_offset - (fragment.moof + 8)
  IN  [i \in DOMAIN traf.entries |->
         [data |-> SubSeq(fragment.mdat, start + Upto(sizes, i - 1) + 1, start + Upto(sizes, i)),
          duration |-> traf.entries[i].duration, sync |-> traf.entries[i].sync,
          cts |-> traf.entries[i].cts]]

\* The samples of a track from one to another, as the file has them.
Original(layout, k, from, n) ==
  [i \in 1 .. n |-> [data |-> SampleBytes(k, from + i - 1), duration |-> layout[k].deltas[from + i],
                     sync |-> from + i \in layout[k].sync, cts |-> CtsAt(from + i - 1)]]

\* A fragment holds a run of original samples of each track at their times.
Faithful(layout, fragment) ==
  \A k \in DOMAIN fragment.trafs :
     LET read == ReadBack(fragment, k)
         id   == fragment.trafs[k].id
         from == read[1].data[1][2]
     IN  read # <<>> => /\ read = Original(layout, id, from, Len(read))
                        /\ fragment.trafs[k].dts = Upto(layout[id].deltas, from)

\* The samples of a track in a fragment.
Samples(fragment, k) == {b[2] : b \in {x \in Range(fragment.mdat) : x[1] = k}}

LeadingOf(layout) == IF \E k \in DOMAIN layout : layout[k].kind = "video"
                     THEN Min({k \in DOMAIN layout : layout[k].kind = "video"}) ELSE 1

Given == answer[1]

SegmentsGiven == {n \in DOMAIN Given.segments : Given.segments[n] # <<>>}

Listed == {Given.manifest[1].segments[j].index : j \in DOMAIN Given.manifest[1].segments}

\* Every segment starts within a sync sample of the leading track.
Aligned ==
  LET t == input.layout[LeadingOf(input.layout)]
  IN  \A n \in SegmentsGiven : \E i \in t.sync :
        LET at == Vod!Tick(t, n * input.segment)
        IN  Upto(t.deltas, i - 1) <= at /\ at < Upto(t.deltas, i)

\* The samples of a track that start before the movie ends.
InMovie(track) ==
  {s \in 0 .. Len(track.deltas) - 1 :
     Upto(track.deltas, s) * input.mvhd[1] < input.mvhd[2] * track.timescale}


\* A playlist is given exactly when its segments can be; every segment and part
\* it lists is answered; the parts of a segment hold the leading track's samples
\* of that segment, each once and in order, with the duration and the
\* independence the playlist says; the listed durations add up to those of the
\* leading track's samples in the segments, and each is that of its own samples
\* where segments start at keyframes (hls_manifest.rs compute_segment_durations
\* and compute_segment_parts repeat the cuts of fmp4_gen.rs; packaging/mod.rs).
PlaylistServable ==
  Answered("vod") =>
     /\ (Given.manifest = <<>>) = (SegmentsGiven = {}) /\ (Given.ll = <<>>) = (Given.manifest = <<>>)
     /\ Given.ll # <<>> =>
          LET list == Given.ll[1].segments
              lead == LeadingOf(input.layout)
              t    == input.layout[lead]
              Of(fragment) == ReadBack(fragment, lead)
          IN  /\ Listed = {list[j].index : j \in DOMAIN list} /\ Listed \subseteq SegmentsGiven
              /\ SumOf([j \in DOMAIN list |-> list[j].duration]) =
                   MapThenSumSet(LAMBDA s : t.deltas[s + 1],
                                 UNION {Samples(Given.segments[n][1], lead) : n \in SegmentsGiven})
              /\ \A j \in DOMAIN list :
                   LET parts == list[j].parts
                       n     == list[j].index
                       Part(p) == Given.parts[n][parts[p].part]
                   IN  /\ Aligned => list[j].duration =
                            SumOf([i \in DOMAIN Of(Given.segments[n][1]) |-> Of(Given.segments[n][1])[i].duration])
                       /\ \A p \in DOMAIN parts : Part(p) # <<>>
                       /\ FlattenSeq([p \in DOMAIN parts |-> Of(Part(p)[1])]) = Of(Given.segments[n][1])
                       /\ \A p \in DOMAIN parts :
                            LET read == Of(Part(p)[1])
                            IN  /\ parts[p].duration = SumOf([i \in DOMAIN read |-> read[i].duration])
                                /\ parts[p].independent = read[1].sync

\* A segment the playlist leaves out has nothing a player would miss: each of
\* its samples is in a listed segment.  hls_manifest.rs:67 calls the segments
\* it leaves out empty.
SkippedAreEmpty ==
  (Answered("vod") /\ Given.manifest # <<>>) =>
     \A n \in SegmentsGiven \ Listed : \A k \in DOMAIN input.layout :
        Samples(Given.segments[n][1], k)
          \subseteq UNION {Samples(Given.segments[m][1], k) : m \in Listed}

\* The bytes of a body a Range header asks for.
Wanted(header, n) ==
  {i \in 0 .. n - 1 : CASE header.form = "single" -> header.first <= i /\ i <= header.last
                        [] header.form = "open"   -> header.first <= i
                        [] header.form = "suffix" -> n - i <= header.first
                        [] OTHER -> FALSE}

\* A range request answered from an origin's whole body of a known length gets
\* exactly the bytes its header asks for, in order, at every boundary of the body;
\* the whole body goes out when the header is not usable, asks for none of its
\* bytes, or the origin gave no Content-Length, which docs/site/range.json:29 does
\* not say (range.rs parse_range_header, resolve_range, slice_body;
\* proxy.rs:1155-1166, 1468-1505).
RangeExact ==
  Answered("range") =>
     LET n      == Len(input.body)
         wanted == IF input.known THEN Wanted(input.header, n) ELSE {}
     IN  Given = SelectSeq(input.body, LAMBDA byte : byte - 1 \in wanted \/ wanted = {})

\* One rule of a site goes before another: by path before by extension before by
\* regular expression, the longer prefix, the earlier rule.
Beats(rules, i, j) ==
  LET class == [path |-> 1, extension |-> 2, regex |-> 3]
      c     == class[rules[i].type] - class[rules[j].type]
      l     == Len(rules[i].match) - Len(rules[j].match)
  IN  c < 0 \/ (c = 0 /\ IF rules[i].type = "path" /\ l # 0 THEN l > 0 ELSE i < j)

\* A response is stored exactly if neither the request, the site nor the origin
\* forbids it, and then for the smaller of the lifetime of the rule that goes
\* before all that match and the origin's own lifetime for shared caches
\* (strategy.rs check_request_cacheability, check_response_cacheability,
\* adjust_ttl; proxy.rs:1069-1110).
FreshnessBounded ==
  Answered("fresh") =>
     LET q      == input.request
         r      == input.response
         origin == r.cache_control
         rules  == input.config.rules
         hits   == {i \in DOMAIN rules :
                      CASE rules[i].type = "path"      -> IsPrefix(rules[i].match, q.path.text)
                        [] rules[i].type = "extension" -> q.path.ext \in rules[i].match
                        [] rules[i].type = "regex"     -> rules[i].match \in q.path.matches}
         rule   == CHOOSE i \in hits : \A j \in hits \ {i} : Beats(rules, i, j)
         ttl    == IF hits = {} THEN input.config.default_ttl ELSE Cache!rule_ttl_seconds(rules[rule])
         own    == IF origin.s_maxage # {} THEN origin.s_maxage
                   ELSE IF origin.max_age # {} THEN origin.max_age ELSE r.expires
         forbidden == \/ ~input.config.enabled \/ q.method = "POST" \/ q.cache_control # {} \/ ttl = 0
                      \/ q.authorization /\ ~input.config.cache_authorized
                      \/ r.set_cookie /\ ~input.config.cache_cookies
                      \/ r.status = 503 \/ r.vary = "*" \/ origin.flags # {}
                      \/ \E len \in r.content_length : len > input.config.max_size
     IN  Given = IF forbidden THEN {} ELSE {Min({ttl} \cup {Max({0, t}) : t \in own})}

\* The site, the WAF, the upload and the URL checks decide as their rules say taken
\* together, whatever the order of the checks: a host goes to an enabled site
\* that names it, and to a wildcard only if none does; an address is let
\* through exactly if it is listed as good or no rule applies to what is known
\* of it, an unknown country being outside every whitelist; an upload is let
\* through exactly if its size and detected type are allowed; and a URL signed
\* for a path opens that path until its lifetime ends, in scheme B if rand and uid
\* are free of "-", and opens nothing after that or with another path or timestamp
\* (live_config.rs match_site; waf/mod.rs check_with_sets; waf/body.rs;
\* auth/type_a.rs, type_b.rs, type_c.rs).  Left out is an address that the City
\* database is loaded for and does not know and the Country database knows:
\* geo.rs:110 calls the latter a fallback for it, and the code does not ask it.
AccessDecided ==
  /\ Answered("site") =>
       LET Names(s, d) == input.sites[s].enabled /\ d \in input.sites[s].domains
           named == {s \in DOMAIN input.sites : Names(s, Exact(input.host))}
           under == {s \in DOMAIN input.sites : \E l \in {<<"b">>, <<"a", "b">>} :
                       Names(s, Wild(l)) /\ Len(input.host) = Len(l) + 1 /\ IsSuffix(l, input.host)}
       IN  Given = IF named # {} THEN named ELSE under
  /\ Answered("waf") =>
       LET rules == input.waf.rules
           f     == input.facts
           db    == input.databases
           city  == "city" \in db \cap f.known
           here  == city \/ "country" \in db \cap f.known
           apart == "city" \in db \ f.known /\ "country" \in db \cap f.known
           Bad   == \/ <<1>> \in rules.ip_blacklist
                    \/ "asn" \in db /\ f.asn \cap rules.asn_blacklist # {}
                    \/ rules.country_whitelist # {} /\ ~(here /\ "X" \in rules.country_whitelist)
                    \/ here /\ ("X" \in rules.country_blacklist \/ "E" \in rules.continent_blacklist)
                    \/ city /\ <<"X", "r">> \in rules.region_blacklist
       IN  apart \/ (Given.verdict = "allow") = (~input.waf.enabled \/ rules.ip_whitelist # {} \/ ~Bad)
  /\ Answered("upload") =>
       LET c == input.config
           In(list) == \E d \in input.detected : <<d[1], "*">> \in list \/ d \in list
       IN  /\ (Given[1] = "allow") = \/ ~c.enabled \/ input.method = "GET" \/ c.max_body_size = 0
                                     \/ \A len \in input.length : len <= c.max_body_size
           /\ (Given[2] = "allow") = \/ ~c.enabled \/ c.allowed \cup c.blocked = {}
                                     \/ /\ c.allowed # {} => In(c.allowed)
                                        /\ ~In(c.blocked)
                                        /\ \A d \in input.detected, e \in input.declared : d[1] = e[1]
  /\ Answered("signed") =>
       Given = IF /\ input.sent = "signed" /\ input.now <= input.time + input.config.expire_time
                  /\ input.config.type = "B" => Len(input.ids) = 2
               THEN {input.path} ELSE {}

\* Whatever host, port and scheme a client starts from, the redirects to the
\* main domain and to https take it there in at most two steps and leave it
\* there: neither undoes the other and neither repeats.  Its path is kept, and a
\* certificate challenge is never sent to https (redirect/domain.rs,
\* protocol.rs, mod.rs).
RedirectsEnd ==
  Answered("redirect") =>
     LET own == SelectSeq(Given, LAMBDA hop : hop.source # "url")
     IN  /\ Len(own) <= 2 /\ (Len(own) = 2 => own[1].source # own[2].source)
         /\ \A i \in DOMAIN own : own[i] = Given[i] /\ own[i].to.path = input.at.path
         /\ IsPrefix(Access!AcmePath, input.at.path) =>
              \A i \in DOMAIN own : own[i].source # "protocol"

\* The box a request asks for, times the pixel ratio, is within the limits of the
\* site.  With both dimensions given, contain and inside fit the box and touch it
\* unless inside would enlarge, and cover and fill give the box exactly; inside and
\* outside never enlarge; the format is one the client accepts or the original
\* (params.rs clamp, processor.rs calculate_dimensions and resize_image,
\* negotiate.rs).  The result itself may be larger than the limits where nothing
\* clamps it, though docs/site/image_optimization.json:24-28 speak of the output: a
\* dimension that was not given follows the other one, and outside may keep the
\* original (processor.rs:144-168).
ImageFits ==
  Answered("image") =>
     LET p   == Given.params
         box == <<Image!effective_width(p), Image!effective_height(p)>>
         w   == Given.size[1]
         h   == Given.size[2]
         accepted == {input.accept[i].token : i \in {j \in DOMAIN input.accept : input.accept[j].quality > 0}}
     IN  /\ \A x \in box[1] : x <= input.config.max_width
         /\ \A y \in box[2] : y <= input.config.max_height
         /\ p.fit \in {"inside", "outside"} => w <= input.size[1] /\ h <= input.size[2]
         /\ \A x \in box[1], y \in box[2] : (x > 0 /\ y > 0) =>
              /\ p.fit \in {"contain", "inside"} =>
                   w <= x /\ h <= y /\ (w = x \/ h = y \/ (p.fit = "inside" /\ <<w, h>> = input.size))
              /\ p.fit \in {"cover", "fill"} => w = x /\ h = y
         /\ Given.format.auto = (p.format = {} /\ accepted \cap {"avif", "webp", "image/*"} # {})
         /\ Given.format.auto => Given.format.format \in accepted \/ "image/*" \in accepted
=============================================================================
