--------------------------- MODULE RequestPipeline ---------------------------
(***************************************************************************)
(* The callbacks of CdnProxy (cdn-proxy/src/proxy.rs) that carry a request   *)
(* through the proxy: request_filter, request_body_filter, upstream_peer,    *)
(* upstream_request_filter, response_filter, response_body_filter and        *)
(* logging.  Requests for one URL follow one another and meet in the cache;  *)
(* what concurrent requests share is modelled in Coalescing, CacheStore,     *)
(* OriginPool and WafSets.  Verdicts of the filters and the site's switches  *)
(* are chosen where the code reads them: AccessRules, CacheRules, ImageRules *)
(* and VodPackaging say how they are computed.  Bodies are counted in chunks *)
(* and told apart by what was done to them.                                  *)
(***************************************************************************)
EXTENDS Naturals, FiniteSets

CONSTANTS
  MaxChunks,    \* chunks of an origin's body
  MaxSize,      \* cache.max_size, in chunks
  MaxBody,      \* waf.body_inspection.max_body_size, in chunks
  Retries,      \* load_balancer.retries
  MaxStale      \* bound: background revalidations at a time

ASSUME BoundsAssumption ==
  /\ MaxChunks \in Nat /\ MaxSize \in Nat /\ MaxBody \in Nat
  /\ Retries \in Nat /\ MaxStale \in Nat

VARIABLES
  ctx,      \* ProxyCtx of the request in progress
  resp,     \* what the origin answers
  header,   \* the response header written to the client
  sent,     \* chunks written to the client, by form
  cache,    \* the object stored under the URL's key
  stale     \* background revalidations that have not ended

vars == <<ctx, resp, header, sent, cache, stale>>

Forms == {"page", "stored", "raw", "slice", "packaged", "image", "encoded"}
Types == {"text", "image", "mp4", "manifest"}

NoObject == [status |-> 0, chunks |-> 0, of |-> 0, forms |-> {}, checked |-> FALSE]
NoResp == [status |-> 0, chunks |-> 0, left |-> 0]
NoHeader == [status |-> 0, ctype |-> "none", encoding |-> FALSE, length |-> FALSE]
Nothing == [f \in Forms |-> 0]

\* ranged: the client sent a Range header; buffered: chunks held back by the
\* slicing, packaging or image path; bad: a transformation failed and the
\* original was passed on; ended: response_body_filter has seen end_of_stream.
NewCtx ==
  [stage |-> "public", protocol |-> "Http", cache_status |-> "None",
   cache_key |-> FALSE, ranged |-> FALSE, range_request |-> FALSE,
   range_passthrough |-> FALSE, range_served_from_cache |-> FALSE,
   image_params |-> FALSE, packaging_request |-> "none",
   inspected |-> FALSE, received |-> 0, body_rejected |-> FALSE,
   selected_origin |-> FALSE, balancer_tried |-> 0,
   accumulating |-> FALSE, response_body |-> 0, total_content_length |-> FALSE,
   packaging_buffering |-> FALSE, image_buffering |-> FALSE,
   prefetch_buffering |-> FALSE, compressor |-> FALSE, buffered |-> 0,
   bad |-> FALSE, ended |-> FALSE]

Init ==
  /\ ctx = NewCtx /\ resp = NoResp /\ header = NoHeader /\ sent = Nothing
  /\ cache = NoObject /\ stale = 0

At(s) == ctx.stage = s
Goto(s) == ctx' = [ctx EXCEPT !.stage = s]

\* Every serve_* helper writes a complete response and request_filter returns true;
\* the lengths of these pages are not told apart.
Answer(status, form) ==
  /\ header' = [status |-> status, ctype |-> "page", encoding |-> FALSE, length |-> TRUE]
  /\ sent' = [Nothing EXCEPT ![form] = 1]

AnswerPage(status) ==
  Answer(status, "page") /\ Goto("log") /\ UNCHANGED <<resp, cache, stale>>

Pass(next) == Goto(next) /\ UNCHANGED <<resp, header, sent, cache, stale>>

-----------------------------------------------------------------------------
(* request_filter *)

\* /health, the ACME challenge, /_admin/, /live/ and the internal endpoints are
\* answered before routing; a /live/ path that names no stream falls through.
PublicEndpoint ==
  /\ At("public")
  /\ \/ \E s \in {200, 401, 403, 404} : AnswerPage(s)
     \/ Pass("route")

\* match_site on the authority or the Host header.
Route ==
  /\ At("route")
  /\ AnswerPage(404) \/ Pass("early")

\* TLS 1.3 early data: only GET, HEAD, OPTIONS and TRACE go on.
EarlyData ==
  /\ At("early")
  /\ \E early, idempotent \in BOOLEAN :
       IF early /\ ~idempotent THEN AnswerPage(425) ELSE Pass("waf")

Waf ==
  /\ At("waf")
  /\ AnswerPage(403) \/ Pass("inspect")

\* check_content_length, then the inspection of the body is switched on.
ContentLength ==
  /\ At("inspect")
  /\ \/ Answer(413, "page") /\ ctx' = [ctx EXCEPT !.body_rejected = TRUE, !.stage = "log"]
     \/ /\ \E on \in BOOLEAN : ctx' = [ctx EXCEPT !.inspected = on, !.stage = "cc"]
        /\ UNCHANGED <<header, sent>>
  /\ UNCHANGED <<resp, cache, stale>>

\* Block and Delay answer 429, Challenge 503; Log and Allow go on.
CcCheck ==
  /\ At("cc")
  /\ AnswerPage(429) \/ AnswerPage(503) \/ Pass("auth")

\* validate_url, when the site signs its URLs.
EdgeAuth ==
  /\ At("auth")
  /\ AnswerPage(403) \/ Pass("redirect")

Redirect ==
  /\ At("redirect")
  /\ AnswerPage(301) \/ Pass("protocol")

\* detect_protocol; a WebSocket that does not validate is a 400, a gRPC service
\* outside the whitelist a 403.  The other protocols only set the cache status.
Protocol ==
  /\ At("protocol")
  /\ \/ \E s \in {400, 403} : AnswerPage(s)
     \/ /\ \E p \in {"Http", "Stream"} :
             ctx' = [ctx EXCEPT !.protocol = p, !.stage = "lookup",
                       !.cache_status = IF p = "Http" THEN "None" ELSE "Bypass"]
        /\ UNCHANGED <<resp, header, sent, cache, stale>>

\* serve_cached_response: the stored status, headers and body, with the length
\* of the stored body.
Stored(st) ==
  /\ header' = [status |-> cache.status, ctype |-> "stored", encoding |-> FALSE, length |-> TRUE]
  /\ sent' = [Nothing EXCEPT !["stored"] = cache.chunks]
  /\ ctx' = [ctx EXCEPT !.cache_status = st, !.cache_key = TRUE, !.stage = "log"]

\* An enabled origin that is not a backup exists.
trigger_background_revalidation == stale < MaxStale /\ stale' = stale + 1

\* check_request_cacheability, get_with_stale.  A stored object may be found
\* fresh, found stale, or not found.  The methods whose bodies are inspected are
\* neither GET nor HEAD.
Lookup ==
  /\ At("lookup")
  /\ \/ Pass("range")
     \/ ~ctx.inspected /\ Pass("miss")
     \/ ~ctx.inspected /\ cache # NoObject /\ Stored("Hit") /\ UNCHANGED <<resp, cache, stale>>
     \/ /\ ~ctx.inspected /\ cache # NoObject /\ Stored("Stale")
        /\ (trigger_background_revalidation \/ UNCHANGED stale)
        /\ UNCHANGED <<resp, cache>>

\* Coalescing: the leader, and a waiter that still finds nothing, go on; a
\* waiter that finds the leader's response is served from the cache.
Coalesce ==
  /\ At("miss")
  /\ \/ /\ ctx' = [ctx EXCEPT !.cache_status = "Miss", !.cache_key = TRUE, !.stage = "range"]
        /\ UNCHANGED <<resp, header, sent, cache, stale>>
     \/ cache # NoObject /\ Stored("Hit") /\ UNCHANGED <<resp, cache, stale>>

\* The Range header counts when the site serves ranges and parse_range_header
\* accepts it.
RangeHeader ==
  /\ At("range")
  /\ \E ranged, accepted \in BOOLEAN :
       LET spec == ranged /\ accepted IN
       ctx' = [ctx EXCEPT !.stage = "image", !.ranged = ranged, !.range_request = spec,
                 !.range_served_from_cache = spec /\ ctx.cache_status = "Hit",
                 !.range_passthrough = spec /\ ctx.cache_status # "Hit"]
  /\ UNCHANGED <<resp, header, sent, cache, stale>>

ImageParams ==
  /\ At("image")
  /\ \E asked \in BOOLEAN : ctx' = [ctx EXCEPT !.image_params = asked, !.stage = "packaging"]
  /\ UNCHANGED <<resp, header, sent, cache, stale>>

\* Packaging wins over Range.
WithPackaging(x, asked) ==
  [x EXCEPT !.packaging_request = asked, !.range_request = FALSE, !.range_passthrough = FALSE]

\* format=hls in the query or the Accept header; the segment and part parameters
\* ask for a playlist or for media.
Packaging ==
  /\ At("packaging")
  /\ \/ Goto("peer")
     \/ /\ ~ctx.image_params
        /\ \E asked \in {"playlist", "media"} :
             ctx' = [WithPackaging(ctx, asked) EXCEPT !.stage = "peer"]
  /\ UNCHANGED <<resp, header, sent, cache, stale>>

-----------------------------------------------------------------------------
(* upstream_peer, fail_to_connect, upstream_request_filter *)

\* select_peer and conn_inc; no usable origin is a 502.
UpstreamPeer ==
  /\ At("peer")
  /\ \/ AnswerPage(502)
     \/ /\ ctx' = [ctx EXCEPT !.selected_origin = TRUE, !.stage = "connecting"]
        /\ UNCHANGED <<resp, header, sent, cache, stale>>

\* Mutant: a failed attempt is not counted.
NotCounted(tried) == tried

Tried(tried) == tried + 1

\* Retried while balancer_tried < retries, then answered with a 502.
FailToConnect ==
  /\ At("connecting")
  /\ LET tried == Tried(ctx.balancer_tried) IN
     IF tried < Retries
     THEN /\ ctx' = [ctx EXCEPT !.balancer_tried = tried, !.stage = "peer"]
          /\ UNCHANGED <<header, sent>>
     ELSE /\ ctx' = [ctx EXCEPT !.balancer_tried = tried, !.stage = "log"]
          /\ Answer(502, "page")
  /\ UNCHANGED <<resp, cache, stale>>

\* The client's own headers, Range among them, are in the upstream request
\* already; image parameters switch the handling of the range off.
UpstreamRequest ==
  /\ At("connecting")
  /\ ctx' = IF ctx.range_request /\ ctx.image_params
            THEN [ctx EXCEPT !.stage = "exchange", !.range_request = FALSE,
                    !.range_passthrough = FALSE, !.range_served_from_cache = FALSE]
            ELSE [ctx EXCEPT !.stage = "exchange"]
  /\ UNCHANGED <<resp, header, sent, cache, stale>>

\* Only the first response header is written to the client.
WriteHeader(h) == header' = IF header = NoHeader THEN h ELSE header

\* request_body_filter: a chunk that exceeds the size, or whose first bytes are
\* of a refused type, is dropped and answered with an error; once rejected,
\* later chunks are not looked at.
RequestBody ==
  /\ ctx.stage \in {"exchange", "body"} /\ ctx.inspected /\ ~ctx.body_rejected
  /\ ctx.received <= MaxBody
  /\ \E refused \in BOOLEAN :
       LET large == ctx.received + 1 > MaxBody /\ MaxBody > 0 IN
       /\ ctx' = [ctx EXCEPT !.received = @ + 1, !.body_rejected = large \/ refused]
       /\ IF ctx'.body_rejected /\ header = NoHeader
          THEN Answer(IF large THEN 413 ELSE 403, "page")
          ELSE UNCHANGED <<header, sent>>
  /\ UNCHANGED <<resp, cache, stale>>

\* The origin fails before its response header, or the client leaves.
ExchangeFails ==
  /\ At("exchange")
  /\ IF header = NoHeader THEN Answer(502, "page") ELSE UNCHANGED <<header, sent>>
  /\ Goto("log")
  /\ UNCHANGED <<resp, cache, stale>>

-----------------------------------------------------------------------------
(* response_filter *)

\* What an origin may send; a partial answer only to a client's Range header.
Responses ==
  [status : {200, 500} \cup IF ctx.ranged THEN {206} ELSE {},
   ctype : Types, length : BOOLEAN, chunks : 0..MaxChunks]

\* check_response_cacheability: 200 and 206 are cacheable statuses, 500 is not;
\* private, cookies and Vary are in the verdict.
Cacheable(r, verdict) ==
  r.status \in {200, 206} /\ verdict /\ ~(r.length /\ r.chunks > MaxSize)

\* Cache write decision: accumulate the body, or forget the key.
WriteDecision(x, r, verdict) ==
  IF x.cache_key /\ x.cache_status = "Miss"
  THEN [x EXCEPT !.accumulating = Cacheable(r, verdict), !.cache_key = Cacheable(r, verdict)]
  ELSE x

\* The origin ignored the Range header: its body is sliced.
RangeResponse(x, r) ==
  [x EXCEPT !.total_content_length =
     x.range_request /\ ~x.image_params /\ x.range_passthrough /\ r.status = 200 /\ r.length]

\* Only an MP4 within the size limit is packaged.
PackagingSetup(x, r, size_ok) ==
  LET on == r.ctype = "mp4" /\ size_ok IN
  IF x.packaging_request # "none" /\ ~x.image_params
  THEN [x EXCEPT !.packaging_buffering = on,
          !.packaging_request = IF on THEN @ ELSE "none"]
  ELSE x

PrefetchSetup(x, r, enabled) ==
  [x EXCEPT !.prefetch_buffering =
     enabled /\ ~x.packaging_buffering /\ ~x.image_buffering /\ r.ctype = "manifest"]

\* Only an optimizable image within the size limit is processed; otherwise the
\* parameters are dropped.
ImageSetup(x, r, size_ok) ==
  LET on == r.ctype = "image" /\ size_ok IN
  IF x.image_params /\ x.protocol = "Http"
  THEN [x EXCEPT !.image_buffering = on, !.image_params = on]
  ELSE x

\* negotiated: compression is on, the origin has not encoded the body, it is not
\* too small, and the client accepts an algorithm.
CompressionSetup(x, r, negotiated) ==
  [x EXCEPT !.compressor =
     /\ ~x.image_buffering /\ ~x.packaging_buffering /\ ~x.range_request
     /\ x.protocol = "Http" /\ r.ctype \in {"text", "manifest"} /\ negotiated]

\* Mutant: the origin's Content-Length stays in a compressed response.
LengthKept(x, r) == r.length /\ ~x.packaging_buffering /\ ~x.image_buffering

\* Packaging, image processing and compression remove Content-Length.
LengthHeader(x, r) ==
  r.length /\ ~x.packaging_buffering /\ ~x.image_buffering /\ ~x.compressor

\* The header as the transformations leave it.
HeaderOf(x, r) ==
  [status |-> r.status,
   ctype |-> IF x.packaging_buffering
             THEN IF x.packaging_request = "playlist" THEN "manifest" ELSE "mp4"
             ELSE IF x.image_buffering THEN "processed" ELSE "origin",
   encoding |-> x.compressor,
   length |-> LengthHeader(x, r)]

\* A verdict is asked for only where the code comes to it.
Asked(needed) == IF needed THEN BOOLEAN ELSE {FALSE}

ResponseFilter ==
  /\ At("exchange")
  /\ \E r \in Responses :
     \E verdict \in Asked(ctx.cache_key),
        size_ok \in Asked(ctx.image_params \/ ctx.packaging_request # "none"),
        prefetch \in Asked(r.ctype = "manifest"),
        negotiated \in Asked(r.ctype \in {"text", "manifest"}) :
       LET a == RangeResponse(WriteDecision(ctx, r, verdict), r)
           b == PrefetchSetup(PackagingSetup(a, r, size_ok), r, prefetch)
           c == CompressionSetup(ImageSetup(b, r, size_ok), r, negotiated)
       IN /\ ctx' = [c EXCEPT !.stage = "body"]
          /\ WriteHeader(HeaderOf(c, r))
          /\ resp' = [status |-> r.status, chunks |-> r.chunks, left |-> r.chunks]
  /\ UNCHANGED <<sent, cache, stale>>

-----------------------------------------------------------------------------
(* response_body_filter *)

\* A chunk goes to the client unless an error page was written before.
Send(form, n) == sent' = IF header.ctype = "page" THEN sent ELSE [sent EXCEPT ![form] = @ + n]

\* Mutant: what the client is sent is what is stored.
AccumulatesOutput(form) == {form}

\* The shadow copy is taken before any transformation.
Accumulated(form) == {"raw"}

\* The shadow copy grows; too large a body is forgotten.
Accumulate(x, data) ==
  LET size == x.response_body + data IN
  IF x.accumulating /\ x.cache_key
  THEN IF size > MaxSize
       THEN [x EXCEPT !.accumulating = FALSE, !.cache_key = FALSE, !.response_body = size]
       ELSE [x EXCEPT !.response_body = size]
  ELSE x

\* The spawned put at end_of_stream; it may fail.
Store(x, eos, form) ==
  \/ /\ eos /\ x.accumulating /\ x.cache_key
     /\ cache' = [status |-> resp.status, chunks |-> x.response_body, of |-> resp.chunks,
                  forms |-> Accumulated(form), checked |-> TRUE]
  \/ UNCHANGED cache

\* A range asked of an origin that sent everything is cut out of the whole body.
Slicing(x) ==
  x.range_request /\ ~x.image_buffering /\ x.total_content_length /\ ~x.image_params

\* The paths that hold the body back until end_of_stream and then emit one
\* result, or the body itself when the transformation fails.
Buffer(x, data, eos, form, off) ==
  IF eos
  THEN \/ ctx' = [off EXCEPT !.buffered = 0] /\ Send(form, 1)
       \/ ctx' = [off EXCEPT !.buffered = 0, !.bad = TRUE] /\ Send("raw", x.buffered + data)
  ELSE ctx' = [x EXCEPT !.buffered = @ + data] /\ UNCHANGED sent

\* An encoder that fails is dropped and the rest of the body passed on; finish
\* appends the trailer at end_of_stream, where a dropped encoder is unwrapped and
\* the process aborts.
Encode(x, data, eos) ==
  \/ /\ ctx' = [x EXCEPT !.compressor = ~eos]
     /\ Send("encoded", data + IF eos THEN 1 ELSE 0)
  \/ /\ data = 1
     /\ ctx' = [x EXCEPT !.compressor = FALSE, !.bad = TRUE, !.stage = IF eos THEN "crash" ELSE @]
     /\ Send("raw", 1)

Slice(x, data, eos) == Buffer(x, data, eos, "slice", x) /\ Store(x, eos, "slice")

Package(x, data, eos) ==
  /\ Buffer(x, data, eos, "packaged", [x EXCEPT !.packaging_buffering = FALSE])
  /\ Store(x, eos, "packaged")

ProcessImage(x, data, eos) ==
  /\ Buffer(x, data, eos, "image", [x EXCEPT !.image_buffering = FALSE])
  /\ Store(x, eos, "image")

\* The copy of a manifest is parsed at end_of_stream and a prefetch spawned, see
\* Prefetch; the slicing path returns before it.
PrefetchIntercept(x, eos) ==
  [x EXCEPT !.prefetch_buffering = @ /\ (Slicing(x) \/ ~eos)]

\* A chunk, the last chunk, or the end of the stream on its own.
ResponseBody ==
  /\ At("body") /\ ~ctx.ended
  /\ \E data \in {0, 1}, eos \in BOOLEAN :
       LET x == PrefetchIntercept(Accumulate([ctx EXCEPT !.ended = eos], data), eos)
       IN /\ data <= resp.left /\ (resp.left = 0 \/ data = 1)
          /\ (eos => resp.left = data) /\ (resp.left = 0 => eos)
          /\ resp' = [resp EXCEPT !.left = @ - data]
          /\ IF Slicing(x) THEN Slice(x, data, eos)
             ELSE IF x.packaging_buffering THEN Package(x, data, eos)
             ELSE IF x.image_buffering THEN ProcessImage(x, data, eos)
             ELSE IF x.compressor THEN Encode(x, data, eos) /\ Store(x, eos, "encoded")
             ELSE ctx' = x /\ Send("raw", data) /\ Store(x, eos, "raw")
  /\ UNCHANGED <<header, stale>>

\* The origin or the client goes away in the middle of the body.
BodyFails ==
  /\ At("body") /\ ~ctx.ended
  /\ Goto("log")
  /\ UNCHANGED <<resp, header, sent, cache, stale>>

BodyDone ==
  /\ At("body") /\ ctx.ended
  /\ Goto("log")
  /\ UNCHANGED <<resp, header, sent, cache, stale>>

-----------------------------------------------------------------------------
(* logging, background revalidation *)

\* The entry is pushed and the context dropped; a next request may follow.
Logging ==
  /\ At("log")
  /\ ctx' = NewCtx /\ resp' = NoResp /\ header' = NoHeader /\ sent' = Nothing
  /\ UNCHANGED <<cache, stale>>

\* A plain GET without the client's headers: whatever comes back is stored, its
\* status, size and Cache-Control unchecked; the fetch or the put may fail.
Revalidate ==
  /\ stale > 0
  /\ stale' = stale - 1
  /\ \/ UNCHANGED cache
     \/ \E s \in {200, 500} :
          cache' = [status |-> s, chunks |-> MaxChunks, of |-> MaxChunks,
                    forms |-> {"raw"}, checked |-> FALSE]
  /\ UNCHANGED <<ctx, resp, header, sent>>

Filter ==
  \/ PublicEndpoint \/ Route \/ EarlyData \/ Waf \/ ContentLength \/ CcCheck \/ EdgeAuth
  \/ Redirect \/ Protocol \/ Lookup \/ Coalesce \/ RangeHeader \/ ImageParams \/ Packaging

Exchange ==
  \/ UpstreamPeer \/ FailToConnect \/ UpstreamRequest \/ ExchangeFails \/ ResponseFilter
  \/ ResponseBody \/ BodyFails \/ BodyDone

Next == Filter \/ Exchange \/ RequestBody \/ Logging \/ Revalidate

Spec == Init /\ [][Next]_vars

\* The stages that wait for the cache, the name server, the origin or the client.
Calling == {"public", "lookup", "miss", "peer", "connecting", "exchange", "body"}

\* The runtime polls the request.  Nothing is assumed of the calls: no time-out is
\* set on a peer.
FairSpec == Spec /\ WF_vars(ctx.stage \notin Calling /\ (Filter \/ Logging))

-----------------------------------------------------------------------------
(* Properties *)

Sent == {f \in Forms : sent[f] > 0}

\* What lies in the cache is what the origin sent: every chunk of it, as it came,
\* whatever was sliced, packaged, re-encoded or compressed for the client that
\* caused the fetch; and what response_filter let in is within the size limit and
\* of a cacheable status.  (proxy.rs 1410-1455: the copy is taken before the
\* transformations, the put waits for the end of the stream.)
StoredIsOrigin ==
  cache # NoObject =>
    /\ cache.forms = {"raw"} /\ cache.chunks = cache.of
    /\ cache.checked => cache.chunks <= MaxSize /\ cache.status \in {200, 206}

\* The header fits the body that follows it, though it is written before the body
\* is transformed.  A Content-Length that goes out is the length of what is sent;
\* a processed or packaged body comes under its own type, an encoded one under
\* Content-Encoding; a processed or packaged response that fails is the whole
\* original, without a length; and only an encoder that fails half-way mixes two
\* forms in one body (proxy.rs 1568-1574, 1676-1689, 1709-1717).  A slice of an
\* origin's 200 is left out: it goes out under the status and the Content-Length
\* of the whole body, which were written before (proxy.rs 1155-1166, 1467-1505).
HeaderFitsBody ==
  LET length == sent["raw"] + sent["encoded"] + sent["image"] + sent["packaged"] IN
  /\ header.length /\ header.ctype = "origin" /\ ctx.ended /\ "slice" \notin Sent
       => Sent \subseteq {"raw"} /\ length = resp.chunks
  /\ "image" \in Sent => header.ctype = "processed" /\ ~header.length
  /\ "packaged" \in Sent => header.ctype \in {"manifest", "mp4"} /\ ~header.length
  /\ "encoded" \in Sent => header.encoding
  /\ header.encoding /\ "raw" \in Sent => ctx.bad
  /\ header.ctype \in {"processed", "manifest", "mp4"} /\ ctx.ended /\ ctx.bad
       => ~header.length /\ Sent \subseteq {"raw"} /\ sent["raw"] = resp.chunks
  /\ Cardinality(Sent) > 1 => ctx.bad /\ header.encoding

\* At most one of the four paths that rewrite the body (slice, package, process,
\* compress) is armed for a response, and a range is never cut out of a body the
\* origin already cut.
OneTransform ==
  ctx.stage = "body" =>
    /\ Cardinality({p \in {"slice", "package", "image", "compress"} :
         \/ p = "slice" /\ Slicing(ctx)
         \/ p = "package" /\ ctx.packaging_buffering
         \/ p = "image" /\ ctx.image_buffering
         \/ p = "compress" /\ ctx.compressor}) <= 1
    /\ Slicing(ctx) => resp.status = 200

\* If no call is left open for ever, every request comes to its log entry, however
\* often connections fail and are tried again (proxy.rs fail_to_connect); only an
\* encoder that fails on the last chunk ends the process instead.
RequestEnds ==
  WF_vars(ctx.stage \in Calling /\ (Filter \/ Exchange)) =>
    ((ctx.stage # "log") ~> (ctx.stage \in {"log", "crash"}))
=============================================================================
