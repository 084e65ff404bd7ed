--------------------------- MODULE SoulWireEvents ---------------------------
(***************************************************************************)
(* The codec of Soul Wire events, twice: as the provider has it in Rust    *)
(* (soul-core, nostr_events.rs and types.rs) and as the SDK has it in      *)
(* TypeScript (validation.ts).  An event is a record of what the two       *)
(* parsers look at.  Where a text is compared with a re-encoding of what   *)
(* was parsed from it, the text is a record and "spelled" says whether it  *)
(* is the encoding of that record; numbers in tags carry their spelling.   *)
(***************************************************************************)
EXTENDS SoulWire, Sequences

CONSTANTS
    Service,                \* ServiceType
    MAX_SAFE_INTEGER,       \* the largest integer JavaScript counts with
    U64_MAX,                \* the largest integer Rust parses
    MAX_ERROR_CHARS         \* the longest message of an error result

ASSUME EventLimits ==
    /\ MAX_SAFE_INTEGER \in Nat /\ U64_MAX \in Nat
    /\ MAX_SAFE_INTEGER < U64_MAX
    /\ MAX_ERROR_CHARS \in Nat \ {0}

-----------------------------------------------------------------------------
(* Requests.                                                               *)

\* A number as it is written in a tag: as String() and to_string() write it,
\* with leading zeros, or with a plus sign.
Numeral == [form: {"plain", "padded", "signed"}, n: Nat]

Plain(n) == [form |-> "plain", n |-> n]

\* The places of the tags with a key.
Tagged(tags, key) == {i \in DOMAIN tags : tags[i][1] = key}

\* No bid tag.
NoBid == -1

\* request_tags in Rust and requestTags in TypeScript: the same tags in the
\* same order.
RequestTags(content, bid) ==
    << <<"i", content, "text">>, <<"protocol", content.protocol>>,
       <<"service", content.service>>, <<"t", "soul-society">> >>
    \o (IF content.expires_at = NoExpiry THEN << >>
        ELSE << <<"expiration", Plain(content.expires_at)>> >>)
    \o (IF bid = NoBid THEN << >> ELSE << <<"bid", Plain(bid)>> >>)

\* JobRequestContent::validate.  "ok" of an input is JobInput::validate, which
\* agrees with validateJobInput on every input (BoundsAgree of ProofEngine).
RustValidContent(c, created_at, now) ==
    /\ c.protocol = "soul-society/1"
    /\ c.service = c.input.service
    /\ c.input.ok
    /\ c.expires_at # NoExpiry => c.expires_at <= U64_MAX
    /\ Unexpired([created_at |-> created_at, expires_at |-> c.expires_at], now)

\* Mutant: the largest value of parse::<u64> is the only bound.
RustReadsAnyBid(tags) ==
    LET bids == Tagged(tags, "bid")
    IN  \/ bids = {}
        \/ \E i \in bids : bids = {i} /\ Len(tags[i]) = 2 /\ tags[i][2].n <= U64_MAX

\* optional_scalar_tag and parse::<u64>, which takes any spelling.
RustReadsBid(tags) ==
    LET bids == Tagged(tags, "bid")
    IN  \/ bids = {}
        \/ \E i \in bids :
              /\ bids = {i} /\ Len(tags[i]) = 2
              /\ tags[i][2].n <= U64_MAX
              /\ tags[i][2].n <= MAX_SAFE_INTEGER

BidOf(tags) ==
    LET bids == Tagged(tags, "bid")
    IN  IF bids = {} THEN NoBid ELSE tags[CHOOSE i \in bids : TRUE][2].n

\* parse_request_event returns Ok.
RustParsesRequest(e, now) ==
    /\ e.authentic
    /\ e.kind.role = "request"
    /\ e.fits
    /\ Timely(e.created_at, now)
    /\ e.parses
    /\ RustValidContent(e.content, e.created_at, now)
    /\ e.content.service = e.kind.service
    /\ e.spelled
    /\ RustReadsBid(e.tags)
    /\ e.tags = RequestTags(e.content, BidOf(e.tags))

IsSafe(n) == n \in 0..MAX_SAFE_INTEGER

\* The window of validateRequestEvent, without saturation.
SdkTimely(created_at, now) ==
    /\ IsSafe(created_at)
    /\ created_at <= now + MAX_FUTURE_SKEW_SECS
    /\ now - created_at <= MAX_REQUEST_AGE_SECS

\* parseRequestContent.
SdkValidContent(c, created_at, now) ==
    /\ c.protocol = "soul-society/1"
    /\ c.input.ok
    /\ c.service = c.input.service
    /\ c.expires_at # NoExpiry =>
          /\ IsSafe(c.expires_at)
          /\ c.expires_at > now
          /\ c.expires_at >= created_at
          /\ c.expires_at - created_at <= MAX_REQUEST_TTL_SECS

\* readBid, which takes the plain spelling only.
SdkReadsBid(tags) ==
    LET bids == Tagged(tags, "bid")
    IN  \/ bids = {}
        \/ \E i \in bids :
              /\ bids = {i} /\ Len(tags[i]) = 2
              /\ tags[i][2].form = "plain"
              /\ IsSafe(tags[i][2].n)

\* validateRequestEvent returns.
SdkParsesRequest(e, now) ==
    /\ e.authentic
    /\ e.kind.role = "request"
    /\ e.fits
    /\ SdkTimely(e.created_at, now)
    /\ e.parses
    /\ SdkValidContent(e.content, e.created_at, now)
    /\ e.content.service = e.kind.service
    /\ e.spelled
    /\ SdkReadsBid(e.tags)
    /\ e.tags = RequestTags(e.content, BidOf(e.tags))

-----------------------------------------------------------------------------
(* Proof URLs.                                                             *)

\* A parsed URL.  A path that ends with a slash has a last segment "".
Url == [scheme: {"https", "http", "other"},
        host: {"none", "public", "localhost", "sub.localhost", "127.0.0.1", "[::1]"},
        credentials: BOOLEAN, query: BOOLEAN,
        fragment: {"none", "empty", "some"},
        path: Seq({"", "base", "proof"})]

\* is_loopback_host, in types.rs and config.rs.
RustLoopback(url) == url.host \in {"localhost", "127.0.0.1", "[::1]"}

\* isLoopbackHostname.
SdkLoopback(url) == RustLoopback(url) \/ url.host = "sub.localhost"

\* The URL check of ProofDescriptor::validate.
RustArtifactUrl(url) ==
    /\ url.scheme \in {"http", "https"}
    /\ url.host # "none"
    /\ url.scheme = "http" => RustLoopback(url)

\* isSafeArtifactUrl; url.hash is empty also for a lone "#".
SdkArtifactUrl(url) ==
    /\ url.host # "none"
    /\ ~url.credentials
    /\ url.fragment # "some"
    /\ url.scheme = "https" \/ (url.scheme = "http" /\ SdkLoopback(url))

\* validate_public_base_url accepts the configured URL.
ValidPublicBaseUrl(url) ==
    /\ url.scheme \in {"http", "https"}
    /\ url.host # "none"
    /\ ~url.credentials
    /\ ~url.query
    /\ url.fragment = "none"
    /\ url.scheme = "http" => RustLoopback(url)

EndsWithSlash(url) == url.path # << >> /\ url.path[Len(url.path)] = ""

\* Mutant: the base URL is used as it is configured.
BaseUrlAsGiven(url) == url

\* The base URL as validate_public_base_url returns it.
PublicBaseUrl(url) == IF EndsWithSlash(url) THEN url ELSE [url EXCEPT !.path = Append(@, "")]

\* Url::join of a relative path: it replaces the last segment of the base and
\* drops the base's query and fragment.
Join(base, segment) ==
    [base EXCEPT !.path = Append(SubSeq(@, 1, Len(@) - 1), segment),
                 !.query = FALSE, !.fragment = "none"]

-----------------------------------------------------------------------------
(* Results.                                                                *)

\* A message of "printable" characters and "controls" control characters.
Message == [printable: Nat, controls: Nat]

\* JobError::new filters and truncates.
JobErrorNew(m) ==
    [printable |-> IF m.printable < MAX_ERROR_CHARS THEN m.printable ELSE MAX_ERROR_CHARS,
     controls |-> 0]

\* JobResultContent::validate and parseResult, which agree on messages.
ValidMessage(m) == m.printable + m.controls \in 1..MAX_ERROR_CHARS /\ m.controls = 0

\* "meta" of a descriptor stands for format, media type, digest, size, program
\* hash and channel; "valid" of a statement for ProofStatement::validate and
\* parseStatement (ValidStatement of SoulCairo), "binds" for the comparison of
\* its public input with a request (BoundToRequest of SoulCairo).
RustValidResult(c) ==
    /\ c.protocol = "soul-society/1"
    /\ c.status = "success" =>
          /\ c.statement.valid
          /\ c.proof.meta /\ RustArtifactUrl(c.proof.url)
          /\ c.metrics <= MAX_SAFE_INTEGER
    /\ c.status = "error" => ValidMessage(c.message)

\* parseResult.
SdkValidResult(c) ==
    /\ c.protocol = "soul-society/1"
    /\ c.status = "success" =>
          /\ c.statement.valid
          /\ c.proof.meta /\ SdkArtifactUrl(c.proof.url)
          /\ IsSafe(c.metrics)
    /\ c.status = "error" => ValidMessage(c.message)

\* The seven members of an event, in any order, and nothing else.
Serialized(e) == [event |-> e, exact |-> TRUE]

\* result_tags, and expectedTags of validateResultEvent, around the text of
\* the embedded request.
ResultTags(request, embedded, status) ==
    << <<"request", embedded>>, <<"e", request.id>>, <<"p", request.author>>,
       <<"i", request.content, "text">>, <<"status", status>>,
       <<"protocol", "soul-society/1">>, <<"service", request.content.service>>,
       <<"t", "soul-society">> >>

\* parse_embedded_request_event and the comparison with the request; likewise
\* parseEmbeddedEvent and assertSameEvent.
Embeds(tags, request) ==
    /\ Len(tags) = 8 /\ Len(tags[1]) = 2 /\ tags[1][1] = "request"
    /\ tags[1][2].exact
    /\ tags[1][2].event.authentic
    /\ tags[1][2].event = request

\* The guards the two result parsers have in common.
BoundResult(e, request, now) ==
    /\ e.authentic
    /\ e.kind = [role |-> "result", service |-> request.content.service]
    /\ e.fits
    /\ ResultTimely(e.created_at, request.created_at, now)
    /\ e.content.request_id = request.id
    /\ e.shape = "exact" /\ e.spelled
    /\ Embeds(e.tags, request)
    /\ e.tags = ResultTags(request, e.tags[1][2], e.content.status)

\* parse_result_event returns Ok.  A member serde does not know is only found
\* by encoding the content again.
RustParsesResult(e, request, now) ==
    /\ e.shape \in {"exact", "extra"}
    /\ RustValidResult(e.content)
    /\ e.content.status = "success" => e.content.statement.service = request.content.service
    /\ BoundResult(e, request, now)

\* Mutant: only the service of the statement is compared with the request.
SdkParsesUnbound(e, request, now) ==
    /\ e.shape = "exact"
    /\ IsSafe(e.created_at)
    /\ SdkValidResult(e.content)
    /\ e.content.status = "success" => e.content.statement.service = request.content.service
    /\ BoundResult(e, request, now)

\* validateResultEvent returns.
SdkParsesResult(e, request, now) ==
    /\ e.shape = "exact"
    /\ IsSafe(e.created_at)
    /\ SdkValidResult(e.content)
    /\ e.content.status = "success" =>
          /\ e.content.statement.service = request.content.service
          /\ e.content.statement.binds
    /\ BoundResult(e, request, now)
=============================================================================
