------------------------------ MODULE WirePath ------------------------------
(***************************************************************************)
(* One request and one result on their way through both codecs: a provider *)
(* that started from its environment variables, an SDK client that signs a *)
(* request or another program that signs something else, the provider's    *)
(* answer or another signed event, and what the SDK makes of it.  Only     *)
(* "authentic" cannot be forged.                                           *)
(***************************************************************************)
EXTENDS SoulWireEvents

CONSTANTS
    Scenarios,              \* what the operator configures, and whether programs
                            \* other than the SDK and the provider sign events
    ForeignRequests,        \* request events other programs sign
    ForeignResults(_),      \* result events other programs sign for a request
    Bid,                    \* options.bidMsats
    ExpiresIn,              \* options.expiresInSeconds
    Skew,                   \* how far the client's clock may be ahead
    None,
    MaxNow,                 \* bound: the provider's clock
    MaxStarts               \* bound: starts of the provider

VARIABLES
    env,            \* the provider's environment
    others,         \* other programs sign events
    process,        \* "down", "up", or "refused" by the configuration
    key,            \* the key the process signs with
    starts,
    now, skew,      \* the provider's clock; the client's is now + skew
    request, requestFrom,   \* the request, and which program signed it
    result, resultFrom,
    settled         \* the SDK accepted the result

providerVars == <<env, others, process, key, starts>>
eventVars == <<request, requestFrom, result, resultFrom, settled>>
vars == <<providerVars, now, skew, eventVars>>

-----------------------------------------------------------------------------

\* An URL variable that is not set.
Unset == [scheme |-> "other", host |-> "none", credentials |-> FALSE, query |-> FALSE,
          fragment |-> "none", path |-> << >>]

\* The default of a development provider, http://127.0.0.1:8081.
LocalUrl == [scheme |-> "http", host |-> "127.0.0.1", credentials |-> FALSE, query |-> FALSE,
             fragment |-> "none", path |-> <<"">>]

BaseUrl(e) == IF e.url = Unset /\ e.mode # "production" THEN LocalUrl ELSE e.url

\* Config::from_env and read_secret_key return Ok, and Keys::parse takes what
\* they return.  "trusted" stands for the program hash, the executable and its
\* digest, the provider's name and its address.
FromEnv(e) ==
    /\ e.relays \in {"unset", "ws"} => e.mode # "production"
    /\ e.relays \notin {"empty", "malformed"}
    /\ e.secret \in {"none", "inline", "file"}
    /\ e.mode = "production" => e.secret # "none"
    /\ ValidPublicBaseUrl(BaseUrl(e))
    /\ e.mode = "production" => BaseUrl(e).scheme = "https"
    /\ e.proofs \in 1..16
    /\ e.trusted

\* The key an SDK client is told to trust.
Trusted == "configured"

Init ==
    /\ \E s \in Scenarios : env = s.env /\ others = s.others
    /\ process = "down" /\ key = None /\ starts = 0
    /\ now \in 0..MaxNow /\ skew \in Skew
    /\ request = None /\ requestFrom = "nobody"
    /\ result = None /\ resultFrom = "nobody"
    /\ settled = FALSE

\* The head of run(): the configuration, then the identity.
Start ==
    /\ process = "down" /\ starts < MaxStarts
    /\ starts' = starts + 1
    /\ \/ /\ FromEnv(env)
          /\ process' = "up"
          /\ key' = IF env.secret = "none" THEN "ephemeral" ELSE "configured"
       \/ /\ ~FromEnv(env)
          /\ process' = "refused"
          /\ UNCHANGED key
    /\ UNCHANGED <<env, others, now, skew, eventVars>>

Stop ==
    /\ process = "up" /\ starts < MaxStarts
    /\ process' = "down"
    /\ UNCHANGED <<env, others, key, starts, now, skew, eventVars>>

Tick ==
    /\ now < MaxNow
    /\ now' = now + 1
    /\ UNCHANGED <<providerVars, skew, eventVars>>

\* Mutant: the request lives a second longer than its options say.
SdkRequestLate(service, bid, ttl, at) ==
    LET c == [protocol |-> "soul-society/1", service |-> service,
              input |-> [service |-> service, ok |-> TRUE],
              expires_at |-> at + ttl + 1]
    IN  [id |-> "own", author |-> "client", authentic |-> TRUE,
         kind |-> [role |-> "request", service |-> service],
         fits |-> TRUE, created_at |-> at, parses |-> TRUE, content |-> c,
         spelled |-> TRUE, tags |-> RequestTags(c, bid)]

\* The event run() builds and has signed at its own time "at", for an input
\* validateJobInput accepted and options validateJobOptions accepted.
SdkRequest(service, bid, ttl, at) ==
    LET c == [protocol |-> "soul-society/1", service |-> service,
              input |-> [service |-> service, ok |-> TRUE],
              expires_at |-> at + ttl]
    IN  [id |-> "own", author |-> "client", authentic |-> TRUE,
         kind |-> [role |-> "request", service |-> service],
         fits |-> TRUE, created_at |-> at, parses |-> TRUE, content |-> c,
         spelled |-> TRUE, tags |-> RequestTags(c, bid)]

\* validateJobOptions.
ValidOptions(bid, ttl) == IsSafe(bid) /\ ttl \in 1..MAX_REQUEST_TTL_SECS

\* No clock is near the end of what JavaScript counts with, and events are
\* records of the numbers and URLs that parse.
ASSUME WireAssumption ==
    /\ MaxNow \in Nat /\ Skew \subseteq Int
    /\ MaxNow + MAX_FUTURE_SKEW_SECS + MAX_REQUEST_TTL_SECS <= MAX_SAFE_INTEGER
    /\ \A k \in Skew : MaxNow + k + MAX_FUTURE_SKEW_SECS <= MAX_SAFE_INTEGER
    /\ \A s \in Scenarios : s.env.url \in Url
    /\ \A e \in ForeignRequests :
          /\ e.created_at \in Nat
          /\ e.content.expires_at \in Nat \cup {NoExpiry}
          /\ \A i \in Tagged(e.tags, "bid") : Len(e.tags[i]) = 2 => e.tags[i][2] \in Numeral
    /\ \A service \in Service, bid \in Bid, ttl \in ExpiresIn, n \in 0..MaxNow, k \in Skew :
          ValidOptions(bid, ttl) /\ n + k >= 0 =>
             \A e \in ForeignResults(SdkRequest(service, bid, ttl, n + k)) :
                /\ e.created_at \in Nat
                /\ e.content.status = "success" => e.content.metrics \in Nat

SdkSigns ==
    /\ requestFrom = "nobody" /\ now + skew >= 0
    /\ \E service \in Service, bid \in Bid, ttl \in ExpiresIn :
          /\ ValidOptions(bid, ttl)
          /\ request' = SdkRequest(service, bid, ttl, now + skew)
    /\ requestFrom' = "sdk"
    /\ UNCHANGED <<providerVars, now, skew, result, resultFrom, settled>>

SomeoneSigns ==
    /\ others /\ requestFrom = "nobody"
    /\ \E e \in ForeignRequests : request' = e
    /\ requestFrom' = "other"
    /\ UNCHANGED <<providerVars, now, skew, result, resultFrom, settled>>

\* JobResultContent::error with the public message of a ProcessingError.
ErrorContent ==
    [status |-> "error", protocol |-> "soul-society/1", request_id |-> request.id,
     message |-> JobErrorNew([printable |-> 20, controls |-> 0])]

\* The success ProofProcessor::process builds: its statement passed
\* statement_matches_request, its URL is joined to the base.
SuccessContent ==
    [status |-> "success", protocol |-> "soul-society/1", request_id |-> request.id,
     statement |-> [service |-> request.content.service, valid |-> TRUE, binds |-> TRUE],
     proof |-> [meta |-> TRUE, url |-> Join(PublicBaseUrl(BaseUrl(env)), "proof")],
     metrics |-> 1]

\* handle_event signs a content with the provider's key and clock.
ResultFor(content) ==
    [author |-> key, authentic |-> TRUE,
     kind |-> [role |-> "result", service |-> request.content.service],
     fits |-> TRUE, created_at |-> now, shape |-> "exact", spelled |-> TRUE,
     content |-> content, tags |-> ResultTags(request, Serialized(request), content.status)]

\* A request that parses is answered: with an error, or with a success whose
\* descriptor and content validate.
ProviderReplies ==
    /\ process = "up" /\ requestFrom # "nobody" /\ resultFrom = "nobody"
    /\ RustParsesRequest(request, now)
    /\ \/ result' = ResultFor(ErrorContent)
       \/ RustValidResult(SuccessContent) /\ result' = ResultFor(SuccessContent)
    /\ resultFrom' = "provider"
    /\ UNCHANGED <<providerVars, now, skew, request, requestFrom, settled>>

SomeoneReplies ==
    /\ others /\ requestFrom = "sdk" /\ resultFrom = "nobody"
    /\ \E e \in ForeignResults(request) : result' = e
    /\ resultFrom' = "other"
    /\ UNCHANGED <<providerVars, now, skew, request, requestFrom, settled>>

\* The callback of waitForResult: acceptsProvider, then validateResultEvent.
SdkReceives ==
    /\ requestFrom = "sdk" /\ resultFrom # "nobody" /\ ~settled
    /\ result.author = Trusted
    /\ SdkParsesResult(result, request, now + skew)
    /\ settled' = TRUE
    /\ UNCHANGED <<providerVars, now, skew, request, requestFrom, result, resultFrom>>

Next ==
    \/ Start \/ Stop \/ Tick
    \/ SdkSigns \/ SomeoneSigns
    \/ ProviderReplies \/ SomeoneReplies
    \/ SdkReceives

Spec == Init /\ [][Next]_vars

-----------------------------------------------------------------------------
(* Properties.                                                             *)

\* parse_request_event and validateRequestEvent agree on every event at every
\* time, although they read numbers, spellings and clocks differently.
RequestParity ==
    requestFrom # "nobody" =>
        (RustParsesRequest(request, now) <=> SdkParsesRequest(request, now))

\* Whatever options validateJobOptions lets through, only the provider's clock
\* can make it refuse a request the SDK has signed.
SdkRequestAccepted ==
    requestFrom = "sdk" =>
        \/ RustParsesRequest(request, now)
        \/ ~Timely(request.created_at, now)
        \/ request.content.expires_at <= now

\* What the provider signs validates in the SDK at any time its stamp allows,
\* for every configuration the provider starts with.
ProviderResultAccepted ==
    resultFrom = "provider" =>
        (SdkParsesResult(result, request, now + skew)
            <=> ResultTimely(result.created_at, request.created_at, now + skew))

\* The two result parsers differ in three places only.  The SDK also compares
\* the statement's public input, refuses credentials and fragments in a proof
\* URL, and takes any host below localhost for a loopback.
ResultParity ==
    requestFrom = "sdk" /\ resultFrom # "nobody" =>
        LET sdk == SdkParsesResult(result, request, now + skew)
            rust == RustParsesResult(result, request, now + skew)
            success == result.content.status = "success"
            url == result.content.proof.url
            stricter == /\ result.content.statement.binds
                        /\ ~url.credentials /\ url.fragment # "some"
        IN  /\ rust /\ (success => stricter) => sdk
            /\ sdk /\ success => stricter
            /\ sdk => rust \/ (success /\ url.scheme = "http" /\ url.host = "sub.localhost")

\* The proof a result names is below the configured base, whether the base was
\* written with a slash or not: the route /v1/proofs of the HTTP service.
ArtifactBelowBase ==
    resultFrom = "provider" /\ result.content.status = "success" =>
        LET base == BaseUrl(env).path
            segments == IF EndsWithSlash(BaseUrl(env)) THEN SubSeq(base, 1, Len(base) - 1) ELSE base
        IN  result.content.proof.url.path = Append(segments, "proof")

\* A provider in production signs with the configured key over all restarts,
\* so its answers are the ones a client's allowlist lets through.
ProductionIsTrusted ==
    resultFrom = "provider" /\ env.mode = "production" => result.author = Trusted

\* Whatever the operator configures, a provider that starts signs results its
\* clients can use: they validate, name a proof that is there, and in production
\* come from the key the clients trust.
ProviderResultUsable == ProviderResultAccepted /\ ArtifactBelowBase /\ ProductionIsTrusted
=============================================================================
