--------------------------- MODULE WirePathProofs ----------------------------
(***************************************************************************)
(* The two codecs of Soul Wire agree, for every event, every time and every *)
(* environment: what the parsers of one language accept, the parsers of    *)
(* the other accept too, up to the differences ResultParity names.         *)
(***************************************************************************)
EXTENDS WirePath, SequenceTheorems, TLAPS

-----------------------------------------------------------------------------
(* Tags.                                                                   *)

\* request_tags writes a bid, if there is one, as the last tag, in the plain
\* spelling, and no other tag has its key.
LEMMA BidIsLast ==
    ASSUME NEW c, NEW b, NEW t, t = RequestTags(c, b)
    PROVE  /\ b = NoBid => Tagged(t, "bid") = {}
           /\ b # NoBid => /\ Tagged(t, "bid") = {Len(t)}
                           /\ t[Len(t)] = <<"bid", Plain(b)>>
<1> DEFINE p == << <<"i", c, "text">>, <<"protocol", c.protocol>>,
                   <<"service", c.service>>, <<"t", "soul-society">> >>
           x == IF c.expires_at = NoExpiry THEN << >>
                ELSE << <<"expiration", Plain(c.expires_at)>> >>
           y == IF b = NoBid THEN << >> ELSE << <<"bid", Plain(b)>> >>
           S == {<<"i", c, "text">>, <<"protocol", c.protocol>>, <<"service", c.service>>,
                 <<"t", "soul-society">>, <<"expiration", Plain(c.expires_at)>>,
                 <<"bid", Plain(b)>>}
           q == p \o x
<1>1. p \in Seq(S) /\ Len(p) = 4 /\ \A i \in 1..Len(p) : p[i][1] # "bid"
  OBVIOUS
<1>2. x \in Seq(S) /\ \A i \in 1..Len(x) : x[i][1] # "bid"
  OBVIOUS
<1>3. /\ y \in Seq(S)
      /\ b = NoBid => Len(y) = 0
      /\ b # NoBid => Len(y) = 1 /\ y[1] = <<"bid", Plain(b)>>
  OBVIOUS
<1>4. t = q \o y
  BY DEF RequestTags
<1> HIDE DEF p, x, y, S
<1>5. /\ q \in Seq(S) /\ Len(q) = Len(p) + Len(x)
      /\ \A i \in 1..(Len(p) + Len(x)) : q[i] = IF i <= Len(p) THEN p[i] ELSE x[i - Len(p)]
  BY <1>1, <1>2, ConcatProperties, Zenon
<1> HIDE DEF q
<1>6. q \in Seq(S) /\ y \in Seq(S) /\ Len(q) \in Nat
  BY <1>3, <1>5, LenProperties
<1>7. \A i \in 1..Len(q) : q[i][1] # "bid"
  BY <1>1, <1>2, <1>5
<1>8. /\ q \o y \in Seq(S) /\ Len(q \o y) = Len(q) + Len(y)
      /\ \A i \in 1..(Len(q) + Len(y)) : (q \o y)[i] = IF i <= Len(q) THEN q[i] ELSE y[i - Len(q)]
  BY <1>6, ConcatProperties, Zenon
<1>9. /\ t \in Seq(S) /\ Len(t) = Len(q) + Len(y)
      /\ \A i \in 1..Len(t) : t[i] = IF i <= Len(q) THEN q[i] ELSE y[i - Len(q)]
  BY <1>4, <1>8
<1>10. CASE b = NoBid
  BY <1>3, <1>5, <1>7, <1>9, <1>10 DEF Tagged
<1>11. CASE b # NoBid
  <2>1. Len(t) = Len(q) + 1 /\ Len(q) \in Nat
    BY <1>3, <1>6, <1>9, <1>11
  <2>2. t[Len(t)] = <<"bid", Plain(b)>>
    BY <1>3, <1>9, <1>11, <2>1
  <2>3. \A i \in 1..Len(t) : i # Len(t) => t[i][1] # "bid"
    BY <1>7, <1>9, <2>1
  <2> QED BY <1>9, <1>11, <2>1, <2>2, <2>3 DEF Tagged
<1> QED BY <1>10, <1>11

-----------------------------------------------------------------------------
(* Requests.                                                               *)

\* The numbers of a request are numbers.
TypedRequest(e) ==
    /\ e.created_at \in Nat
    /\ e.content.expires_at \in Nat \cup {NoExpiry}
    /\ \A i \in Tagged(e.tags, "bid") : Len(e.tags[i]) = 2 => e.tags[i][2] \in Numeral

\* The windows of the two languages: one saturates, the other wants a safe
\* integer.
LEMMA SameWindow ==
    ASSUME NEW at \in Nat, NEW n \in 0..MaxNow
    PROVE  Timely(at, n) <=> SdkTimely(at, n)
BY WireAssumption, WireLimits, EventLimits
DEF Timely, SdkTimely, SaturatingSub, IsSafe

\* The rules for contents, inside the window.
LEMMA SameContent ==
    ASSUME NEW c, NEW at \in Nat, NEW n \in 0..MaxNow, Timely(at, n),
           c.expires_at \in Nat \cup {NoExpiry}
    PROVE  RustValidContent(c, at, n) <=> SdkValidContent(c, at, n)
<1> DEFINE x == c.expires_at
           rust == x # NoExpiry =>
                      /\ x <= U64_MAX /\ x > n /\ x >= at
                      /\ SaturatingSub(x, at) <= MAX_REQUEST_TTL_SECS
           sdk == x # NoExpiry =>
                      /\ IsSafe(x) /\ x > n /\ x >= at
                      /\ x - at <= MAX_REQUEST_TTL_SECS
<1>1. rust <=> sdk
  BY WireAssumption, WireLimits, EventLimits DEF Timely, SaturatingSub, IsSafe, NoExpiry
<1>2. RustValidContent(c, at, n) <=> /\ c.protocol = "soul-society/1"
                                     /\ c.service = c.input.service
                                     /\ c.input.ok
                                     /\ rust
  BY DEF RustValidContent, Unexpired
<1>3. SdkValidContent(c, at, n) <=> /\ c.protocol = "soul-society/1"
                                    /\ c.service = c.input.service
                                    /\ c.input.ok
                                    /\ sdk
  BY DEF SdkValidContent
<1> QED BY <1>1, <1>2, <1>3

\* parse::<u64> takes every spelling, readBid one; but the tags have to be the
\* ones that are written for the number, and these have the plain spelling.
LEMMA SameBid ==
    ASSUME NEW e, TypedRequest(e), e.tags = RequestTags(e.content, BidOf(e.tags))
    PROVE  RustReadsBid(e.tags) <=> SdkReadsBid(e.tags)
<1> DEFINE t == e.tags
           bids == Tagged(t, "bid")
           b == BidOf(t)
<1>1. CASE bids = {}
  BY <1>1 DEF RustReadsBid, SdkReadsBid
<1>2. CASE bids # {}
  <2>1. b # NoBid /\ bids = {Len(t)} /\ t[Len(t)] = <<"bid", Plain(b)>>
    BY <1>2, BidIsLast
  <2>2. Len(t[Len(t)]) = 2 /\ t[Len(t)][2] = Plain(b)
    BY <2>1
  <2>3. Plain(b) \in Numeral
    BY <2>1, <2>2 DEF TypedRequest
  <2>4. b \in Nat /\ Plain(b).n = b /\ Plain(b).form = "plain"
    BY <2>3 DEF Plain, Numeral
  <2>5. RustReadsBid(t) <=> b <= U64_MAX /\ b <= MAX_SAFE_INTEGER
    BY <2>1, <2>2, <2>4 DEF RustReadsBid
  <2>6. SdkReadsBid(t) <=> IsSafe(b)
    BY <2>1, <2>2, <2>4 DEF SdkReadsBid
  <2> QED BY <2>4, <2>5, <2>6, EventLimits DEF IsSafe
<1> QED BY <1>1, <1>2

\* The two request parsers, check by check, at any time.
LEMMA SameRequests ==
    ASSUME NEW e, TypedRequest(e), NEW n \in 0..MaxNow
    PROVE  RustParsesRequest(e, n) <=> SdkParsesRequest(e, n)
<1>1. Timely(e.created_at, n) <=> SdkTimely(e.created_at, n)
  BY SameWindow DEF TypedRequest
<1>2. Timely(e.created_at, n) =>
        (RustValidContent(e.content, e.created_at, n) <=> SdkValidContent(e.content, e.created_at, n))
  BY SameContent DEF TypedRequest
<1>3. e.tags = RequestTags(e.content, BidOf(e.tags)) =>
        (RustReadsBid(e.tags) <=> SdkReadsBid(e.tags))
  BY SameBid
<1> QED BY <1>1, <1>2, <1>3 DEF RustParsesRequest, SdkParsesRequest

-----------------------------------------------------------------------------
(* The path of a request and a result.                                     *)

\* The identity run() chooses in an environment it accepts.
KeyOf(e) == IF e.secret = "none" THEN "ephemeral" ELSE "configured"

SignedBySdk ==
    \E service \in Service, bid \in Bid, ttl \in ExpiresIn, n \in 0..MaxNow, k \in Skew :
        /\ ValidOptions(bid, ttl) /\ n + k >= 0
        /\ request = SdkRequest(service, bid, ttl, n + k)

\* The answer the provider signed at some time, for a request it parsed.
SignedByProvider ==
    /\ FromEnv(env)
    /\ request.authentic
    /\ \E at \in 0..MaxNow, c \in {ErrorContent, SuccessContent} :
          /\ c = SuccessContent => RustValidResult(c)
          /\ result = [author |-> KeyOf(env), authentic |-> TRUE,
                       kind |-> [role |-> "result", service |-> request.content.service],
                       fits |-> TRUE, created_at |-> at, shape |-> "exact", spelled |-> TRUE,
                       content |-> c, tags |-> ResultTags(request, Serialized(request), c.status)]

\* Where the events come from.  A request stays once there is one, so that a
\* result goes on being the answer to it.
WireInv ==
    /\ now \in 0..MaxNow /\ skew \in Skew
    /\ env.url \in Url
    /\ process = "up" => FromEnv(env) /\ key = KeyOf(env)
    /\ requestFrom \in {"nobody", "sdk", "other"}
    /\ requestFrom = "sdk" => SignedBySdk
    /\ requestFrom = "other" => request \in ForeignRequests
    /\ resultFrom \in {"nobody", "provider", "other"}
    /\ resultFrom = "provider" => requestFrom # "nobody" /\ SignedByProvider
    /\ resultFrom = "other" => requestFrom = "sdk" /\ result \in ForeignResults(request)

\* Nothing is configured or signed at the start.
LEMMA InitWire == Init => WireInv
BY WireAssumption DEF Init, WireInv

\* The clock and the process say nothing about the events.
LEMMA QuietWire ==
    ASSUME WireInv, UNCHANGED <<env, eventVars>>, skew' = skew, now' \in 0..MaxNow,
           process' = "up" => FromEnv(env) /\ key' = KeyOf(env)
    PROVE  WireInv'
<1>1. ErrorContent' = ErrorContent /\ SuccessContent' = SuccessContent
  BY DEF eventVars, ErrorContent, SuccessContent
<1>2. SignedBySdk' <=> SignedBySdk
  BY DEF eventVars, SignedBySdk
<1>3. SignedByProvider' <=> SignedByProvider
  BY <1>1 DEF eventVars, SignedByProvider
<1> QED BY <1>2, <1>3 DEF WireInv, eventVars

\* Every step keeps what is known of the origin of request, result and key.
LEMMA NextWire == WireInv /\ [Next]_vars => WireInv'
<1> SUFFICES ASSUME WireInv, [Next]_vars PROVE WireInv'
  OBVIOUS
<1>1. CASE Start
  BY <1>1, QuietWire DEF WireInv, Start, KeyOf, eventVars
<1>2. CASE Stop
  BY <1>2, QuietWire DEF WireInv, Stop
<1>3. CASE Tick
  <2>1. now' \in 0..MaxNow
    BY <1>3, WireAssumption DEF Tick, WireInv
  <2> QED BY <1>3, <2>1, QuietWire DEF WireInv, Tick, providerVars
<1>4. CASE SdkSigns
  <2>1. SignedBySdk'
    BY <1>4 DEF SdkSigns, SignedBySdk, WireInv
  <2> QED BY <1>4, <2>1 DEF SdkSigns, WireInv, providerVars
<1>5. CASE SomeoneSigns
  BY <1>5 DEF SomeoneSigns, WireInv, providerVars
<1>6. CASE ProviderReplies
  <2>1. SignedByProvider'
    <3>1. FromEnv(env)' /\ request'.authentic /\ key = KeyOf(env)
      BY <1>6 DEF ProviderReplies, WireInv, RustParsesRequest, providerVars
    <3>2. PICK c \in {ErrorContent, SuccessContent} :
             result' = ResultFor(c) /\ (c = SuccessContent => RustValidResult(c))
      <4>1. ErrorContent # SuccessContent
        BY DEF ErrorContent, SuccessContent
      <4> QED BY <1>6, <4>1 DEF ProviderReplies
    <3>3. ErrorContent' = ErrorContent /\ SuccessContent' = SuccessContent
      BY <1>6 DEF ProviderReplies, ErrorContent, SuccessContent, providerVars
    <3> QED BY <1>6, <3>1, <3>2, <3>3 DEF ProviderReplies, WireInv, ResultFor, SignedByProvider,
              providerVars
  <2>2. SignedBySdk' <=> SignedBySdk
    BY <1>6 DEF ProviderReplies, SignedBySdk
  <2> QED BY <1>6, <2>1, <2>2 DEF ProviderReplies, WireInv, providerVars
<1>7. CASE SomeoneReplies
  <2>1. SignedBySdk' <=> SignedBySdk
    BY <1>7 DEF SomeoneReplies, SignedBySdk
  <2> QED BY <1>7, <2>1 DEF SomeoneReplies, WireInv, providerVars
<1>8. CASE SdkReceives
  <2>1. (SignedBySdk' <=> SignedBySdk) /\ (SignedByProvider' <=> SignedByProvider)
    BY <1>8 DEF SdkReceives, SignedBySdk, SignedByProvider, ErrorContent, SuccessContent,
        providerVars
  <2> QED BY <1>8, <2>1 DEF SdkReceives, WireInv, providerVars
<1>9. CASE UNCHANGED vars
  BY <1>9, QuietWire DEF WireInv, vars, providerVars
<1> QED BY <1>1, <1>2, <1>3, <1>4, <1>5, <1>6, <1>7, <1>8, <1>9 DEF Next

\* The invariant of the wire holds throughout.
LEMMA WireAlwaysHolds == Spec => []WireInv
BY InitWire, NextWire, PTL DEF Spec

\* The tags and numbers of a request of the SDK.
LEMMA SdkRequestParts ==
    ASSUME SignedBySdk
    PROVE  \E at \in Nat, ttl \in 1..MAX_REQUEST_TTL_SECS, bid \in 0..MAX_SAFE_INTEGER :
              /\ request.created_at = at /\ request.content.expires_at = at + ttl
              /\ Tagged(request.tags, "bid") = {Len(request.tags)}
              /\ request.tags[Len(request.tags)] = <<"bid", Plain(bid)>>
              /\ request.tags = RequestTags(request.content, bid)
<1>1. PICK service \in Service, bid \in Bid, ttl \in ExpiresIn, n \in 0..MaxNow, k \in Skew :
          /\ ValidOptions(bid, ttl) /\ n + k >= 0
          /\ request = SdkRequest(service, bid, ttl, n + k)
  BY DEF SignedBySdk
<1>2. n + k \in Nat
  BY <1>1, WireAssumption
<1>3. bid \in 0..MAX_SAFE_INTEGER /\ ttl \in 1..MAX_REQUEST_TTL_SECS
  BY <1>1 DEF ValidOptions, IsSafe
<1>4. bid # NoBid
  BY <1>3 DEF NoBid
<1>5. /\ request.created_at = n + k /\ request.content.expires_at = n + k + ttl
      /\ request.tags = RequestTags(request.content, bid)
  BY <1>1 DEF SdkRequest
<1>6. /\ Tagged(request.tags, "bid") = {Len(request.tags)}
      /\ request.tags[Len(request.tags)] = <<"bid", Plain(bid)>>
  BY <1>4, <1>5, BidIsLast
<1> QED BY <1>2, <1>3, <1>5, <1>6

\* A request, from the SDK or from elsewhere, has tags and numbers that can be
\* read.
LEMMA RequestIsTyped ==
    ASSUME WireInv, requestFrom # "nobody"
    PROVE  TypedRequest(request)
<1>1. CASE requestFrom = "other"
  BY <1>1, WireAssumption DEF WireInv, TypedRequest
<1>2. CASE requestFrom = "sdk"
  <2>1. SignedBySdk
    BY <1>2 DEF WireInv
  <2>2. PICK at \in Nat, ttl \in 1..MAX_REQUEST_TTL_SECS, bid \in 0..MAX_SAFE_INTEGER :
              /\ request.created_at = at /\ request.content.expires_at = at + ttl
              /\ Tagged(request.tags, "bid") = {Len(request.tags)}
              /\ request.tags[Len(request.tags)] = <<"bid", Plain(bid)>>
    BY <2>1, SdkRequestParts
  <2>3. Plain(bid) \in Numeral
    BY DEF Plain, Numeral
  <2>4. request.tags[Len(request.tags)][2] = Plain(bid)
    BY <2>2
  <2>5. at + ttl \in Nat
    BY WireLimits
  <2> QED BY <2>2, <2>3, <2>4, <2>5 DEF TypedRequest
<1> QED BY <1>1, <1>2 DEF WireInv

\* parse_request_event and validateRequestEvent agree on every event at every
\* time, although they read numbers, spellings and clocks differently.
THEOREM RequestsAlwaysAgree == Spec => []RequestParity
<1>1. WireInv => RequestParity
  BY RequestIsTyped, SameRequests DEF RequestParity, WireInv
<1> QED BY <1>1, WireAlwaysHolds, PTL

\* Whatever options validateJobOptions lets through, only the provider's clock
\* can make parse_request_event refuse a request the SDK has signed.
THEOREM SdkRequestsAreAccepted == Spec => []SdkRequestAccepted
<1>1. WireInv => SdkRequestAccepted
  <2> SUFFICES ASSUME WireInv, requestFrom = "sdk", Timely(request.created_at, now),
                      ~(request.content.expires_at <= now)
               PROVE  RustParsesRequest(request, now)
    BY DEF SdkRequestAccepted
  <2> DEFINE t == request.tags
  <2>1. SignedBySdk
    BY DEF WireInv
  <2>2. PICK at \in Nat, ttl \in 1..MAX_REQUEST_TTL_SECS, bid \in 0..MAX_SAFE_INTEGER :
              /\ request.created_at = at /\ request.content.expires_at = at + ttl
              /\ Tagged(t, "bid") = {Len(t)}
              /\ t[Len(t)] = <<"bid", Plain(bid)>>
              /\ t = RequestTags(request.content, bid)
    BY <2>1, SdkRequestParts
  <2>3. /\ request.authentic /\ request.kind.role = "request" /\ request.fits /\ request.parses
        /\ request.content.service = request.kind.service /\ request.spelled
        /\ request.content.protocol = "soul-society/1"
        /\ request.content.service = request.content.input.service
        /\ request.content.input.ok
    BY <2>1 DEF SignedBySdk, SdkRequest
  <2>4. RustValidContent(request.content, request.created_at, now)
    <3>1. at + ttl <= U64_MAX /\ at + ttl > now /\ at + ttl >= at
          /\ SaturatingSub(at + ttl, at) <= MAX_REQUEST_TTL_SECS
      BY <2>2, WireAssumption, WireLimits, EventLimits DEF Timely, SaturatingSub, WireInv
    <3> QED BY <2>2, <2>3, <3>1 DEF RustValidContent, Unexpired
  <2>5. t[Len(t)][2] = Plain(bid) /\ Len(t[Len(t)]) = 2 /\ Plain(bid).n = bid
    BY <2>2 DEF Plain
  <2>6. RustReadsBid(t)
    <3>1. bid <= U64_MAX /\ bid <= MAX_SAFE_INTEGER
      BY EventLimits
    <3> QED BY <2>2, <2>5, <3>1 DEF RustReadsBid
  <2>7. BidOf(t) = bid
    BY <2>2, <2>5 DEF BidOf
  <2> QED BY <2>2, <2>3, <2>4, <2>6, <2>7 DEF RustParsesRequest
<1> QED BY <1>1, WireAlwaysHolds, PTL

-----------------------------------------------------------------------------
(* Results.                                                                *)

\* The base URL a provider derives from its configuration is a URL.
LEMMA BaseUrlIsUrl ==
    ASSUME NEW e, e.url \in Url
    PROVE  BaseUrl(e) \in Url
<1>1. <<"">> \in Seq({"", "base", "proof"})
  OBVIOUS
<1>2. LocalUrl \in Url
  BY <1>1 DEF LocalUrl, Url
<1> QED BY <1>2 DEF BaseUrl

\* What Url::join leaves of a path that a slash was added to.
LEMMA AllButAppended ==
    ASSUME NEW S, NEW s \in Seq(S), NEW x \in S
    PROVE  Len(Append(s, x)) - 1 = Len(s) /\ SubSeq(Append(s, x), 1, Len(s)) = s
<1>1. PICK q : q = Append(s, x)
  OBVIOUS
<1>2. q \in Seq(S) /\ Len(q) = Len(s) + 1 /\ \A i \in 1..Len(s) : q[i] = s[i]
  BY <1>1, AppendProperties, Zenon
<1>3. Len(s) \in Nat /\ \A i \in 1..Len(s) : s[i] \in S
  BY LenProperties, ElementOfSeq
<1>4. PICK r : r = SubSeq(q, 1, Len(s))
  OBVIOUS
<1>5. r \in Seq(S) /\ Len(r) = Len(s) /\ \A i \in 1..Len(s) : r[i] = q[i]
  BY <1>2, <1>3, <1>4, SubSeqProperties
<1>6. r = s
  BY <1>2, <1>5, SeqEqual
<1> QED BY <1>1, <1>2, <1>3, <1>4, <1>6

\* Url::join with the base URL as it is normalised: below the configured path,
\* with or without a slash at its end, and on the configured host.
LEMMA JoinedUrl ==
    ASSUME NEW u \in Url, NEW j, j = Join(PublicBaseUrl(u), "proof")
    PROVE  /\ j.credentials = u.credentials /\ j.fragment = "none"
           /\ j.path = Append(IF EndsWithSlash(u) THEN SubSeq(u.path, 1, Len(u.path) - 1) ELSE u.path,
                             "proof")
<1> DEFINE S == {"", "base", "proof"}
           p == u.path
<1>1. p \in Seq(S)
  BY DEF Url
<1>2. CASE EndsWithSlash(u)
  BY <1>2 DEF Join, PublicBaseUrl, Url
<1>3. CASE ~EndsWithSlash(u)
  <2> DEFINE q == Append(p, "")
  <2>1. PublicBaseUrl(u) = [u EXCEPT !.path = q]
    BY <1>3 DEF PublicBaseUrl
  <2>2. Len(q) - 1 = Len(p) /\ SubSeq(q, 1, Len(p)) = p
    <3>1. "" \in S
      OBVIOUS
    <3> HIDE DEF p, S
    <3> QED BY <1>1, <3>1, AllButAppended
  <2>3. j = [[u EXCEPT !.path = q] EXCEPT !.path = Append(SubSeq(q, 1, Len(q) - 1), "proof"),
                                          !.query = FALSE, !.fragment = "none"]
    BY <2>1 DEF Join, Url
  <2>4. j.path = Append(SubSeq(q, 1, Len(q) - 1), "proof")
    BY <2>3 DEF Url
  <2>5. j.credentials = u.credentials /\ j.fragment = "none"
    BY <2>3 DEF Url
  <2> HIDE DEF q
  <2> QED BY <1>3, <2>2, <2>4, <2>5
<1> QED BY <1>2, <1>3

\* A success the provider has validated has a URL the SDK takes as well.
LEMMA SuccessIsValid ==
    ASSUME WireInv, FromEnv(env), RustValidResult(SuccessContent)
    PROVE  SdkValidResult(SuccessContent)
<1> DEFINE u == BaseUrl(env)
           j == Join(PublicBaseUrl(u), "proof")
<1>1. u \in Url /\ ~u.credentials
  BY BaseUrlIsUrl DEF WireInv, FromEnv, ValidPublicBaseUrl
<1>2. RustArtifactUrl(j) /\ 1 <= MAX_SAFE_INTEGER
  BY DEF RustValidResult, SuccessContent
<1>3. ~j.credentials /\ j.fragment # "some"
  BY <1>1, JoinedUrl
<1> HIDE DEF j
<1>4. SdkArtifactUrl(j)
  BY <1>2, <1>3 DEF RustArtifactUrl, SdkArtifactUrl, SdkLoopback
<1>5. IsSafe(1)
  BY <1>2, EventLimits DEF IsSafe
<1> QED BY <1>4, <1>5 DEF SdkValidResult, SuccessContent, j

\* The error result of a provider is one the SDK accepts.
LEMMA ErrorIsValid == SdkValidResult(ErrorContent)
<1>1. ValidMessage(JobErrorNew([printable |-> 20, controls |-> 0]))
  BY EventLimits DEF ValidMessage, JobErrorNew
<1> QED BY <1>1 DEF SdkValidResult, ErrorContent

\* The SDK accepts what the provider signs at any time its stamp allows.
LEMMA ProviderAccepted ==
    ASSUME WireInv PROVE ProviderResultAccepted
<1> SUFFICES ASSUME resultFrom = "provider"
             PROVE  SdkParsesResult(result, request, now + skew)
                      <=> ResultTimely(result.created_at, request.created_at, now + skew)
  BY DEF ProviderResultAccepted
<1>1. PICK at \in 0..MaxNow, c \in {ErrorContent, SuccessContent} :
          /\ c = SuccessContent => RustValidResult(c)
          /\ result = [author |-> KeyOf(env), authentic |-> TRUE,
                       kind |-> [role |-> "result", service |-> request.content.service],
                       fits |-> TRUE, created_at |-> at, shape |-> "exact", spelled |-> TRUE,
                       content |-> c, tags |-> ResultTags(request, Serialized(request), c.status)]
  BY DEF WireInv, SignedByProvider
<1>2. FromEnv(env) /\ request.authentic
  BY DEF WireInv, SignedByProvider
<1>3. /\ result.authentic /\ result.fits /\ result.shape = "exact" /\ result.spelled
      /\ result.kind = [role |-> "result", service |-> request.content.service]
      /\ result.created_at = at /\ result.content = c
      /\ result.tags = ResultTags(request, Serialized(request), c.status)
  BY <1>1
<1>4. IsSafe(at)
  BY WireAssumption, WireLimits, EventLimits DEF IsSafe
<1>5. SdkValidResult(c)
  BY <1>1, <1>2, SuccessIsValid, ErrorIsValid
<1>6. /\ c.request_id = request.id
      /\ c.status = "success" => c.statement.service = request.content.service /\ c.statement.binds
  BY DEF ErrorContent, SuccessContent
<1>7. result.tags[1] = <<"request", Serialized(request)>> /\ Len(result.tags) = 8
  BY <1>3 DEF ResultTags
<1>8. Embeds(result.tags, request) /\ result.tags[1][2] = Serialized(request)
  BY <1>2, <1>7 DEF Embeds, Serialized
<1> QED BY <1>3, <1>4, <1>5, <1>6, <1>8 DEF SdkParsesResult, BoundResult

\* The URL a provider signs is below the base URL it was given.
LEMMA ProviderBelowBase ==
    ASSUME WireInv PROVE ArtifactBelowBase
<1> SUFFICES ASSUME resultFrom = "provider", result.content.status = "success"
             PROVE  LET u == BaseUrl(env)
                    IN  result.content.proof.url.path =
                          Append(IF EndsWithSlash(u) THEN SubSeq(u.path, 1, Len(u.path) - 1) ELSE u.path,
                                 "proof")
  BY DEF ArtifactBelowBase
<1>1. result.content \in {ErrorContent, SuccessContent}
  BY DEF WireInv, SignedByProvider
<1>2. result.content = SuccessContent
  BY <1>1 DEF ErrorContent
<1>3. result.content.proof.url = Join(PublicBaseUrl(BaseUrl(env)), "proof")
  BY <1>2 DEF SuccessContent
<1>4. BaseUrl(env) \in Url
  BY BaseUrlIsUrl DEF WireInv
<1> QED BY <1>3, <1>4, JoinedUrl

\* In production a provider signs with the configured key.
LEMMA ProviderTrusted ==
    ASSUME WireInv PROVE ProductionIsTrusted
<1> SUFFICES ASSUME resultFrom = "provider", env.mode = "production"
             PROVE  result.author = Trusted
  BY DEF ProductionIsTrusted
<1>1. FromEnv(env) /\ result.author = KeyOf(env)
  BY DEF WireInv, SignedByProvider
<1> QED BY <1>1 DEF FromEnv, KeyOf, Trusted

\* Whatever the operator configures, a provider that starts signs results its
\* clients can use: they validate in the SDK at any time their stamp allows, name
\* a proof below the configured base URL, and in production come from the
\* configured key over all restarts.
THEOREM ResultsAlwaysUsable == Spec => []ProviderResultUsable
<1>1. WireInv => ProviderResultUsable
  BY ProviderAccepted, ProviderBelowBase, ProviderTrusted DEF ProviderResultUsable
<1> QED BY <1>1, WireAlwaysHolds, PTL

\* A result in answer to the SDK has numbers that can be compared.
LEMMA ResultIsTyped ==
    ASSUME WireInv, requestFrom = "sdk", resultFrom # "nobody"
    PROVE  /\ result.created_at \in Nat
           /\ result.content.status = "success" => result.content.metrics \in Nat
<1>1. CASE resultFrom = "provider"
  BY <1>1, WireAssumption DEF WireInv, SignedByProvider, ErrorContent, SuccessContent
<1>2. CASE resultFrom = "other"
  <2>1. SignedBySdk /\ result \in ForeignResults(request)
    BY <1>2 DEF WireInv
  <2> QED BY <2>1, WireAssumption DEF SignedBySdk
<1> QED BY <1>1, <1>2 DEF WireInv

\* parse_result_event and validateResultEvent differ in three places only: the
\* SDK also compares the statement's public input, refuses credentials and
\* fragments in a proof URL, and takes any host below localhost for a loopback.
THEOREM ResultsAlwaysAgree == Spec => []ResultParity
<1>1. WireInv => ResultParity
  <2> SUFFICES ASSUME WireInv, requestFrom = "sdk", resultFrom # "nobody" PROVE ResultParity
    BY DEF ResultParity
  <2> DEFINE n == now + skew
             c == result.content
             success == c.status = "success"
             url == c.proof.url
             bound == BoundResult(result, request, n)
             service == success => c.statement.service = request.content.service
             binds == c.statement.binds
             rustUrl == RustArtifactUrl(url)
             sdkUrl == SdkArtifactUrl(url)
             below == url.scheme = "http" /\ url.host = "sub.localhost"
             plain == ~url.credentials /\ url.fragment # "some"
             rest == /\ c.protocol = "soul-society/1"
                     /\ success => c.statement.valid /\ c.proof.meta /\ c.metrics <= MAX_SAFE_INTEGER
                     /\ c.status = "error" => ValidMessage(c.message)
  <2>1. bound => result.shape = "exact" /\ IsSafe(result.created_at)
    <3>1. n + MAX_FUTURE_SKEW_SECS <= MAX_SAFE_INTEGER /\ n \in Int
      BY WireAssumption, WireLimits, EventLimits DEF WireInv
    <3>2. bound => result.shape = "exact" /\ result.created_at <= n + MAX_FUTURE_SKEW_SECS
      BY DEF BoundResult, ResultTimely
    <3> HIDE DEF n, bound
    <3> QED BY <3>1, <3>2, ResultIsTyped, WireLimits, EventLimits DEF IsSafe
  <2>2. success => (IsSafe(c.metrics) <=> c.metrics <= MAX_SAFE_INTEGER)
    BY ResultIsTyped, EventLimits DEF IsSafe
  <2>3. RustParsesResult(result, request, n) <=> bound /\ rest /\ service /\ (success => rustUrl)
    BY <2>1 DEF RustParsesResult, RustValidResult
  <2>4. SdkParsesResult(result, request, n) <=>
          bound /\ rest /\ service /\ (success => binds /\ sdkUrl)
    BY <2>1, <2>2 DEF SdkParsesResult, SdkValidResult
  <2>5. /\ rustUrl /\ plain => sdkUrl
        /\ sdkUrl => plain /\ (rustUrl \/ below)
    BY DEF RustArtifactUrl, SdkArtifactUrl, SdkLoopback, RustLoopback
  <2> HIDE DEF bound, rest, service, success, binds, rustUrl, sdkUrl
  <2>6. /\ RustParsesResult(result, request, n) /\ (success => binds /\ plain)
             => SdkParsesResult(result, request, n)
        /\ SdkParsesResult(result, request, n) /\ success => binds /\ plain
        /\ SdkParsesResult(result, request, n) =>
              RustParsesResult(result, request, n) \/ (success /\ below)
    BY <2>3, <2>4, <2>5
  <2> QED BY <2>6 DEF ResultParity, success, binds
<1> QED BY <1>1, WireAlwaysHolds, PTL
=============================================================================
