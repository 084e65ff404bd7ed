----------------------------- MODULE MCWirePath -----------------------------
(***************************************************************************)
(* Events around the edges of a small wire: a largest safe integer of 6, a *)
(* largest u64 of 7.  The checks of a parser are a conjunction, so it is   *)
(* enough to vary the envelope of an event with its content fixed, and its *)
(* content with the envelope fixed.                                        *)
(***************************************************************************)
EXTENDS WirePath

CONSTANTS fib, hash

\* Four flags of which one at most is down.
OneDown == {f \in [1..4 -> BOOLEAN] : \E i \in 1..4 : \A j \in 1..4 \ {i} : f[j]}

Kinds == [role: {"request", "result"}, service: {fib, hash}]

\* Tag lists that other programs write instead of the canonical list.
Rewrites(tags) ==
    LET n == Len(tags)
        rest == SubSeq(tags, 2, n)
    IN  {tags, rest, Append(tags, tags[n]), Append(rest, tags[1])}

Bids == [form: {"plain", "padded", "signed"}, n: {0, 6, 7, 8}]

RequestTagLists(c) ==
    UNION {Rewrites(RequestTags(c, bid)) : bid \in {NoBid, 1}}
    \cup {Append(RequestTags(c, NoBid), <<"bid", b>>) : b \in Bids}
    \cup {Append(RequestTags(c, NoBid), <<"bid", Plain(1), Plain(1)>>)}

RequestOf(f, kind, at, c, tags) ==
    [id |-> "foreign", author |-> "other", authentic |-> f[1], kind |-> kind,
     fits |-> f[2], created_at |-> at, parses |-> f[3], content |-> c,
     spelled |-> f[4], tags |-> tags]

ContentOf(protocol, service, ok, expires_at) ==
    [protocol |-> protocol, service |-> fib, input |-> [service |-> service, ok |-> ok],
     expires_at |-> expires_at]

BaseContent == ContentOf("soul-society/1", fib, TRUE, NoExpiry)
RequestKind == [role |-> "request", service |-> fib]
AllUp == [i \in 1..4 |-> TRUE]

MCForeignRequests ==
    {RequestOf(f, RequestKind, at, BaseContent, RequestTags(BaseContent, NoBid)) :
        f \in OneDown, at \in 0..7}
    \cup {RequestOf(AllUp, k, at, BaseContent, tags) :
        k \in Kinds, at \in 0..7, tags \in RequestTagLists(BaseContent)}
    \cup UNION {{RequestOf(AllUp, RequestKind, at, c, RequestTags(c, NoBid)) : at \in 0..7} :
        c \in {ContentOf(p, s, ok, x) : p \in {"soul-society/1", "other"}, s \in {fib, hash},
                                        ok \in BOOLEAN, x \in {NoExpiry} \cup 0..8}}

Urls == [scheme: {"https", "http", "other"},
         host: {"none", "public", "localhost", "sub.localhost", "127.0.0.1", "[::1]"},
         credentials: BOOLEAN, query: {FALSE}, fragment: {"none", "empty", "some"},
         path: {<<"proof">>}]

GoodUrl == [scheme |-> "https", host |-> "public", credentials |-> FALSE, query |-> FALSE,
            fragment |-> "none", path |-> <<"proof">>]

ResultOf(f, shape, kind, at, c, tags) ==
    [author |-> "configured", authentic |-> f[1], kind |-> kind, fits |-> f[2],
     created_at |-> at, shape |-> shape, spelled |-> f[3], content |-> c, tags |-> tags]

Success(id, service, valid, binds, meta, url, metrics) ==
    [status |-> "success", protocol |-> "soul-society/1", request_id |-> id,
     statement |-> [service |-> service, valid |-> valid, binds |-> binds],
     proof |-> [meta |-> meta, url |-> url], metrics |-> metrics]

Contents(service) ==
    {Success("own", service, TRUE, TRUE, TRUE, u, 1) : u \in Urls}
    \cup {Success(id, s, v, b, m, GoodUrl, x) :
            id \in {"own", "foreign"}, s \in Service, v \in BOOLEAN, b \in BOOLEAN,
            m \in BOOLEAN, x \in {1, 6, 7}}
    \cup {[status |-> "error", protocol |-> p, request_id |-> "own",
           message |-> [printable |-> n, controls |-> k]] :
            p \in {"soul-society/1", "other"}, n \in {0, 1, 20, 21}, k \in 0..1}

MCForeignResults(r) ==
    LET service == r.content.service
        kind == [role |-> "result", service |-> service]
        good == Success("own", service, TRUE, TRUE, TRUE, GoodUrl, 1)
        embedded == {Serialized(r), [event |-> r, exact |-> FALSE],
                     Serialized([r EXCEPT !.authentic = FALSE]), Serialized([r EXCEPT !.created_at = @ + 1])}
    IN  {ResultOf(f, s, kind, at, good, ResultTags(r, Serialized(r), "success")) :
            f \in OneDown, s \in {"exact", "extra", "broken"}, at \in 0..7}
        \cup {ResultOf(AllUp, "exact", k, at, good, tags) :
            k \in Kinds, at \in {0, 1, 7},
            tags \in UNION {Rewrites(ResultTags(r, x, "success")) : x \in embedded}}
        \cup {ResultOf(AllUp, "exact", kind, r.created_at, c,
                       ResultTags(r, Serialized(r), c.status)) : c \in Contents(service)}

BaseUrls ==
    {Unset} \cup
    [scheme: {"https", "http"}, host: {"public", "localhost", "sub.localhost"},
     credentials: BOOLEAN, query: BOOLEAN, fragment: {"none", "empty", "some"},
     path: {<<"">>, <<"base">>, <<"base", "">>}]

Env(mode, relays, secret, url, proofs, trusted) ==
    [mode |-> mode, relays |-> relays, secret |-> secret, url |-> url,
     proofs |-> proofs, trusted |-> trusted]

\* Every base URL, and with a good one every other variable.
Environments ==
    {Env(m, "wss", "inline", u, 1, TRUE) : m \in {"production", "development"}, u \in BaseUrls}
    \cup {Env(m, r, s, [GoodUrl EXCEPT !.path = <<"">>], 1, TRUE) :
            m \in {"production", "development", "test"},
            r \in {"unset", "empty", "malformed", "ws", "wss"},
            s \in {"none", "inline", "file", "both", "unreadable"}}
    \cup {Env("test", "wss", "none", Unset, p, t) : p \in {0, 1, 16, 17}, t \in BOOLEAN}

\* Other programs do not care how the provider is configured.
MCScenarios ==
    {[env |-> e, others |-> FALSE] : e \in Environments}
    \cup {[env |-> Env("test", "wss", "inline", Unset, 1, TRUE), others |-> TRUE]}

MCSkew == {-2, -1, 0, 1}
=============================================================================
