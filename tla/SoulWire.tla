------------------------------ MODULE SoulWire ------------------------------
(***************************************************************************)
(* The rules of Soul Wire that depend on clocks: when a provider accepts a *)
(* signed request, and when a client accepts the signed result of one.     *)
(* Times are Unix seconds, as in the event field created_at.               *)
(*                                                                         *)
(* A request is seen through three attributes.  "valid" stands for every   *)
(* check that does not look at a clock: the event's id and signature, its  *)
(* kind, its size, the JSON, the service, the bounds of the input, the     *)
(* canonical encoding and the exact tags.                                  *)
(***************************************************************************)
EXTENDS Integers

CONSTANTS
    MAX_REQUEST_AGE_SECS,   \* how old a request may be when it is parsed
    MAX_FUTURE_SKEW_SECS,   \* how far ahead of the reader a timestamp may be
    MAX_REQUEST_TTL_SECS    \* the longest lifetime a request may ask for

ASSUME WireLimits ==
    /\ MAX_REQUEST_AGE_SECS \in Nat
    /\ MAX_FUTURE_SKEW_SECS \in Nat
    /\ MAX_REQUEST_TTL_SECS \in Nat

\* expires_at of a request that carries no expiry.
NoExpiry == -1

RequestEvent == [valid: BOOLEAN, created_at: Nat, expires_at: Nat \cup {NoExpiry}]

\* u64::saturating_sub.
SaturatingSub(a, b) == IF a > b THEN a - b ELSE 0

\* The two timestamp guards at the head of parse_request_event.
Timely(created_at, now) ==
    /\ created_at <= now + MAX_FUTURE_SKEW_SECS
    /\ SaturatingSub(now, created_at) <= MAX_REQUEST_AGE_SECS

\* The expiry guards of JobRequestContent::validate.
Unexpired(e, now) ==
    e.expires_at # NoExpiry =>
        /\ e.expires_at > now
        /\ e.expires_at >= e.created_at
        /\ SaturatingSub(e.expires_at, e.created_at) <= MAX_REQUEST_TTL_SECS

\* parse_request_event returns Ok for the event e at time now.
AcceptsRequest(e, now) ==
    /\ e.valid
    /\ Timely(e.created_at, now)
    /\ Unexpired(e, now)

\* Mutant: a timestamp ahead of the reader's clock is refused.
ResultNotAhead(created_at, requested_at, now) ==
    /\ created_at >= requested_at
    /\ created_at <= now

\* The timestamp guard of validateResultEvent and of parse_result_event, for a
\* result stamped created_at of a request stamped requested_at.
ResultTimely(created_at, requested_at, now) ==
    /\ created_at >= requested_at
    /\ created_at <= now + MAX_FUTURE_SKEW_SECS
=============================================================================
