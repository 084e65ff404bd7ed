----------------------------- MODULE SoulSociety -----------------------------
(***************************************************************************)
(* A client, the relays and a provider together: the job of the SDK        *)
(* (SoulJob) runs against the provider's pipeline (SignedJobs), on two     *)
(* clocks that may disagree.  Every step of the client is a step of        *)
(* SoulJob and every step of the provider one of SignedJobs; this module   *)
(* adds what passes between them.                                          *)
(*                                                                         *)
(* The id of an event is a hash of its content, so the event run() has     *)
(* signed is named by the second in createdAt: a job that signs twice in   *)
(* one second signs one event.  The other requests in Request, if any,     *)
(* belong to other clients and are on the relays from the start.           *)
(***************************************************************************)
EXTENDS SignedJobs

CONSTANTS
    OwnRequest,         \* [second -> the event run() has signed in it]
    PublishRetries, ProofRetries, MaxRetries,
    Skew                \* how far the client's clock may be ahead

\* The created_at of the event signed in a second is that second.
ASSUME SocietyAssumption ==
    /\ PublishRetries \in Nat /\ ProofRetries \in Nat /\ MaxRetries \in Nat
    /\ Skew \subseteq Int
    /\ None \notin DOMAIN OwnRequest \cup ResultEvent
    /\ \A t \in DOMAIN OwnRequest :
          OwnRequest[t] \in Request /\ Wire[OwnRequest[t]].created_at = t

VARIABLES
    reentrant, state, failure, publishAttempt, proofAttempt, verified, aborted,
    subscribed, timer, jobPc, result, pending, retries,
    skew,           \* the client's clock is the provider's plus this
    relays,         \* request events some relay holds
    request,        \* the event the current run has signed or is signing
    seen,           \* result events the current wait has looked at
    accepted,       \* the result event the current run goes on with
    \* History, read by no action.
    startedAt,      \* the client's clock when the current run began
    earlierStarts,  \* the same of earlier runs
    answersBefore   \* result events that existed when the current run began

Job == INSTANCE SoulJob WITH pc <- jobPc

jobVars == <<reentrant, state, failure, publishAttempt, proofAttempt, verified, aborted,
             subscribed, timer, jobPc, result, pending, retries>>
runHistory == <<startedAt, earlierStarts, answersBefore>>
clientVars == <<jobVars, request, seen, accepted, runHistory>>
societyVars == <<vars, clientVars, skew, relays>>

-----------------------------------------------------------------------------

Own == {OwnRequest[t] : t \in DOMAIN OwnRequest}

\* client.now().
ClientNow == now + skew

SocietyInit ==
    /\ Init /\ now = 1
    /\ Job!Init /\ ~reentrant
    /\ skew \in Skew
    /\ relays = Request \ Own
    /\ request = None /\ seen = {} /\ accepted = None
    /\ startedAt = None /\ earlierStarts = {} /\ answersBefore = {}

-----------------------------------------------------------------------------
(* The client.                                                             *)

\* Mutant: retry() keeps the createdAt of the first run.
BeginRunOnce ==
    /\ Job!Start \/ Job!Continue
    /\ jobPc' = "u_publishing"
    /\ ClientNow \in DOMAIN OwnRequest
    /\ request' = IF request = None THEN OwnRequest[ClientNow] ELSE request
    /\ startedAt' = ClientNow
    /\ earlierStarts' = IF startedAt = None THEN {} ELSE earlierStarts \cup {startedAt}
    /\ answersBefore' = ResultEvents
    /\ seen' = {} /\ accepted' = None
    /\ UNCHANGED <<vars, skew, relays>>

\* run() begins, from start() or from retry(): it reads the clock once.
BeginRun ==
    /\ Job!Start \/ Job!Continue
    /\ jobPc' = "u_publishing"
    /\ ClientNow \in DOMAIN OwnRequest
    /\ request' = OwnRequest[ClientNow]
    /\ startedAt' = ClientNow
    /\ earlierStarts' = IF startedAt = None THEN {} ELSE earlierStarts \cup {startedAt}
    /\ answersBefore' = ResultEvents
    /\ seen' = {} /\ accepted' = None
    /\ UNCHANGED <<vars, skew, relays>>

\* The signed event is checked once more, against the clock of that moment.
Signed ==
    /\ Job!SignerReplies
    /\ jobPc' = "u_request" => AcceptsRequest(Wire[request], ClientNow)
    /\ UNCHANGED <<vars, skew, relays, request, seen, accepted, runHistory>>

\* A relay takes the request; its OK may be lost, or be on its way still.
RelayTakesRequest ==
    /\ jobPc = "publishing"
    /\ relays' = relays \cup {request}
    /\ UNCHANGED <<vars, clientVars, skew>>

\* publish() resolves only after some relay has taken the request.
PublishReturns ==
    /\ Job!PublishEnds
    /\ jobPc' = "u_awaiting" => request \in relays
    /\ UNCHANGED <<vars, skew, relays, request, seen, accepted, runHistory>>

\* Mutant: the subscription asks for results from now on.
MatchesSinceNow(e) == e.req = request /\ e.created_at >= ClientNow

\* Mutant: nothing ties a result to the request of this run.
MatchesAnyRequest(e) == e.created_at >= Wire[request].created_at

\* The filter of the subscription, which a relay applies to what it stores; the
\* validation of an event binds it to the request once more.
Matches(e) == e.req = request /\ e.created_at >= Wire[request].created_at

\* What run() sees of a signed result: every code the provider uses is one of
\* RETRYABLE_PROVIDER_ERRORS.  The provider's engine is pinned to the program
\* hash the client trusts.
JobResult(e) ==
    [status |-> IF e.content.code = "success" THEN "success" ELSE "retryable",
     trusted |-> TRUE,
     sound |-> e.content.code = "success" /\ e.content.proof = e.req]

\* A relay delivers a result it holds: the callback of waitForResult looks at
\* each event once, and settles the wait or ignores the event for good.
DeliverResult ==
    /\ jobPc = "waiting" /\ subscribed
    /\ \E e \in published :
          /\ Matches(e) /\ e \notin seen
          /\ seen' = seen \cup {e}
          /\ \/ /\ ResultTimely(e.created_at, Wire[request].created_at, ClientNow)
                /\ Job!ResultArrives /\ result' = JobResult(e)
                /\ accepted' = e
             \/ /\ ~ResultTimely(e.created_at, Wire[request].created_at, ClientNow)
                /\ UNCHANGED <<jobVars, accepted>>
    /\ UNCHANGED <<vars, skew, relays, request, runHistory>>

\* The proof comes from the provider's store.
FetchReturns ==
    /\ Job!FetchEnds
    /\ jobPc' = "u_verifying" => accepted.content.proof \in stored
    /\ UNCHANGED <<vars, skew, relays, request, seen, accepted, runHistory>>

\* The steps of the job that touch nothing but the job.  The result timer is
\* one of them.
JobStep ==
    \/ Job!Continue /\ jobPc' # "u_publishing"
    \/ Job!WaitForResult \/ Job!Rejected \/ Job!Settle \/ Job!ResultResolved
    \/ Job!DelayEnds \/ Job!VerifyEnds

Application == Job!Cancel \/ Job!Retry \/ Job!ResultTimeout

ClientStep ==
    /\ JobStep \/ Application
    /\ UNCHANGED <<vars, skew, relays, request, seen, accepted, runHistory>>

-----------------------------------------------------------------------------
(* The provider.                                                           *)

\* run() is between two awaits.  It shares nothing with the provider there, so
\* the provider's steps commute with it and are taken before or after.
Running == jobPc \in Job!Update \cup {"received", "rejected", "settling"}

\* A relay delivers a request it holds, any number of times.  A delivery that
\* finds no dispatch slot changes nothing.
DeliverRequest ==
    /\ ~Running
    /\ \E r \in relays, s \in Slot : Dispatch(s, r)
    /\ UNCHANGED <<clientVars, skew, relays>>

ProviderStep(s) ==
    /\ ~Running
    /\ TaskStep(s)
    /\ UNCHANGED <<clientVars, skew, relays>>

Environment ==
    /\ ~Running
    /\ Tick \/ Restart
    /\ UNCHANGED <<clientVars, skew, relays>>

-----------------------------------------------------------------------------

SocietyNext ==
    \/ BeginRun \/ Signed \/ RelayTakesRequest \/ PublishReturns
    \/ DeliverResult \/ FetchReturns \/ ClientStep
    \/ DeliverRequest
    \/ \E s \in Slot : ProviderStep(s)
    \/ Environment

Society == SocietyInit /\ [][SocietyNext]_societyVars

\* A relay that holds a result sends it to a subscriber; nothing is assumed of
\* timers, of the signer, or of the delivery of requests.
FairSociety == Society /\ WF_societyVars(DeliverResult)

-----------------------------------------------------------------------------
(* Properties.                                                             *)

\* What a user sees as verified was really proved: the provider ran a proof
\* for the very request this run signed and has it in its store, whatever
\* retries, replays, restarts and duplicate deliveries came before.
VerifiedWasProved ==
    state = "verified" =>
        /\ accepted.req = request
        /\ request \in stored /\ proofs[request] > 0

\* The provider's clock is level with the client's or ahead of it by no more
\* than the allowed skew.
ClocksAgree == skew \in -MAX_FUTURE_SKEW_SECS..0

\* A result that was looked at and refused is never looked at again; only a
\* provider that is further ahead than the skew can lose an answer that way.
RefusedOnlyIfFarAhead ==
    jobPc = "waiting" /\ seen # {} => skew < -MAX_FUTURE_SKEW_SECS

\* A run is settled by an answer that is older than the run only when the job
\* has begun twice in the same second: then both runs sign one event, and the
\* provider replays what it answered the first.
OldAnswerOnlySameSecond ==
    accepted # None /\ accepted \in answersBefore => startedAt \in earlierStarts

\* An answer that was published before the client subscribed, or at any other
\* moment, reaches a client that waits long enough.
AnswerIsReceived ==
    (/\ ClocksAgree /\ jobPc = "waiting"
     /\ \E e \in published : e.req = request) ~> jobPc # "waiting"
=============================================================================
