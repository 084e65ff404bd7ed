------------------------------- MODULE SoulJob -------------------------------
(***************************************************************************)
(* The life of one job in the SDK (packages/soul-sdk/src/client.ts, class  *)
(* SoulJob): sign and publish a request, wait for its result, fetch the    *)
(* proof and verify it, against cancel(), retry(), timeouts and failures.  *)
(*                                                                         *)
(* JavaScript interleaves only where run() awaits.  The values of pc below *)
(* are those await points, "idle" (no run), "rejected" (the promise it     *)
(* waits on was rejected by an abort listener) and "settling" (run() is    *)
(* over, the finally of start() is not).  Every update() also calls the    *)
(* listeners of the job synchronously; the points of Update are the places *)
(* inside run() and retry() where those listeners run.  What a listener    *)
(* may do there is fixed for a job: the listeners only look, or they are   *)
(* reentrant and may call cancel() or retry() or throw.                    *)
(***************************************************************************)
EXTENDS Integers

CONSTANTS
    PublishRetries,     \* options.publishRetries
    ProofRetries,       \* options.proofRetries
    None,
    MaxRetries          \* bound: calls of retry()

ASSUME JobAssumption ==
    /\ PublishRetries \in Nat /\ ProofRetries \in Nat /\ MaxRetries \in Nat

VARIABLES
    reentrant,          \* whether listeners call back into the job, or throw
    state,              \* snapshot.state
    failure,            \* snapshot.failure, by how it can end
    publishAttempt,     \* snapshot.publishAttempt
    proofAttempt,       \* snapshot.proofAttempt
    verified,           \* whether snapshot.verified is set
    aborted,            \* the signal of the current abortController
    subscribed,         \* unsubscribeResult is set: relays are subscribed
    timer,              \* the result timeout is armed
    pc,                 \* where run() is
    result,             \* the validated result run() works on
    pending,            \* calls of retry() waiting for the failed run
    retries             \* calls of retry() so far

snapshotVars == <<state, failure, publishAttempt, proofAttempt, verified>>
runVars == <<subscribed, timer, result>>
callVars == <<reentrant, pending, retries>>
vars == <<snapshotVars, aborted, runVars, pc, callVars>>

-----------------------------------------------------------------------------

Lifecycle == {"draft", "publishing", "awaiting_result", "result_received",
              "fetching", "verifying", "verified", "failed"}

Failures == {"none", "cancelled", "retryable", "terminal"}

Await == {"signing", "publishing", "publish_delay", "waiting", "fetching",
          "fetch_delay", "verifying"}

\* update() calls inside run(), named for what they report, and the one at the
\* head of a retry.
Update == {"u_draft", "u_publishing", "u_request", "u_publish_attempt",
           "u_awaiting", "u_result", "u_received", "u_fetching",
           "u_proof_attempt", "u_verifying", "u_verified", "u_failed"}

Location == {"idle", "received", "rejected", "settling"} \cup Await \cup Update

\* An authentic, request-bound result: an error of the provider that may be
\* retried or not, or a success.  A success names the trusted program or not,
\* and the bytes with its digest are a proof of its statement or not.
Result == [status: {"success", "retryable", "terminal"}, trusted: BOOLEAN, sound: BOOLEAN]

Init ==
    /\ reentrant \in BOOLEAN
    /\ state = "draft" /\ failure = "none" /\ verified = FALSE
    /\ publishAttempt = 0 /\ proofAttempt = 0
    /\ aborted = FALSE
    /\ subscribed = FALSE /\ timer = FALSE
    /\ result = None
    /\ pc = "idle"
    /\ pending = 0 /\ retries = 0

-----------------------------------------------------------------------------
(* Pieces of run().                                                        *)

\* Mutant: the catch looks for a failure instead of the failed state.
ThrowUnlessFailure(f) ==
    IF failure = "none"
    THEN /\ state' = "failed" /\ failure' = f
         /\ pc' = "u_failed"
         /\ UNCHANGED <<publishAttempt, proofAttempt, verified>>
    ELSE /\ pc' = "settling"
         /\ UNCHANGED snapshotVars

\* An exception reaches the catch of run(): the job fails unless it has.
Throw(f) ==
    IF state # "failed"
    THEN /\ state' = "failed" /\ failure' = f
         /\ pc' = "u_failed"
         /\ UNCHANGED <<publishAttempt, proofAttempt, verified>>
    ELSE /\ pc' = "settling"
         /\ UNCHANGED snapshotVars

\* Mutant: no assertActive() after an await.
AssertNothing(otherwise) == otherwise

\* assertActive().
AssertActive(otherwise) ==
    \/ aborted /\ Throw("cancelled")
    \/ ~aborted /\ otherwise

\* update({ state }).
Enter(s, point) ==
    /\ state' = s /\ pc' = point
    /\ UNCHANGED <<failure, publishAttempt, proofAttempt, verified>>

\* Mutant: the loop publishes again without assertActive().
PublishOnceUnchecked ==
    /\ publishAttempt' = publishAttempt + 1
    /\ pc' = "u_publish_attempt"
    /\ UNCHANGED <<state, failure, proofAttempt, verified>>

\* The head of the loop of publishWithRetry and of fetchWithRetry.
PublishOnce ==
    AssertActive(/\ publishAttempt' = publishAttempt + 1
                 /\ pc' = "u_publish_attempt"
                 /\ UNCHANGED <<state, failure, proofAttempt, verified>>)

FetchOnce ==
    AssertActive(/\ proofAttempt' = proofAttempt + 1
                 /\ pc' = "u_proof_attempt"
                 /\ UNCHANGED <<state, failure, publishAttempt, verified>>)

\* run() goes on after an update() whose listeners returned.
Continue ==
    /\ \/ pc = "u_draft" /\ state = "draft" /\ Enter("publishing", "u_publishing")
       \/ pc = "u_draft" /\ state # "draft" /\ pc' = "idle" /\ UNCHANGED snapshotVars
       \/ pc = "u_publishing" /\ pc' = "signing" /\ UNCHANGED snapshotVars
       \/ pc = "u_request" /\ PublishOnce
       \/ pc = "u_publish_attempt" /\ pc' = "publishing" /\ UNCHANGED snapshotVars
       \/ pc = "u_result" /\ result.status # "success" /\ Throw(result.status)
       \/ pc = "u_result" /\ result.status = "success" /\ Enter("result_received", "u_received")
       \/ pc = "u_received" /\ ~result.trusted /\ Throw("terminal")
       \/ pc = "u_received" /\ result.trusted /\ Enter("fetching", "u_fetching")
       \/ pc = "u_fetching" /\ FetchOnce
       \/ pc = "u_proof_attempt" /\ pc' = "fetching" /\ UNCHANGED snapshotVars
       \/ pc = "u_verifying" /\ pc' = "verifying" /\ UNCHANGED snapshotVars
       \/ pc \in {"u_verified", "u_failed"} /\ pc' = "settling" /\ UNCHANGED snapshotVars
    /\ UNCHANGED <<aborted, runVars, callVars>>

\* Mutant: the wait for a result has no timeout.
WaitForever ==
    /\ pc = "u_awaiting"
    /\ pc' = "waiting"
    /\ subscribed' = TRUE
    /\ UNCHANGED <<snapshotVars, aborted, timer, result, callVars>>

\* waitForResult: the timeout is armed and the relays are subscribed.
WaitForResult ==
    /\ pc = "u_awaiting"
    /\ pc' = "waiting"
    /\ timer' = TRUE /\ subscribed' = TRUE
    /\ UNCHANGED <<snapshotVars, aborted, result, callVars>>

\* The promise of a run that threw in an abort listener.
Rejected ==
    /\ pc = "rejected"
    /\ Throw("cancelled")
    /\ UNCHANGED <<aborted, runVars, callVars>>

\* The finally of start().
Settle ==
    /\ pc = "settling"
    /\ pc' = "idle"
    /\ subscribed' = FALSE
    /\ UNCHANGED <<snapshotVars, aborted, timer, result, callVars>>

-----------------------------------------------------------------------------
(* What run() waits for.  Continuations of retry() run before any of it.   *)

\* signEvent rejects, or the signed event is not the one asked for or has
\* expired meanwhile; or it is a valid request.
SignerReplies ==
    /\ pc = "signing" /\ pending = 0
    /\ \/ Throw("terminal")
       \/ AssertActive(pc' = "u_request" /\ UNCHANGED snapshotVars)
    /\ UNCHANGED <<aborted, runVars, callVars>>

\* One relay accepts, or all refuse.
PublishEnds ==
    /\ pc = "publishing"
    /\ \/ AssertActive(Enter("awaiting_result", "u_awaiting"))
       \/ publishAttempt <= PublishRetries /\ pc' = "publish_delay" /\ UNCHANGED snapshotVars
       \/ publishAttempt > PublishRetries /\ Throw("retryable")
    /\ UNCHANGED <<aborted, runVars, callVars>>

DelayEnds ==
    /\ \/ pc = "publish_delay" /\ PublishOnce
       \/ pc = "fetch_delay" /\ FetchOnce
    /\ UNCHANGED <<aborted, runVars, callVars>>

\* The subscription delivers a valid result: close(), then resolve.  Invalid
\* events leave no trace.
ResultArrives ==
    /\ pc = "waiting" /\ subscribed
    /\ \E r \in Result : result' = r
    /\ timer' = FALSE /\ subscribed' = FALSE
    /\ pc' = "received"
    /\ UNCHANGED <<snapshotVars, aborted, callVars>>

ResultResolved ==
    /\ pc = "received"
    /\ AssertActive(pc' = "u_result" /\ UNCHANGED snapshotVars)
    /\ UNCHANGED <<aborted, runVars, callVars>>

ResultTimeout ==
    /\ pc = "waiting" /\ timer
    /\ timer' = FALSE /\ subscribed' = FALSE
    /\ Throw("retryable")
    /\ UNCHANGED <<aborted, result, callVars>>

\* How one attempt of fetchWithRetry ends: fetchProofArtifact returned bytes
\* with the signed size and digest, or threw an error that is worth another
\* attempt or is not.
FetchOutcome == {"bytes", "transient", "refused"}

FetchEndsWith(outcome) ==
    /\ pc = "fetching"
    /\ \/ outcome = "bytes" /\ AssertActive(Enter("verifying", "u_verifying"))
       \/ /\ outcome = "transient" /\ proofAttempt <= ProofRetries
          /\ pc' = "fetch_delay" /\ UNCHANGED snapshotVars
       \/ outcome = "transient" /\ proofAttempt > ProofRetries /\ Throw("retryable")
       \/ outcome = "refused" /\ Throw("terminal")
    /\ UNCHANGED <<aborted, runVars, callVars>>

FetchEnds == \E outcome \in FetchOutcome : FetchEndsWith(outcome)

\* Mutant: no assertActive() after the verifier returned.
VerifyEndsUnchecked ==
    /\ pc = "verifying"
    /\ \/ /\ result.trusted /\ result.sound
          /\ state' = "verified" /\ verified' = TRUE
          /\ pc' = "u_verified"
          /\ UNCHANGED <<failure, publishAttempt, proofAttempt>>
       \/ ~(result.trusted /\ result.sound) /\ Throw("terminal")
    /\ UNCHANGED <<aborted, runVars, callVars>>

\* verifyProofBytes: the program hash once more, then the WASM verifier.
VerifyEnds ==
    /\ pc = "verifying"
    /\ \/ /\ result.trusted /\ result.sound
          /\ AssertActive(/\ state' = "verified" /\ verified' = TRUE
                          /\ pc' = "u_verified"
                          /\ UNCHANGED <<failure, publishAttempt, proofAttempt>>)
       \/ ~(result.trusted /\ result.sound) /\ Throw("terminal")
    /\ UNCHANGED <<aborted, runVars, callVars>>

-----------------------------------------------------------------------------
(* Calls of the application.                                               *)

Start ==
    /\ pc = "idle" /\ pending = 0 /\ state = "draft"
    /\ Enter("publishing", "u_publishing")
    /\ UNCHANGED <<aborted, runVars, callVars>>

\* The snapshot and the abort controller of a new attempt.
Reset ==
    /\ aborted' = FALSE
    /\ state' = "draft" /\ failure' = "none" /\ verified' = FALSE
    /\ publishAttempt' = 0 /\ proofAttempt' = 0

\* cancel() rejects what run() waits on where an abort listener is in place.
CancelAt(next) ==
    /\ state \notin {"verified", "failed"}
    /\ aborted' = TRUE
    /\ state' = "failed" /\ failure' = "cancelled"
    /\ subscribed' = FALSE
    /\ pc' = next
    /\ UNCHANGED <<publishAttempt, proofAttempt, verified, result, callVars>>

Cancel ==
    /\ pending = 0
    /\ \/ pc \in {"waiting", "publish_delay", "fetch_delay"} /\ CancelAt("rejected") /\ timer' = FALSE
       \/ pc \in {"idle", "signing", "publishing", "received", "fetching", "verifying"}
          /\ CancelAt(pc) /\ UNCHANGED timer

Retryable == state = "failed" /\ failure = "retryable"

\* retry() of a job whose run is over.
Retry ==
    /\ pc = "idle" /\ pending = 0 /\ Retryable /\ retries < MaxRetries
    /\ Reset
    /\ pc' = "u_draft"
    /\ retries' = retries + 1
    /\ UNCHANGED <<runVars, reentrant, pending>>

-----------------------------------------------------------------------------
(* Calls from a listener, while the run is still on the stack or settling. *)

ListenerCancels ==
    /\ reentrant
    /\ pc \in Update
    /\ CancelAt(pc)
    /\ UNCHANGED timer

\* retry() finds the promise of the failed run and waits for it.
ListenerRetries ==
    /\ reentrant
    /\ pc \in {"u_failed", "settling"} /\ Retryable /\ retries < MaxRetries
    /\ pending' = pending + 1 /\ retries' = retries + 1
    /\ UNCHANGED <<snapshotVars, aborted, runVars, pc, reentrant>>

\* The run is over; retry() goes on without looking at the state again.  The
\* first one starts a run, the next one finds it running.
RetryResumes ==
    /\ pending > 0 /\ pc \in {"idle", "signing"}
    /\ Reset
    /\ pending' = pending - 1
    /\ pc' = IF pc = "idle" THEN "u_draft" ELSE pc
    /\ UNCHANGED <<runVars, reentrant, retries>>

\* An exception of a listener leaves update(): it ends retry() or the run.
ListenerThrows ==
    /\ reentrant
    /\ \/ pc = "u_draft" /\ pc' = "idle" /\ UNCHANGED snapshotVars
       \/ pc = "u_failed" /\ pc' = "settling" /\ UNCHANGED snapshotVars
       \/ pc \in Update \ {"u_draft", "u_failed"} /\ Throw("terminal")
    /\ UNCHANGED <<aborted, runVars, callVars>>

-----------------------------------------------------------------------------

\* What happens without the application or its signer doing anything.
RunStep ==
    \/ Continue \/ WaitForResult \/ Rejected \/ Settle \/ RetryResumes
    \/ PublishEnds \/ DelayEnds \/ ResultResolved \/ ResultTimeout
    \/ FetchEnds \/ VerifyEnds

Next ==
    \/ RunStep
    \/ SignerReplies \/ ResultArrives
    \/ Start \/ Cancel \/ Retry
    \/ ListenerCancels \/ ListenerRetries \/ ListenerThrows

Spec == Init /\ [][Next]_vars

\* Promises settle: a publish is bounded by the relay library's timeout, a
\* fetch by proofTimeoutMs, a delay and the wait for a result by setTimeout,
\* and the verifier is a computation.  A signer may wait for its user forever,
\* and no provider has to answer.
FairSpec == Spec /\ WF_vars(RunStep)

-----------------------------------------------------------------------------
(* Properties.                                                             *)

\* The types; publishWithRetry and fetchWithRetry make one attempt more than
\* their retries at most, and run() has a result wherever it reads one.
TypeOK ==
    /\ reentrant \in BOOLEAN
    /\ state \in Lifecycle /\ failure \in Failures /\ verified \in BOOLEAN
    /\ publishAttempt \in 0..(PublishRetries + 1)
    /\ proofAttempt \in 0..(ProofRetries + 1)
    /\ aborted \in BOOLEAN /\ subscribed \in BOOLEAN /\ timer \in BOOLEAN
    /\ pc \in Location
    /\ result \in Result \cup {None}
    /\ pc \in {"received", "u_result", "u_received", "u_fetching", "u_proof_attempt",
               "fetching", "fetch_delay", "u_verifying", "verifying", "u_verified"}
          => result \in Result
    /\ pending \in 0..MaxRetries /\ retries \in 0..MaxRetries

\* "verified" is shown only of a success that names the trusted program and
\* whose proof holds, and never once the job was cancelled.
VerifiedIsSound ==
    state = "verified" =>
        /\ ~aborted
        /\ result \in Result
        /\ result.status = "success" /\ result.trusted /\ result.sound

\* A run never ends in the middle of the lifecycle: when start() settles the
\* job is verified or failed, with a failure to show exactly when it failed.
SettledIsTerminal ==
    pc \in {"settling", "idle"} =>
        /\ state \in {"draft", "verified", "failed"}
        /\ pc = "settling" => state # "draft"
        /\ state = "failed" <=> failure # "none"

\* No subscription and no result timer outlives the run that opened them.
SettledIsClean == pc = "idle" => ~subscribed /\ ~timer

\* With listeners that only look, cancel() itself closes the subscription and
\* the result timeout; it does not wait for the run to notice.
CancelClearsAtOnce == ~reentrant /\ failure = "cancelled" => ~subscribed /\ ~timer

Successor ==
    [draft |-> "publishing", publishing |-> "awaiting_result",
     awaiting_result |-> "result_received", result_received |-> "fetching",
     fetching |-> "verifying", verifying |-> "verified"]

\* The job moves to the next state of the lifecycle, or fails, or goes from a
\* retryable failure back to draft.
MonotonicStep ==
    \/ state \in DOMAIN Successor /\ state' \in {Successor[state], "failed"}
    \/ Retryable /\ state' = "draft"

\* With listeners that only look, the lifecycle is monotonic: neither a
\* cancelled nor a verified job ever moves again, however late the signer, a
\* relay, the download or the verifier answers.
MonotonicUnlessReentrant == [][~reentrant /\ state' # state => MonotonicStep]_vars

\* With such listeners nothing new is begun after cancel(): no publish,
\* subscription, download or verification, whatever the run was waiting on.
NoNewWorkAfterCancel ==
    [][/\ ~reentrant /\ pc' # pc
       /\ pc' \in {"publishing", "waiting", "fetching", "verifying"}
       => ~aborted]_vars

\* Once the signer has answered, the run settles: no reply of a relay, a
\* provider or a proof server is needed for that.
RunSettles == pc \notin {"idle", "signing"} ~> pc \in {"idle", "signing"}
=============================================================================
