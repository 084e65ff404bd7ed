---------------------------- MODULE SoulJobProofs ----------------------------
(***************************************************************************)
(* Safety of one job of the SDK, for every number of publish, proof and    *)
(* job retries, with listeners that only look and with reentrant ones.     *)
(***************************************************************************)
EXTENDS SoulJob, TLAPS

-----------------------------------------------------------------------------
(* The inductive invariant.                                                *)

\* Where run() is before its first publish, and before its first fetch.
BeforePublish == {"u_draft", "u_publishing", "signing", "u_request"}
BeforeFetch ==
    BeforePublish \cup {"u_publish_attempt", "publishing", "publish_delay", "u_awaiting",
                        "waiting", "received", "u_result", "u_received", "u_fetching"}

\* The attempts of a run are counted from 0, and a delay comes only before an
\* attempt that is left.
AttemptsInv ==
    /\ pc \in BeforePublish => publishAttempt = 0
    /\ pc \in BeforeFetch => proofAttempt = 0
    /\ pc = "idle" /\ state = "draft" => publishAttempt = 0 /\ proofAttempt = 0
    /\ pc = "publish_delay" => publishAttempt <= PublishRetries
    /\ pc = "fetch_delay" => proofAttempt <= ProofRetries
    /\ pending <= retries

\* State and failure agree, except that a listener that cancels just before
\* update({ state: "result_received" }) is overwritten by it until the next
\* assertActive().
FailureInv ==
    /\ state = "failed" => failure # "none"
    /\ state = "draft" => failure = "none" /\ ~aborted
    /\ aborted => failure # "none"
    /\ state = "failed" /\ ~aborted => pc \in {"u_failed", "settling", "idle"}
    /\ failure # "none" /\ state # "failed" => aborted /\ pc \in {"u_received", "u_fetching"}
    /\ pc = "u_draft" => state \in {"draft", "failed"}
    /\ pc = "u_verified" => state = "verified"
    /\ pc = "u_failed" => state = "failed"
    /\ pc = "settling" => state \in {"verified", "failed"}
    /\ pc = "idle" => state \in {"draft", "verified", "failed"}

\* A run that is past its result works on a success, and one that shows
\* "verified" is past its last use of the result.
ResultInv ==
    /\ pc \in {"u_received", "u_fetching", "u_proof_attempt", "fetching", "fetch_delay",
               "u_verifying", "verifying"} => result.status = "success"
    /\ state = "verified" => pc \in {"u_verified", "settling", "idle"}
    /\ VerifiedIsSound

\* The subscription and the timer exist only while run() waits for the result.
WaitInv == subscribed \/ timer => pc = "waiting"

\* With listeners that only look, a cancelled job is failed for good and its run
\* is at the await it was cancelled at or on its way out, and the state of any
\* other run is the one its place in run() gives it.
QuietInv ==
    ~reentrant =>
        /\ pending = 0
        /\ aborted =>
              /\ state = "failed" /\ failure = "cancelled"
              /\ pc \in {"idle", "signing", "publishing", "publish_delay", "received",
                         "fetching", "fetch_delay", "verifying", "rejected", "settling",
                         "u_failed"}
        /\ ~aborted =>
              /\ pc \in {"u_publishing", "signing", "u_request", "u_publish_attempt",
                         "publishing", "publish_delay"} => state = "publishing"
              /\ pc \in {"u_awaiting", "waiting", "received", "u_result"} =>
                    state = "awaiting_result"
              /\ pc = "u_received" => state = "result_received"
              /\ pc \in {"u_fetching", "u_proof_attempt", "fetching", "fetch_delay"} =>
                    state = "fetching"
              /\ pc \in {"u_verifying", "verifying"} => state = "verifying"
              /\ pc # "rejected"

JobInv ==
    /\ TypeOK
    /\ AttemptsInv
    /\ FailureInv
    /\ ResultInv
    /\ WaitInv
    /\ QuietInv

-----------------------------------------------------------------------------
(* Every step keeps it.                                                    *)

\* Counters that start at 0 are within their bounds.
LEMMA ZeroInBounds ==
    0 \in 0..(PublishRetries + 1) /\ 0 \in 0..(ProofRetries + 1) /\ 0 \in 0..MaxRetries
BY JobAssumption

\* A job that was just created.
LEMMA InitJob == Init => JobInv
<1> SUFFICES ASSUME Init PROVE JobInv
  OBVIOUS
<1> USE JobAssumption DEF Init
<1>1. TypeOK
  BY ZeroInBounds DEF TypeOK, Lifecycle, Failures, Location
<1>2. AttemptsInv
  BY DEF AttemptsInv, BeforePublish, BeforeFetch
<1>3. FailureInv
  BY DEF FailureInv
<1>4. ResultInv
  BY DEF ResultInv, VerifiedIsSound
<1>5. WaitInv
  BY DEF WaitInv
<1>6. QuietInv
  BY DEF QuietInv
<1> QED BY <1>1, <1>2, <1>3, <1>4, <1>5, <1>6 DEF JobInv

\* The catch of run(), wherever it is reached from.
LEMMA ThrowKeeps ==
    ASSUME JobInv, NEW f \in Failures \ {"none"}, Throw(f),
           pc \notin {"idle", "settling", "u_failed", "u_draft"},
           state = "verified" => reentrant,
           UNCHANGED <<aborted, result, callVars>>,
           subscribed' \in BOOLEAN, timer' \in BOOLEAN, ~subscribed' /\ ~timer'
    PROVE  JobInv'
<1> USE JobAssumption DEF callVars, snapshotVars, Throw, JobInv
<1>1. TypeOK'
  BY DEF TypeOK, Lifecycle, Failures, Location, Await, Update
<1>2. AttemptsInv'
  BY DEF AttemptsInv, BeforePublish, BeforeFetch
<1>3. FailureInv'
  BY DEF FailureInv, Failures
<1>4. ResultInv'
  BY DEF ResultInv, VerifiedIsSound
<1>5. WaitInv'
  BY DEF WaitInv
<1>6. QuietInv'
  BY DEF QuietInv, FailureInv
<1> QED BY <1>1, <1>2, <1>3, <1>4, <1>5, <1>6

\* run() after an update().
LEMMA ContinueKeeps ==
    ASSUME JobInv, Continue
    PROVE  JobInv'
<1> USE JobAssumption DEF callVars, snapshotVars, runVars, JobInv
<1>a. subscribed = FALSE /\ timer = FALSE /\ pc \in Update
  BY DEF Continue, WaitInv, TypeOK, Update
<1>b. "cancelled" \in Failures \ {"none"} /\ "terminal" \in Failures \ {"none"}
  BY DEF Failures
<1>1. ASSUME NEW f \in Failures \ {"none"}, Throw(f),
             pc \in {"u_request", "u_result", "u_received", "u_fetching"}
      PROVE  JobInv'
  <2>1. state # "verified"
    BY <1>1 DEF ResultInv
  <2> QED BY <1>1, <1>a, <2>1, ThrowKeeps DEF Continue
<1>2. CASE pc = "u_draft"
  BY <1>2, <1>a
  DEF Continue, Enter, TypeOK, AttemptsInv, FailureInv, ResultInv, WaitInv, QuietInv,
      VerifiedIsSound, Lifecycle, Failures, Location, Await, Update, BeforePublish, BeforeFetch
<1>3. CASE pc = "u_publishing"
  BY <1>3, <1>a
  DEF Continue, TypeOK, AttemptsInv, FailureInv, ResultInv, WaitInv, QuietInv,
      VerifiedIsSound, Location, Await, Update, BeforePublish, BeforeFetch
<1>4. CASE pc = "u_request"
  <2>1. CASE aborted
    BY <1>4, <2>1, <1>1, <1>b DEF Continue, PublishOnce, AssertActive
  <2>2. CASE ~aborted
    BY <1>4, <2>2, <1>a
    DEF Continue, PublishOnce, AssertActive, TypeOK, AttemptsInv, FailureInv, ResultInv,
        WaitInv, QuietInv, VerifiedIsSound, Location, Await, Update, BeforePublish, BeforeFetch
  <2> QED BY <2>1, <2>2
<1>5. CASE pc = "u_publish_attempt"
  BY <1>5, <1>a
  DEF Continue, TypeOK, AttemptsInv, FailureInv, ResultInv, WaitInv, QuietInv,
      VerifiedIsSound, Location, Await, Update, BeforePublish, BeforeFetch
<1>6. CASE pc = "u_result"
  <2>1. CASE result.status # "success"
    <3>1. result.status \in Failures \ {"none"}
      BY <1>6, <2>1 DEF TypeOK, Result, Failures
    <3> QED BY <1>6, <2>1, <3>1, <1>1 DEF Continue
  <2>2. CASE result.status = "success"
    BY <1>6, <2>2, <1>a
    DEF Continue, Enter, TypeOK, AttemptsInv, FailureInv, ResultInv, WaitInv, QuietInv,
        VerifiedIsSound, Lifecycle, Location, Await, Update, BeforePublish, BeforeFetch
  <2> QED BY <2>1, <2>2
<1>7. CASE pc = "u_received"
  <2>1. CASE ~result.trusted
    BY <1>7, <2>1, <1>1, <1>b DEF Continue
  <2>2. CASE result.trusted
    BY <1>7, <2>2, <1>a
    DEF Continue, Enter, TypeOK, AttemptsInv, FailureInv, ResultInv, WaitInv, QuietInv,
        VerifiedIsSound, Lifecycle, Location, Await, Update, BeforePublish, BeforeFetch
  <2> QED BY <2>1, <2>2
<1>8. CASE pc = "u_fetching"
  <2>1. CASE aborted
    BY <1>8, <2>1, <1>1, <1>b DEF Continue, FetchOnce, AssertActive
  <2>2. CASE ~aborted
    BY <1>8, <2>2, <1>a
    DEF Continue, FetchOnce, AssertActive, TypeOK, AttemptsInv, FailureInv, ResultInv,
        WaitInv, QuietInv, VerifiedIsSound, Location, Await, Update, BeforePublish, BeforeFetch
  <2> QED BY <2>1, <2>2
<1>9. CASE pc \in {"u_proof_attempt", "u_verifying", "u_verified", "u_failed"}
  BY <1>9, <1>a
  DEF Continue, TypeOK, AttemptsInv, FailureInv, ResultInv, WaitInv, QuietInv,
      VerifiedIsSound, Location, Await, Update, BeforePublish, BeforeFetch
<1> QED BY <1>2, <1>3, <1>4, <1>5, <1>6, <1>7, <1>8, <1>9 DEF Continue

\* What run() waits for.
LEMMA AwaitKeeps ==
    ASSUME JobInv,
           \/ WaitForResult \/ Rejected \/ Settle \/ SignerReplies \/ PublishEnds \/ DelayEnds
           \/ ResultArrives \/ ResultResolved \/ ResultTimeout \/ FetchEnds \/ VerifyEnds
    PROVE  JobInv'
<1> USE JobAssumption DEF callVars, snapshotVars, runVars, JobInv
<1>a. pc # "waiting" => subscribed = FALSE /\ timer = FALSE
  BY DEF WaitInv, TypeOK
<1>b. /\ "cancelled" \in Failures \ {"none"} /\ "terminal" \in Failures \ {"none"}
      /\ "retryable" \in Failures \ {"none"}
  BY DEF Failures
<1>c. ASSUME NEW f \in Failures \ {"none"}, Throw(f),
             pc \in Await \cup {"received", "rejected"},
             UNCHANGED <<aborted, result, callVars>>,
             subscribed' = FALSE /\ timer' = FALSE
      PROVE  JobInv'
  <2>1. state # "verified" /\ pc \notin {"idle", "settling", "u_failed", "u_draft"}
    BY <1>c DEF ResultInv, Await
  <2> QED BY <1>c, <2>1, ThrowKeeps
<1>1. CASE WaitForResult
  BY <1>1
  DEF WaitForResult, TypeOK, AttemptsInv, FailureInv, ResultInv, WaitInv, QuietInv,
      VerifiedIsSound, Location, Await, Update, BeforePublish, BeforeFetch
<1>2. CASE Rejected
  BY <1>2, <1>a, <1>b, <1>c DEF Rejected
<1>3. CASE Settle
  BY <1>3, <1>a
  DEF Settle, TypeOK, AttemptsInv, FailureInv, ResultInv, WaitInv, QuietInv,
      VerifiedIsSound, Location, Await, Update, BeforePublish, BeforeFetch
<1>4. CASE SignerReplies
  <2>1. ASSUME NEW f \in {"terminal", "cancelled"}, Throw(f) PROVE JobInv'
    BY <1>4, <2>1, <1>a, <1>b, <1>c DEF SignerReplies, Await
  <2>2. CASE ~aborted /\ pc' = "u_request" /\ UNCHANGED snapshotVars
    BY <1>4, <1>a, <2>2
    DEF SignerReplies, TypeOK, AttemptsInv, FailureInv, ResultInv, WaitInv, QuietInv,
        VerifiedIsSound, Location, Await, Update, BeforePublish, BeforeFetch
  <2> QED BY <1>4, <2>1, <2>2 DEF SignerReplies, AssertActive
<1>5. CASE PublishEnds
  <2>1. ASSUME NEW f \in {"retryable", "cancelled"}, Throw(f) PROVE JobInv'
    BY <1>5, <2>1, <1>a, <1>b, <1>c DEF PublishEnds, Await
  <2>2. CASE ~aborted /\ Enter("awaiting_result", "u_awaiting")
    BY <1>5, <1>a, <2>2
    DEF PublishEnds, Enter, TypeOK, AttemptsInv, FailureInv, ResultInv, WaitInv, QuietInv,
        VerifiedIsSound, Lifecycle, Location, Await, Update, BeforePublish, BeforeFetch
  <2>3. CASE publishAttempt <= PublishRetries /\ pc' = "publish_delay" /\ UNCHANGED snapshotVars
    BY <1>5, <1>a, <2>3
    DEF PublishEnds, TypeOK, AttemptsInv, FailureInv, ResultInv, WaitInv, QuietInv,
        VerifiedIsSound, Location, Await, Update, BeforePublish, BeforeFetch
  <2> QED BY <1>5, <2>1, <2>2, <2>3 DEF PublishEnds, AssertActive
<1>6. CASE DelayEnds
  <2>1. CASE aborted
    BY <1>6, <2>1, <1>a, <1>b, <1>c DEF DelayEnds, PublishOnce, FetchOnce, AssertActive, Await
  <2>2. CASE ~aborted /\ pc = "publish_delay"
    BY <1>6, <1>a, <2>2
    DEF DelayEnds, PublishOnce, AssertActive, TypeOK, AttemptsInv, FailureInv, ResultInv,
        WaitInv, QuietInv, VerifiedIsSound, Location, Await, Update, BeforePublish, BeforeFetch
  <2>3. CASE ~aborted /\ pc = "fetch_delay"
    BY <1>6, <1>a, <2>3
    DEF DelayEnds, FetchOnce, AssertActive, TypeOK, AttemptsInv, FailureInv, ResultInv,
        WaitInv, QuietInv, VerifiedIsSound, Location, Await, Update, BeforePublish, BeforeFetch
  <2> QED BY <1>6, <2>1, <2>2, <2>3 DEF DelayEnds
<1>7. CASE ResultArrives
  BY <1>7
  DEF ResultArrives, TypeOK, AttemptsInv, FailureInv, ResultInv, WaitInv, QuietInv,
      VerifiedIsSound, Location, Await, Update, BeforePublish, BeforeFetch
<1>8. CASE ResultResolved
  <2>1. CASE aborted
    BY <1>8, <2>1, <1>a, <1>b, <1>c DEF ResultResolved, AssertActive
  <2>2. CASE ~aborted
    BY <1>8, <1>a, <2>2
    DEF ResultResolved, AssertActive, TypeOK, AttemptsInv, FailureInv, ResultInv, WaitInv,
        QuietInv, VerifiedIsSound, Location, Await, Update, BeforePublish, BeforeFetch
  <2> QED BY <2>1, <2>2
<1>9. CASE ResultTimeout
  BY <1>9, <1>b, <1>c DEF ResultTimeout, Await
<1>10. CASE FetchEnds
  <2>1. ASSUME NEW f \in {"retryable", "cancelled", "terminal"}, Throw(f) PROVE JobInv'
    BY <1>10, <2>1, <1>a, <1>b, <1>c DEF FetchEnds, FetchEndsWith, Await
  <2>2. CASE ~aborted /\ Enter("verifying", "u_verifying")
    BY <1>10, <1>a, <2>2
    DEF FetchEnds, FetchEndsWith, Enter, TypeOK, AttemptsInv, FailureInv, ResultInv, WaitInv,
        QuietInv, VerifiedIsSound, Lifecycle, Location, Await, Update, BeforePublish, BeforeFetch
  <2>3. CASE proofAttempt <= ProofRetries /\ pc' = "fetch_delay" /\ UNCHANGED snapshotVars
    BY <1>10, <1>a, <2>3
    DEF FetchEnds, FetchEndsWith, TypeOK, AttemptsInv, FailureInv, ResultInv, WaitInv,
        QuietInv, VerifiedIsSound, Location, Await, Update, BeforePublish, BeforeFetch
  <2> QED BY <1>10, <2>1, <2>2, <2>3 DEF FetchEnds, FetchEndsWith, AssertActive
<1>11. CASE VerifyEnds
  <2>1. ASSUME NEW f \in {"cancelled", "terminal"}, Throw(f) PROVE JobInv'
    BY <1>11, <2>1, <1>a, <1>b, <1>c DEF VerifyEnds, Await
  <2>2. CASE /\ ~aborted /\ result.trusted /\ result.sound
             /\ state' = "verified" /\ verified' = TRUE /\ pc' = "u_verified"
             /\ UNCHANGED <<failure, publishAttempt, proofAttempt>>
    BY <1>11, <1>a, <2>2
    DEF VerifyEnds, TypeOK, AttemptsInv, FailureInv, ResultInv, WaitInv, QuietInv,
        VerifiedIsSound, Lifecycle, Location, Await, Update, BeforePublish, BeforeFetch
  <2> QED BY <1>11, <2>1, <2>2 DEF VerifyEnds, AssertActive
<1> QED BY <1>1, <1>2, <1>3, <1>4, <1>5, <1>6, <1>7, <1>8, <1>9, <1>10, <1>11

\* Calls of the application and of listeners.
LEMMA CallKeeps ==
    ASSUME JobInv,
           \/ Start \/ Cancel \/ Retry \/ RetryResumes
           \/ ListenerCancels \/ ListenerRetries \/ ListenerThrows
    PROVE  JobInv'
<1> USE JobAssumption DEF callVars, snapshotVars, runVars, JobInv
<1>a. pc # "waiting" => subscribed = FALSE /\ timer = FALSE
  BY DEF WaitInv, TypeOK
<1>1. CASE Start
  BY <1>1, <1>a
  DEF Start, Enter, TypeOK, AttemptsInv, FailureInv, ResultInv, WaitInv, QuietInv,
      VerifiedIsSound, Lifecycle, Location, Await, Update, BeforePublish, BeforeFetch
<1>2. CASE Cancel
  <2>1. CASE pc \in {"waiting", "publish_delay", "fetch_delay"}
    BY <1>2, <2>1
    DEF Cancel, CancelAt, TypeOK, AttemptsInv, FailureInv, ResultInv, WaitInv, QuietInv,
        VerifiedIsSound, Lifecycle, Failures, Location, Await, Update, BeforePublish, BeforeFetch
  <2>2. CASE pc \in {"idle", "signing", "publishing", "received", "fetching", "verifying"}
    <3>1. TypeOK'
      BY <1>2, <1>a, <2>2
      DEF Cancel, CancelAt, TypeOK, Lifecycle, Failures, Location, Await, Update
    <3>2. AttemptsInv'
      BY <1>2, <1>a, <2>2
      DEF Cancel, CancelAt, AttemptsInv, TypeOK, BeforePublish, BeforeFetch
    <3>3. FailureInv'
      BY <1>2, <1>a, <2>2
      DEF Cancel, CancelAt, FailureInv
    <3>4. ResultInv'
      BY <1>2, <1>a, <2>2
      DEF Cancel, CancelAt, ResultInv, TypeOK, VerifiedIsSound
    <3>5. WaitInv'
      BY <1>2, <1>a, <2>2
      DEF Cancel, CancelAt, WaitInv
    <3>6. QuietInv'
      BY <1>2, <1>a, <2>2
      DEF Cancel, CancelAt, QuietInv, FailureInv
    <3> QED BY <3>1, <3>2, <3>3, <3>4, <3>5, <3>6
  <2> QED BY <1>2, <2>1, <2>2 DEF Cancel
<1>3. CASE Retry
  <2>1. TypeOK'
    <3>1. publishAttempt' \in 0..(PublishRetries + 1) /\ proofAttempt' \in 0..(ProofRetries + 1)
      BY <1>3, ZeroInBounds DEF Retry, Reset
    <3>2. pending' \in 0..MaxRetries /\ retries' \in 0..MaxRetries
      BY <1>3 DEF Retry, TypeOK
    <3>3. /\ state' \in Lifecycle /\ failure' \in Failures /\ verified' \in BOOLEAN
          /\ aborted' \in BOOLEAN /\ pc' \in Location
          /\ pc' \in {"u_draft", "signing"}
      BY <1>3 DEF Retry, Reset, TypeOK, Lifecycle, Failures, Location, Await, Update
    <3>4. UNCHANGED <<reentrant, subscribed, timer, result>>
      BY <1>3 DEF Retry
    <3> QED BY <3>1, <3>2, <3>3, <3>4 DEF TypeOK
  <2>2. AttemptsInv'
    BY <1>3, <1>a
    DEF Retry, Retryable, Reset, AttemptsInv, TypeOK, BeforePublish, BeforeFetch
  <2>3. FailureInv'
    BY <1>3, <1>a
    DEF Retry, Retryable, Reset, FailureInv
  <2>4. ResultInv'
    BY <1>3, <1>a
    DEF Retry, Retryable, Reset, ResultInv, TypeOK, VerifiedIsSound
  <2>5. WaitInv'
    BY <1>3, <1>a
    DEF Retry, Retryable, Reset, WaitInv
  <2>6. QuietInv'
    BY <1>3, <1>a
    DEF Retry, Retryable, Reset, QuietInv, FailureInv
  <2> QED BY <2>1, <2>2, <2>3, <2>4, <2>5, <2>6
<1>4. CASE RetryResumes
  <2>1. TypeOK'
    <3>1. publishAttempt' \in 0..(PublishRetries + 1) /\ proofAttempt' \in 0..(ProofRetries + 1)
      BY <1>4, ZeroInBounds DEF RetryResumes, Reset
    <3>2. pending' \in 0..MaxRetries /\ retries' \in 0..MaxRetries
      BY <1>4 DEF RetryResumes, TypeOK
    <3>3. /\ state' \in Lifecycle /\ failure' \in Failures /\ verified' \in BOOLEAN
          /\ aborted' \in BOOLEAN /\ pc' \in Location
          /\ pc' \in {"u_draft", "signing"}
      BY <1>4 DEF RetryResumes, Reset, TypeOK, Lifecycle, Failures, Location, Await, Update
    <3>4. UNCHANGED <<reentrant, subscribed, timer, result>>
      BY <1>4 DEF RetryResumes
    <3> QED BY <3>1, <3>2, <3>3, <3>4 DEF TypeOK
  <2>2. AttemptsInv'
    BY <1>4, <1>a
    DEF RetryResumes, Reset, AttemptsInv, TypeOK, BeforePublish, BeforeFetch
  <2>3. FailureInv'
    BY <1>4, <1>a
    DEF RetryResumes, Reset, FailureInv
  <2>4. ResultInv'
    BY <1>4, <1>a
    DEF RetryResumes, Reset, ResultInv, TypeOK, VerifiedIsSound
  <2>5. WaitInv'
    BY <1>4, <1>a
    DEF RetryResumes, Reset, WaitInv
  <2>6. QuietInv'
    BY <1>4, <1>a
    DEF RetryResumes, Reset, QuietInv, FailureInv
  <2> QED BY <2>1, <2>2, <2>3, <2>4, <2>5, <2>6
<1>5. CASE ListenerCancels
  BY <1>5, <1>a
  DEF ListenerCancels, CancelAt, TypeOK, AttemptsInv, FailureInv, ResultInv, WaitInv, QuietInv,
      VerifiedIsSound, Lifecycle, Failures, Location, Await, Update, BeforePublish, BeforeFetch
<1>6. CASE ListenerRetries
  BY <1>6, <1>a
  DEF ListenerRetries, Retryable, TypeOK, AttemptsInv, FailureInv, ResultInv, WaitInv, QuietInv,
      VerifiedIsSound, Location, Await, Update, BeforePublish, BeforeFetch
<1>7. CASE ListenerThrows
  <2>1. CASE pc \in {"u_draft", "u_failed"}
    BY <1>7, <1>a, <2>1
    DEF ListenerThrows, TypeOK, AttemptsInv, FailureInv, ResultInv, WaitInv, QuietInv,
        VerifiedIsSound, Location, Await, Update, BeforePublish, BeforeFetch
  <2>2. CASE pc \in Update \ {"u_draft", "u_failed"}
    <3>1. pc \notin {"idle", "settling", "u_failed", "u_draft"} /\ pc # "waiting"
      BY <2>2 DEF Update
    <3>2. "terminal" \in Failures \ {"none"} /\ Throw("terminal") /\ reentrant
      BY <1>7, <2>2 DEF ListenerThrows, Failures
    <3> QED BY <1>7, <1>a, <3>1, <3>2, ThrowKeeps DEF ListenerThrows
  <2> QED BY <1>7, <2>1, <2>2 DEF ListenerThrows
<1> QED BY <1>1, <1>2, <1>3, <1>4, <1>5, <1>6, <1>7

\* Every step of the job keeps the invariant.
LEMMA NextJob == JobInv /\ [Next]_vars => JobInv'
<1> SUFFICES ASSUME JobInv, [Next]_vars PROVE JobInv'
  OBVIOUS
<1>1. CASE UNCHANGED vars
  BY <1>1
  DEF vars, snapshotVars, runVars, callVars, JobInv, TypeOK, AttemptsInv, FailureInv, ResultInv,
      WaitInv, QuietInv, VerifiedIsSound
<1> QED BY <1>1, ContinueKeeps, AwaitKeeps, CallKeeps DEF Next, RunStep

\* The invariant of run(), of cancel() and of retry(), whenever they interleave.
THEOREM JobAlwaysHolds == Spec => []JobInv
<1> QED BY InitJob, NextJob, PTL DEF Spec

\* What the invariant says to a client.
LEMMA JobAlwaysSafe ==
    Spec => [](VerifiedIsSound /\ SettledIsTerminal /\ SettledIsClean /\ CancelClearsAtOnce)
<1>1. JobInv => VerifiedIsSound
  BY DEF JobInv, ResultInv
<1>2. JobInv => SettledIsTerminal
  BY DEF JobInv, FailureInv, SettledIsTerminal
<1>3. JobInv => SettledIsClean
  BY DEF JobInv, WaitInv, SettledIsClean
<1>4. JobInv => CancelClearsAtOnce
  BY DEF JobInv, WaitInv, QuietInv, FailureInv, CancelClearsAtOnce
<1> QED BY <1>1, <1>2, <1>3, <1>4, JobAlwaysHolds, PTL

\* "verified" is shown only of a trusted success with a sound proof of a job that
\* was not cancelled.
THEOREM VerifiedAlwaysSound == Spec => []VerifiedIsSound
BY JobAlwaysSafe, PTL

\* A run that is over left the job verified or failed, with a failure to show
\* exactly if it failed.
THEOREM SettledAlwaysTerminal == Spec => []SettledIsTerminal
BY JobAlwaysSafe, PTL

\* A run that is over left no subscription or timer behind, and cancel() of a job
\* whose listeners only look closes both at once.
THEOREM JobAlwaysClean == Spec => [](SettledIsClean /\ CancelClearsAtOnce)
BY JobAlwaysSafe, PTL

-----------------------------------------------------------------------------
(* What a step may never do.                                               *)

\* A job that has neither failed nor been verified may fail.
LEMMA FailingIsMonotonic ==
    ASSUME TypeOK, state \notin {"verified", "failed"}, state' = "failed"
    PROVE  MonotonicStep
BY DEF TypeOK, Lifecycle, MonotonicStep, Successor

\* The forward steps of run(), each from the state before it.
LEMMA EnteringIsMonotonic ==
    ASSUME \/ state = "draft" /\ state' = "publishing"
           \/ state = "publishing" /\ state' = "awaiting_result"
           \/ state = "awaiting_result" /\ state' = "result_received"
           \/ state = "result_received" /\ state' = "fetching"
           \/ state = "fetching" /\ state' = "verifying"
           \/ state = "verifying" /\ state' = "verified"
    PROVE  MonotonicStep
BY DEF MonotonicStep, Successor

\* One step of a job whose listeners only look.
LEMMA QuietStepIsMonotonic ==
    ASSUME JobInv, [Next]_vars, ~reentrant, state' # state
    PROVE  MonotonicStep
<1> USE DEF JobInv, callVars, snapshotVars, runVars
<1>a. state = "verified" => pc \in {"u_verified", "settling", "idle"}
  BY DEF ResultInv
<1>b. ASSUME NEW f, Throw(f), pc \notin {"u_verified", "settling", "idle"} PROVE MonotonicStep
  BY <1>a, <1>b, FailingIsMonotonic DEF Throw
<1>1. CASE Continue
  <2>1. ASSUME NEW f, Throw(f), pc \in {"u_request", "u_result", "u_received", "u_fetching"}
        PROVE  MonotonicStep
    BY <2>1, <1>b
  <2>2. CASE Enter("publishing", "u_publishing") /\ state = "draft"
    BY <2>2, EnteringIsMonotonic DEF Enter
  <2>3. CASE Enter("result_received", "u_received") /\ pc = "u_result"
    BY <2>3, EnteringIsMonotonic DEF Enter, QuietInv
  <2>4. CASE Enter("fetching", "u_fetching") /\ pc = "u_received"
    BY <2>4, EnteringIsMonotonic DEF Enter, QuietInv
  <2> QED BY <1>1, <2>1, <2>2, <2>3, <2>4 DEF Continue, PublishOnce, FetchOnce, AssertActive
<1>2. CASE Rejected \/ ResultTimeout \/ SignerReplies \/ ResultResolved \/ DelayEnds
  BY <1>2, <1>b
  DEF Rejected, ResultTimeout, SignerReplies, ResultResolved, DelayEnds, PublishOnce, FetchOnce,
      AssertActive
<1>3. CASE PublishEnds
  <2>1. CASE ~aborted /\ Enter("awaiting_result", "u_awaiting")
    BY <1>3, <2>1, EnteringIsMonotonic DEF PublishEnds, Enter, QuietInv
  <2> QED BY <1>3, <2>1, <1>b DEF PublishEnds, AssertActive
<1>4. CASE FetchEnds
  <2>1. CASE ~aborted /\ Enter("verifying", "u_verifying")
    BY <1>4, <2>1, EnteringIsMonotonic DEF FetchEnds, FetchEndsWith, Enter, QuietInv
  <2> QED BY <1>4, <2>1, <1>b DEF FetchEnds, FetchEndsWith, AssertActive
<1>5. CASE VerifyEnds
  <2>1. CASE ~aborted /\ state' = "verified"
    BY <1>5, <2>1, EnteringIsMonotonic DEF VerifyEnds, QuietInv
  <2> QED BY <1>5, <2>1, <1>b DEF VerifyEnds, AssertActive
<1>6. CASE Start
  BY <1>6, EnteringIsMonotonic DEF Start, Enter
<1>7. CASE Cancel
  BY <1>7, FailingIsMonotonic DEF Cancel, CancelAt
<1>8. CASE Retry
  BY <1>8 DEF Retry, Reset, MonotonicStep
<1>9. CASE RetryResumes
  BY <1>9 DEF RetryResumes, QuietInv
<1>10. CASE WaitForResult \/ Settle \/ ResultArrives
  BY <1>10 DEF WaitForResult, Settle, ResultArrives
<1>11. CASE ListenerCancels \/ ListenerRetries \/ ListenerThrows
  BY <1>11 DEF ListenerCancels, ListenerRetries, ListenerThrows
<1> QED
  BY <1>1, <1>2, <1>3, <1>4, <1>5, <1>6, <1>7, <1>8, <1>9, <1>10, <1>11
  DEF Next, RunStep, vars

\* With listeners that only look, the lifecycle of a job is monotonic.
THEOREM JobIsMonotonic == Spec => MonotonicUnlessReentrant
<1>1. JobInv /\ [Next]_vars => [~reentrant /\ state' # state => MonotonicStep]_vars
  BY QuietStepIsMonotonic
<1> QED BY <1>1, JobAlwaysHolds, PTL DEF Spec, MonotonicUnlessReentrant

\* With such listeners nothing new is begun once the job was cancelled.
THEOREM CancelledJobRests == Spec => NoNewWorkAfterCancel
<1> DEFINE Begins == pc' # pc /\ pc' \in {"publishing", "waiting", "fetching", "verifying"}
<1>1. ASSUME JobInv, [Next]_vars, ~reentrant, Begins
      PROVE  pc \in {"u_publish_attempt", "u_awaiting", "u_proof_attempt", "u_verifying"}
  <2> USE <1>1
  <2>1. ASSUME NEW f PROVE ~Throw(f)
    BY DEF Throw
  <2> QED
    BY <2>1
    DEF Next, RunStep, vars, Continue, WaitForResult, Rejected, Settle, RetryResumes, PublishEnds,
        DelayEnds, ResultResolved, ResultTimeout, FetchEnds, FetchEndsWith, VerifyEnds,
        SignerReplies, ResultArrives, Start, Cancel, CancelAt, Retry, ListenerCancels,
        ListenerRetries, ListenerThrows, PublishOnce, FetchOnce, AssertActive, Enter
<1>2. JobInv /\ [Next]_vars =>
          [/\ ~reentrant /\ pc' # pc
           /\ pc' \in {"publishing", "waiting", "fetching", "verifying"}
           => ~aborted]_vars
  BY <1>1 DEF JobInv, QuietInv
<1> QED BY <1>2, JobAlwaysHolds, PTL DEF Spec, NoNewWorkAfterCancel
=============================================================================
