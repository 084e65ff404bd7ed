-------------------------- MODULE ProofFetchProofs --------------------------
(***************************************************************************)
(* The download of a proof implements the job SoulJob describes, for every *)
(* size of the proof and of the chunks it arrives in, and what was proved  *)
(* of the job holds with it.                                               *)
(***************************************************************************)
EXTENDS ProofFetch, SoulJobProofs

-----------------------------------------------------------------------------
(* Refinement.                                                             *)

\* The steps of the job beside a download.
JobBeside ==
    \/ Continue /\ pc # "u_proof_attempt"
    \/ WaitForResult \/ Rejected \/ Settle \/ RetryResumes
    \/ PublishEnds \/ DelayEnds \/ ResultResolved \/ ResultTimeout \/ VerifyEnds
    \/ SignerReplies \/ ResultArrives
    \/ Start \/ Cancel \/ Retry
    \/ ListenerCancels \/ ListenerRetries \/ ListenerThrows

\* The steps of a download that leave the job alone.
DownloadGoesOn == UNCHANGED vars /\ (Respond \/ Read \/ TimerFires)

\* The steps that end one, with the outcome that SoulJob sees.
DownloadOver(outcome) ==
    /\ download # "none"
    /\ DownloadEnds(outcome)
    /\ \/ /\ outcome # "refused" \/ (stopped /\ aborted) \/ download = "cancel"
          /\ UNCHANGED declined
       \/ declined' = TRUE

\* Every step is one of these four kinds.
LEMMA FetchStepKinds ==
    ASSUME [FetchNext]_fetchVars
    PROVE  \/ Beside(JobBeside)
           \/ DownloadBegins
           \/ DownloadGoesOn
           \/ \E outcome \in FetchOutcome : DownloadOver(outcome)
           \/ UNCHANGED fetchVars
<1>a. ASSUME download # "none", Rejects
      PROVE  \E outcome \in FetchOutcome : DownloadOver(outcome)
  BY <1>a DEF Rejects, DownloadOver, FetchOutcome
<1>1. ASSUME Respond
      PROVE  DownloadGoesOn \/ \E outcome \in FetchOutcome : DownloadOver(outcome)
  BY <1>1 DEF Respond, DownloadGoesOn, DownloadOver, FetchOutcome
<1>2. ASSUME Read
      PROVE  DownloadGoesOn \/ \E outcome \in FetchOutcome : DownloadOver(outcome)
  BY <1>2 DEF Read, DownloadGoesOn, DownloadOver, FetchOutcome
<1>3. ASSUME ConnectionLost PROVE \E outcome \in FetchOutcome : DownloadOver(outcome)
  BY <1>3, <1>a DEF ConnectionLost
<1>4. ASSUME ReaderCancelled PROVE \E outcome \in FetchOutcome : DownloadOver(outcome)
  BY <1>4, <1>a DEF ReaderCancelled, DownloadOver, FetchOutcome
<1>5. ASSUME Digested PROVE \E outcome \in FetchOutcome : DownloadOver(outcome)
  BY <1>5 DEF Digested, DownloadOver, FetchOutcome
<1>6. ASSUME TimerFires PROVE DownloadGoesOn
  BY <1>6 DEF TimerFires, DownloadGoesOn
<1>7. ASSUME FetchNext, ~Beside(JobBeside)
      PROVE  \/ DownloadBegins \/ ReaderCancelled \/ Digested
             \/ TimerFires \/ Respond \/ Read \/ ConnectionLost
  BY <1>7 DEF FetchNext, OwnStep, Beside, JobBeside
<1> QED BY <1>1, <1>2, <1>3, <1>4, <1>5, <1>6, <1>7

\* And so a step of the job, or none of its business.
LEMMA FetchStepRefines == [FetchNext]_fetchVars => [Next]_vars
<1> SUFFICES ASSUME [FetchNext]_fetchVars PROVE [Next]_vars
  OBVIOUS
<1>1. CASE Beside(JobBeside)
  BY <1>1 DEF Beside, JobBeside, Next, RunStep
<1>2. CASE DownloadBegins
  BY <1>2 DEF DownloadBegins, Next, RunStep
<1>3. CASE DownloadGoesOn \/ UNCHANGED fetchVars
  BY <1>3 DEF DownloadGoesOn, fetchVars
<1>4. ASSUME NEW outcome \in FetchOutcome, DownloadOver(outcome) PROVE Next
  BY <1>4 DEF DownloadOver, DownloadEnds, FetchEnds, Next, RunStep
<1> QED BY <1>1, <1>2, <1>3, <1>4, FetchStepKinds

\* With the download in all its steps, the job is a job of SoulJob: the safety
\* half of ImplementsJob.  (That its fairness follows too is left to TLC.)
THEOREM FetchImplementsJob == FetchSpec => Spec
<1>1. FetchInit => Init
  BY DEF FetchInit
<1> QED BY <1>1, FetchStepRefines, PTL DEF FetchSpec, Spec

\* So all that was proved of the job holds while it downloads.
THEOREM FetchKeepsJobSafe ==
    FetchSpec => /\ [](VerifiedIsSound /\ SettledIsTerminal)
                 /\ MonotonicUnlessReentrant
                 /\ NoNewWorkAfterCancel
BY FetchImplementsJob, JobAlwaysSafe, JobIsMonotonic, CancelledJobRests, PTL

-----------------------------------------------------------------------------
(* The download itself.                                                    *)

\* The inductive invariant: a download lives exactly at the await of its attempt,
\* listens to the job as long as it lives, counts its bytes from 0, and cancels a
\* body only because of what the server sent.
FetchInv ==
    /\ JobInv
    /\ FetchTypeOK
    /\ DownloadIsClean
    /\ download # "none" => listening
    /\ download \in {"none", "response"} => total = 0
    /\ download = "cancel" => declined
    /\ CancelStopsDownload

\* Nothing beside the download moves run() to or from the await of an attempt.
LEMMA BesideAwaits ==
    ASSUME JobInv, JobBeside
    PROVE  pc' = "fetching" <=> pc = "fetching"
<1>1. ASSUME NEW f, Throw(f) PROVE pc' # "fetching"
  BY <1>1 DEF Throw
<1>2. CASE Continue /\ pc # "u_proof_attempt"
  BY <1>1, <1>2 DEF Continue, PublishOnce, FetchOnce, AssertActive, Enter
<1>3. CASE \/ WaitForResult \/ Rejected \/ Settle \/ RetryResumes \/ PublishEnds \/ DelayEnds
           \/ ResultResolved \/ ResultTimeout \/ VerifyEnds \/ SignerReplies \/ ResultArrives
  BY <1>1, <1>3
  DEF WaitForResult, Rejected, Settle, RetryResumes, PublishEnds, DelayEnds, ResultResolved,
      ResultTimeout, VerifyEnds, SignerReplies, ResultArrives, PublishOnce, FetchOnce,
      AssertActive, Enter
<1>4. CASE Start \/ Cancel \/ Retry \/ ListenerCancels \/ ListenerRetries \/ ListenerThrows
  BY <1>1, <1>4
  DEF Start, Cancel, CancelAt, Retry, ListenerCancels, ListenerRetries, ListenerThrows, Enter,
      Update, vars, runVars
<1> QED BY <1>2, <1>3, <1>4 DEF JobBeside

\* An attempt that begins finds the job active if listeners only look.
LEMMA BeginKeeps ==
    ASSUME FetchInv, JobInv', DownloadBegins
    PROVE  FetchInv'
<1>1. pc' = "fetching" /\ pc = "u_proof_attempt" /\ UNCHANGED <<aborted, reentrant>>
  BY DEF DownloadBegins, Continue, callVars
<1>2. ~reentrant => ~aborted
  BY <1>1 DEF FetchInv, JobInv, QuietInv
<1>3. FetchTypeOK'
  BY FetchAssumption DEF DownloadBegins, FetchTypeOK, JobInv
<1>4. DownloadIsClean' /\ CancelStopsDownload'
  BY <1>1, <1>2 DEF DownloadBegins, DownloadIsClean, CancelStopsDownload
<1> QED BY <1>3, <1>4 DEF DownloadBegins, FetchInv

\* Bytes arrive, or time passes.
LEMMA GoesOnKeeps ==
    ASSUME FetchInv, JobInv', DownloadGoesOn
    PROVE  FetchInv'
<1> USE FetchAssumption DEF FetchInv, FetchTypeOK
<1>a. UNCHANGED <<pc, aborted, reentrant>>
  BY DEF DownloadGoesOn, vars, callVars
<1>1. CASE Respond
  <2>1. ASSUME NEW o, DownloadEnds(o) PROVE FALSE
    BY <1>a, <2>1 DEF DownloadEnds, FetchEndsWith, AssertActive, Throw, Enter
  <2>2. /\ download = "response" /\ download' = "chunk" /\ ~stopped
        /\ UNCHANGED <<total, intact, deadline, listening, stopped, declined>>
    BY <1>1, <2>1 DEF Respond
  <2>3. FetchTypeOK'
    BY <2>2 DEF JobInv
  <2>4. DownloadIsClean' /\ CancelStopsDownload'
    BY <1>a, <2>2 DEF DownloadIsClean, CancelStopsDownload
  <2> QED BY <2>2, <2>3, <2>4
<1>2. CASE Read
  <2>1. ASSUME NEW o, DownloadEnds(o) PROVE FALSE
    BY <1>a, <2>1 DEF DownloadEnds, FetchEndsWith, AssertActive, Throw, Enter
  <2>2. /\ download = "chunk" /\ ~stopped
        /\ download' \in {"chunk", "cancel", "digest"}
        /\ UNCHANGED <<deadline, listening, stopped>>
    BY <1>2, <2>1 DEF Read
  <2>3. /\ total' \in Nat /\ intact' \in BOOLEAN /\ declined' \in BOOLEAN
        /\ download' \in {"chunk", "digest"} => total' <= ByteSize
        /\ download' = "cancel" => declined'
    <3>1. CASE \E n \in Chunk : total' = total + n
      <4>1. total' \in Nat
        BY <3>1
      <4>2. CASE UNCHANGED total /\ total = ByteSize /\ UNCHANGED <<intact, declined>>
        BY <1>2, <2>2, <4>1, <4>2 DEF Read
      <4>3. CASE /\ download' = IF total' > ByteSize THEN "cancel" ELSE "chunk"
                 /\ declined' = (total' > ByteSize) /\ intact' \in {intact, FALSE}
        <5>a. intact \in BOOLEAN
          OBVIOUS
        <5>b. declined' = (total' > ByteSize) /\ intact' \in {intact, FALSE}
          BY <4>3
        <5>1. intact' \in BOOLEAN
          BY <5>a, <5>b, Zenon
        <5>2. CASE total' > ByteSize
          <6>1. declined' = TRUE
            BY <5>b, <5>2, Zenon
          <6>2. download' = "cancel"
            BY <4>3, <5>2
          <6> QED BY <4>1, <5>1, <6>1, <6>2
        <5>3. CASE ~(total' > ByteSize)
          <6>1. declined' = FALSE
            <7>1. (total' > ByteSize) = FALSE
              BY <4>1, <5>3
            <7> QED BY <5>b, <7>1, Zenon
          <6>2. download' = "chunk" /\ total' <= ByteSize
            BY <4>1, <4>3, <5>3
          <6> QED BY <4>1, <5>1, <6>1, <6>2
        <5> QED BY <5>2, <5>3
      <4> QED BY <1>2, <2>1, <4>2, <4>3 DEF Read
    <3>2. CASE /\ total = ByteSize /\ download' = "digest"
               /\ UNCHANGED <<total, intact, declined>>
      BY <3>2
    <3> QED BY <1>2, <2>1, <3>1, <3>2 DEF Read
  <2>4. FetchTypeOK'
    BY <2>2, <2>3 DEF JobInv
  <2>5. DownloadIsClean' /\ CancelStopsDownload'
    BY <1>a, <2>2 DEF DownloadIsClean, CancelStopsDownload
  <2> QED BY <2>2, <2>3, <2>4, <2>5
<1>3. CASE TimerFires
  <2>1. /\ deadline /\ deadline' = FALSE /\ stopped' = TRUE
        /\ UNCHANGED <<download, total, intact, listening, declined>>
    BY <1>3 DEF TimerFires
  <2>2. FetchTypeOK'
    BY <2>1 DEF JobInv
  <2>3. DownloadIsClean' /\ CancelStopsDownload'
    BY <1>a, <2>1 DEF DownloadIsClean, CancelStopsDownload
  <2> QED BY <2>1, <2>2, <2>3
<1> QED BY <1>1, <1>2, <1>3 DEF DownloadGoesOn

\* The end of an attempt, in any way.
LEMMA OverKeeps ==
    ASSUME FetchInv, JobInv', NEW outcome \in FetchOutcome, DownloadOver(outcome)
    PROVE  FetchInv'
<1>1. pc = "fetching" /\ pc' # "fetching"
  BY DEF DownloadOver, DownloadEnds, FetchEndsWith, AssertActive, Throw, Enter
<1>2. /\ download' = "none" /\ total' = 0 /\ intact' = TRUE
      /\ deadline' = FALSE /\ listening' = FALSE /\ stopped' = FALSE
  BY DEF DownloadOver, DownloadEnds
<1>3. declined' \in BOOLEAN
  BY DEF DownloadOver, FetchInv, FetchTypeOK
<1> QED
  BY <1>1, <1>2, <1>3, FetchAssumption
  DEF FetchInv, FetchTypeOK, JobInv, DownloadIsClean, CancelStopsDownload

\* A step of the job beside the download; cancel() is the one that matters.
LEMMA BesideKeeps ==
    ASSUME FetchInv, JobInv', Beside(JobBeside)
    PROVE  FetchInv'
<1>1. pc' = "fetching" <=> pc = "fetching"
  BY BesideAwaits DEF Beside, FetchInv
<1>2. UNCHANGED <<download, total, intact, deadline, listening, declined>>
  BY DEF Beside
<1>3. stopped' \in BOOLEAN /\ (stopped => stopped')
      /\ (listening /\ ~aborted /\ aborted' => stopped')
  BY DEF Beside, FetchInv, FetchTypeOK
<1>4. JobBeside
  BY DEF Beside
<1>5. reentrant' = reentrant
  <2> USE DEF callVars
  <2> QED
    BY <1>4
    DEF JobBeside, Continue, WaitForResult, Rejected, Settle, RetryResumes, PublishEnds,
        DelayEnds, ResultResolved, ResultTimeout, VerifyEnds, SignerReplies, ResultArrives,
        Start, Cancel, CancelAt, Retry, ListenerCancels, ListenerRetries, ListenerThrows
<1>6. FetchTypeOK'
  BY <1>2, <1>3 DEF FetchInv, FetchTypeOK, JobInv
<1>7. DownloadIsClean'
  BY <1>1, <1>2 DEF FetchInv, DownloadIsClean
<1>8. CancelStopsDownload'
  BY <1>2, <1>3, <1>5 DEF FetchInv, FetchTypeOK, JobInv, TypeOK, CancelStopsDownload
<1> QED BY <1>2, <1>6, <1>7, <1>8 DEF FetchInv

\* Every step of the job with its download keeps the invariant.
LEMMA NextFetch == FetchInv /\ [FetchNext]_fetchVars => FetchInv'
<1> SUFFICES ASSUME FetchInv, [FetchNext]_fetchVars PROVE FetchInv'
  OBVIOUS
<1>1. JobInv'
  BY FetchStepRefines, NextJob DEF FetchInv
<1>2. CASE UNCHANGED fetchVars
  BY <1>1, <1>2
  DEF fetchVars, downloadVars, vars, callVars, FetchInv, FetchTypeOK, JobInv, DownloadIsClean,
      CancelStopsDownload
<1> QED BY <1>1, <1>2, FetchStepKinds, BeginKeeps, GoesOnKeeps, OverKeeps, BesideKeeps

\* The invariant of a job and its downloads.
THEOREM FetchAlwaysHolds == FetchSpec => []FetchInv
<1>1. FetchInit => FetchInv
  <2> SUFFICES ASSUME FetchInit PROVE FetchInv
    OBVIOUS
  <2>1. JobInv
    BY InitJob DEF FetchInit
  <2>2. FetchTypeOK
    BY <2>1, FetchAssumption DEF FetchInit, NoDownload, FetchTypeOK, JobInv
  <2>3. DownloadIsClean /\ CancelStopsDownload
    BY DEF FetchInit, Init, NoDownload, DownloadIsClean, CancelStopsDownload
  <2> QED BY <2>1, <2>2, <2>3 DEF FetchInit, NoDownload, FetchInv
<1> QED BY <1>1, NextFetch, PTL DEF FetchSpec

\* What the invariants of the job and of the download say together.
LEMMA FetchAlwaysSafe == FetchSpec => [](FetchTypeOK /\ NothingOutlives /\ CancelIsHeard)
<1>1. FetchInv => FetchTypeOK /\ DownloadIsClean /\ CancelStopsDownload
  BY DEF FetchInv
<1>2. FetchSpec => [](SettledIsClean /\ CancelClearsAtOnce)
  BY FetchImplementsJob, JobAlwaysSafe, PTL
<1>3. /\ SettledIsClean /\ CancelClearsAtOnce /\ FetchTypeOK /\ DownloadIsClean
      /\ CancelStopsDownload
      => FetchTypeOK /\ NothingOutlives /\ CancelIsHeard
  BY DEF NothingOutlives, CancelIsHeard
<1> QED BY <1>1, <1>2, <1>3, FetchAlwaysHolds, PTL

\* Bytes past the signed size are never kept, however the body is cut into
\* chunks.
THEOREM FetchTypeCorrect == FetchSpec => []FetchTypeOK
BY FetchAlwaysSafe, PTL

\* No timeout, listener or subscription outlives the run or the download that
\* opened it.
THEOREM NothingEverOutlives == FetchSpec => []NothingOutlives
BY FetchAlwaysSafe, PTL

\* cancel() reaches a wait for a result and a download in progress at once.
THEOREM CancelAlwaysHeard == FetchSpec => []CancelIsHeard
BY FetchAlwaysSafe, PTL

\* A failed download ends the job for good only if the server sent what the
\* signed descriptor rules out: timeouts, broken connections, short and damaged
\* bodies leave it retryable.
THEOREM OnlyServerIsTerminal == FetchSpec => TerminalOnlyIfDeclined
<1>1. ASSUME FetchInv, [FetchNext]_fetchVars,
             download # "none", failure # "terminal", failure' = "terminal"
      PROVE  declined'
  <2>1. pc = "fetching"
    BY <1>1 DEF FetchInv, DownloadIsClean
  <2>2. CASE Beside(JobBeside)
    <3>1. JobBeside
      BY <2>2 DEF Beside
    <3>2. Cancel
      BY <2>1, <3>1
      DEF JobBeside, Continue, WaitForResult, Rejected, Settle, RetryResumes, PublishEnds,
          DelayEnds, ResultResolved, ResultTimeout, VerifyEnds, SignerReplies, ResultArrives,
          Start, Retry, ListenerCancels, ListenerRetries, ListenerThrows, Update
    <3> QED BY <1>1, <3>2 DEF Cancel, CancelAt
  <2>3. CASE DownloadBegins
    BY <2>1, <2>3 DEF DownloadBegins
  <2>4. CASE DownloadGoesOn \/ UNCHANGED fetchVars
    BY <1>1, <2>4 DEF DownloadGoesOn, fetchVars, vars, snapshotVars
  <2>5. ASSUME NEW outcome \in FetchOutcome, DownloadOver(outcome) PROVE declined'
    <3>1. FetchEndsWith(outcome)
      BY <2>5 DEF DownloadOver, DownloadEnds
    <3>2. outcome = "refused" /\ Throw("terminal")
      BY <1>1, <3>1 DEF FetchEndsWith, AssertActive, Throw, Enter, snapshotVars
    <3>3. ~aborted
      BY <1>1, <2>1, <3>2 DEF Throw, snapshotVars, FetchInv, JobInv, FailureInv
    <3> QED BY <1>1, <2>5, <3>2, <3>3 DEF DownloadOver, FetchInv
  <2> QED BY <1>1, <2>2, <2>3, <2>4, <2>5, FetchStepKinds
<1>2. FetchInv /\ [FetchNext]_fetchVars =>
        [download # "none" /\ failure # "terminal" /\ failure' = "terminal" => declined']_fetchVars
  BY <1>1
<1> QED BY <1>2, FetchAlwaysHolds, PTL DEF FetchSpec, TerminalOnlyIfDeclined
=============================================================================
